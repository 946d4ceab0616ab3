-------------------------- MODULE NvmStackProofs ---------------------------
(***************************************************************************)
(* Proofs about NvmStack, for any methods, objects and capacity.  IInv is  *)
(* about the frames alone: every block of memory goes back, whatever       *)
(* fails, and the arguments of a call are where the bytecode expects them. *)
(* RInv is about the objects: the count of each one is the number of       *)
(* places that refer to it, so that what is referred to is never freed.    *)
(***************************************************************************)
EXTENDS NvmStack, SequenceTheorems, FiniteSetTheorems, TLAPS

FrameSet ==
  [kind : {Code, Native}, locals : Seq(Ref \cup {Unset}), ops : Seq(Ref),
   cap : Nat]

MakingSet ==
  [kind : {"none", Code, Native}, locals : Seq(Ref \cup {Unset}), ops : {<<>>},
   cap : Nat, args : Seq(Ref), next : Nat \ {0}, at : Nat \ {0},
   got : SUBSET {"frame", "locals", "ops"}]

Shapes ==
  /\ frames \in Seq(FrameSet) /\ making \in MakingSet
  /\ blocks \in Int /\ hand \in Objs \cup {Unset}

\* The blocks that the frame in the making has at each stage.
Stage ==
  /\ pc \notin {"locals", "ops", "args", "err"} => making = NoFrame
  /\ pc \in {"locals", "ops", "args", "err"} => making.kind \in {Code, Native}
  /\ pc = "locals" => making.got = {"frame"}
  /\ pc = "ops" => making.got = {"frame", "locals"} /\ making.kind = Code
  /\ pc = "args" => making.got = IF making.kind = Code
                                 THEN {"frame", "locals", "ops"}
                                 ELSE {"frame", "locals"}

\* How many of the arguments before the n-th are wide.
WideOf(args, n) == {j \in 1 .. n - 1 : args[j] \in Wide}
Extra(m, n) == IF m.kind = Code THEN Cardinality(WideOf(m.args, n)) ELSE 0

\* The next argument goes where ArgsPlaced expects it.
AtNext == making.at = making.next + Extra(making, making.next)

NextInArgs == making.next <= Len(making.args) + 1

IInv == Shapes /\ Stage /\ BlocksBalance /\ AtNext /\ NextInArgs /\ ArgsPlaced

CodeOf(s) == {i \in DOMAIN s : s[i].kind = Code}

-----------------------------------------------------------------------------
(* Lemmas about the helpers *)

\* One more frame, one more with operands if it has code.
LEMMA AppendCode ==
  ASSUME NEW s \in Seq(FrameSet), NEW f \in FrameSet
  PROVE  /\ Append(s, f) \in Seq(FrameSet)
         /\ Len(Append(s, f)) = Len(s) + 1
         /\ Cardinality(CodeOf(Append(s, f))) =
              Cardinality(CodeOf(s)) + IF f.kind = Code THEN 1 ELSE 0
<1> DEFINE t == Append(s, f)
<1>1. /\ t \in Seq(FrameSet) /\ Len(t) = Len(s) + 1 /\ t[Len(s) + 1] = f
      /\ \A i \in 1 .. Len(s) : t[i] = s[i]
      /\ DOMAIN t = 1 .. Len(s) + 1 /\ DOMAIN s = 1 .. Len(s) /\ Len(s) \in Nat
  BY AppendProperties, LenProperties
<1> HIDE DEF t
<1>2. IsFiniteSet(CodeOf(s)) /\ Len(s) + 1 \notin CodeOf(s)
  <2>1. IsFiniteSet(1 .. Len(s)) /\ CodeOf(s) \in SUBSET (1 .. Len(s))
    BY <1>1, FS_Interval DEF CodeOf
  <2> QED
    BY <1>1, <2>1, FS_Subset
<1>3. CodeOf(t) = IF f.kind = Code THEN CodeOf(s) \cup {Len(s) + 1} ELSE CodeOf(s)
  BY <1>1 DEF CodeOf
<1>4. Cardinality(CodeOf(s)) \in Nat
  BY <1>2, FS_CardinalityType
<1>5. CASE f.kind = Code
  <2>1. Cardinality(CodeOf(t)) = Cardinality(CodeOf(s)) + 1
    BY <1>2, <1>3, <1>5, FS_AddElement
  <2> QED
    BY <1>1, <1>5, <2>1 DEF t
<1>6. CASE f.kind # Code
  BY <1>1, <1>3, <1>4, <1>6 DEF t
<1> QED
  BY <1>5, <1>6

\* One frame fewer.
LEMMA FrontCode ==
  ASSUME NEW s \in Seq(FrameSet), s # <<>>
  PROVE  /\ Front(s) \in Seq(FrameSet)
         /\ Len(Front(s)) = Len(s) - 1
         /\ Last(s) \in FrameSet
         /\ Cardinality(CodeOf(Front(s))) =
              Cardinality(CodeOf(s)) - IF Last(s).kind = Code THEN 1 ELSE 0
<1> DEFINE t == Front(s)
           f == Last(s)
<1>1. Len(s) \in Nat \ {0} /\ DOMAIN s = 1 .. Len(s)
  BY EmptySeq, LenProperties
<1>2. f = s[Len(s)] /\ f \in FrameSet
  BY <1>1, ElementOfSeq DEF Last
<1>3. /\ t \in Seq(FrameSet) /\ Len(t) = Len(s) - 1
      /\ DOMAIN t = 1 .. Len(s) - 1 /\ \A i \in 1 .. Len(s) - 1 : t[i] = s[i]
  BY <1>1 DEF Front
<1> HIDE DEF t, f
<1>4. IsFiniteSet(CodeOf(s)) /\ Cardinality(CodeOf(s)) \in Nat
  <2>1. IsFiniteSet(1 .. Len(s)) /\ CodeOf(s) \in SUBSET (1 .. Len(s))
    BY <1>1, FS_Interval DEF CodeOf
  <2> QED
    BY <2>1, FS_Subset, FS_CardinalityType
<1>5. CodeOf(t) = CodeOf(s) \ {Len(s)} /\ (Len(s) \in CodeOf(s) <=> f.kind = Code)
  BY <1>1, <1>2, <1>3 DEF CodeOf
<1>6. Cardinality(CodeOf(t)) =
        IF Len(s) \in CodeOf(s) THEN Cardinality(CodeOf(s)) - 1
        ELSE Cardinality(CodeOf(s))
  BY <1>4, <1>5, FS_RemoveElement
<1> QED
  BY <1>2, <1>3, <1>4, <1>5, <1>6 DEF t, f

\* A frame that is changed, but not in kind.
LEMMA ExceptCode ==
  ASSUME NEW s \in Seq(FrameSet), NEW i \in DOMAIN s, NEW f \in FrameSet,
         f.kind = s[i].kind
  PROVE  /\ [s EXCEPT ![i] = f] \in Seq(FrameSet)
         /\ Len([s EXCEPT ![i] = f]) = Len(s)
         /\ CodeOf([s EXCEPT ![i] = f]) = CodeOf(s)
<1>1. DOMAIN s = 1 .. Len(s)
  BY LenProperties
<1>2. /\ [s EXCEPT ![i] = f] \in Seq(FrameSet)
      /\ Len([s EXCEPT ![i] = f]) = Len(s)
  BY <1>1, ExceptSeq
<1> QED
  BY <1>1, <1>2 DEF CodeOf

\* The sizes of what a frame in the making can have.
LEMMA GotSizes ==
  /\ Cardinality({}) = 0 /\ Cardinality({"frame"}) = 1
  /\ Cardinality({"frame", "locals"}) = 2
  /\ Cardinality({"frame", "locals", "ops"}) = 3
  /\ IsFiniteSet({"frame", "locals", "ops"})
<1>1. Cardinality({}) = 0 /\ IsFiniteSet({"frame"}) /\ Cardinality({"frame"}) = 1
  BY FS_EmptySet, FS_Singleton
<1>2. {"frame", "locals"} = {"frame"} \cup {"locals"}
  OBVIOUS
<1>3. IsFiniteSet({"frame", "locals"}) /\ Cardinality({"frame", "locals"}) = 2
  BY <1>1, <1>2, FS_AddElement
<1>4. {"frame", "locals", "ops"} = {"frame", "locals"} \cup {"ops"}
  OBVIOUS
<1>5. /\ Cardinality({"frame", "locals", "ops"}) = 3
      /\ IsFiniteSet({"frame", "locals", "ops"})
  BY <1>3, <1>4, FS_AddElement
<1> QED
  BY <1>1, <1>3, <1>5

\* Wide arguments before the n-th: no fewer before a later one, and one more
\* after it if it is wide.
LEMMA WideSteps ==
  ASSUME NEW args, NEW n \in Nat \ {0}
  PROVE  /\ Cardinality(WideOf(args, n)) \in Nat
         /\ \A k \in 1 .. n :
              Cardinality(WideOf(args, k)) <= Cardinality(WideOf(args, n))
         /\ Cardinality(WideOf(args, n + 1)) =
              Cardinality(WideOf(args, n)) + IF args[n] \in Wide THEN 1 ELSE 0
<1>1. \A k \in Nat : /\ IsFiniteSet(WideOf(args, k))
                     /\ Cardinality(WideOf(args, k)) \in Nat
  <2> SUFFICES ASSUME NEW k \in Nat
               PROVE  /\ IsFiniteSet(WideOf(args, k))
                      /\ Cardinality(WideOf(args, k)) \in Nat
    OBVIOUS
  <2>1. IsFiniteSet(1 .. k - 1) /\ WideOf(args, k) \in SUBSET (1 .. k - 1)
    BY FS_Interval DEF WideOf
  <2> QED
    BY <2>1, FS_Subset, FS_CardinalityType
<1>2. \A k \in 1 .. n :
        Cardinality(WideOf(args, k)) <= Cardinality(WideOf(args, n))
  <2> SUFFICES ASSUME NEW k \in 1 .. n
               PROVE  Cardinality(WideOf(args, k)) <= Cardinality(WideOf(args, n))
    OBVIOUS
  <2>1. WideOf(args, k) \in SUBSET WideOf(args, n)
    BY DEF WideOf
  <2> QED
    BY <1>1, <2>1, FS_Subset
<1>3. CASE args[n] \in Wide
  <2>1. /\ WideOf(args, n + 1) = WideOf(args, n) \cup {n}
        /\ n \notin WideOf(args, n)
    BY <1>3 DEF WideOf
  <2> QED
    BY <1>1, <1>2, <1>3, <2>1, FS_AddElement
<1>4. CASE args[n] \notin Wide
  <2>1. WideOf(args, n + 1) = WideOf(args, n)
    BY <1>4 DEF WideOf
  <2> QED
    BY <1>1, <1>2, <1>4, <2>1
<1> QED
  BY <1>3, <1>4

-----------------------------------------------------------------------------
\* What the stack, its manager and the stack's array of frames take.
Own == CASE pc \in {"unmade", "gone"} -> 0
         [] pc = "mgr" -> 1
         [] pc = "frames" -> 2
         [] OTHER -> 3

Total ==
  Own + 2 * Len(frames) + Cardinality(CodeOf(frames)) + Cardinality(making.got)

LEMMA Balance ==
  /\ BlocksBalance <=> blocks = Total
  /\ BlocksBalance' <=> blocks' = Total'
BY DEF BlocksBalance, Total, Own, CodeOf

LEMMA NoFrameMaking == NoFrame \in MakingSet /\ NoFrame.got = {}
<1>1. /\ <<>> \in Seq(Ref \cup {Unset}) /\ <<>> \in Seq(Ref)
      /\ {} \in SUBSET {"frame", "locals", "ops"}
  BY EmptySeq
<1> QED
  BY <1>1 DEF NoFrame, MakingSet

\* What holds of the arguments when no frame is made.
LEMMA NoFrameArgs ==
  ASSUME making = NoFrame
  PROVE  AtNext /\ NextInArgs /\ ArgsPlaced
<1>1. /\ making.at = 1 /\ making.next = 1 /\ making.kind = "none"
      /\ making.args = <<>> /\ making.locals = <<>>
      /\ Len(<<>>) = 0 /\ DOMAIN <<>> = {}
  BY EmptySeq DEF NoFrame
<1> QED
  BY <1>1 DEF AtNext, NextInArgs, ArgsPlaced, Extra, Code

LEMMA InitIInv == Init => IInv
<1> SUFFICES ASSUME Init PROVE IInv
  OBVIOUS
<1>1. /\ frames \in Seq(FrameSet) /\ Len(frames) = 0 /\ CodeOf(frames) = {}
  BY EmptySeq DEF Init, CodeOf
<1>2. BlocksBalance
  <2>1. Own = 0 /\ blocks = 0 /\ Cardinality(making.got) = 0
    BY NoFrameMaking, GotSizes DEF Init, Own
  <2>2. Cardinality(CodeOf(frames)) = 0
    BY <1>1, GotSizes
  <2> QED
    BY <1>1, <2>1, <2>2, Balance DEF Total
<1> QED
  BY <1>1, <1>2, NoFrameMaking, NoFrameArgs DEF Init, IInv, Shapes, Stage

LEMMA SizesNat ==
  ASSUME Shapes
  PROVE  /\ Len(frames) \in Nat /\ Cardinality(CodeOf(frames)) \in Nat
         /\ Cardinality(making.got) \in Nat /\ Own \in Nat
<1>1. Len(frames) \in Nat /\ DOMAIN frames = 1 .. Len(frames)
  BY LenProperties DEF Shapes
<1>2. Cardinality(CodeOf(frames)) \in Nat
  <2>1. /\ IsFiniteSet(1 .. Len(frames))
        /\ CodeOf(frames) \in SUBSET (1 .. Len(frames))
    BY <1>1, FS_Interval DEF CodeOf
  <2> QED
    BY <2>1, FS_Subset, FS_CardinalityType
<1>3. Cardinality(making.got) \in Nat
  <2>2. making.got \in SUBSET {"frame", "locals", "ops"}
    BY DEF Shapes, MakingSet
  <2> QED
    BY GotSizes, <2>2, FS_Subset, FS_CardinalityType
<1> QED
  BY <1>1, <1>2, <1>3 DEF Own

\* ArgsPlaced of a frame that is made.
Placed(m) ==
  LET Index(n) == n + Extra(m, n) IN
  /\ \A n \in 1 .. m.next - 1 : /\ Index(n) \in DOMAIN m.locals
                                /\ m.locals[Index(n)] = m.args[n]
  /\ \A l \in DOMAIN m.locals \ {Index(n) : n \in 1 .. m.next - 1} :
       m.locals[l] = Unset

LEMMA PlacedIs ==
  /\ ArgsPlaced <=> Placed(making)
  /\ ArgsPlaced' <=> Placed(making')
<1>1. ArgsPlaced <=> Placed(making)
  BY DEF ArgsPlaced, Placed, Extra, WideOf
<1>2. ArgsPlaced' <=> Placed(making')
  BY DEF ArgsPlaced, Placed, Extra, WideOf
<1> QED
  BY <1>1, <1>2

LEMMA ArgsKept ==
  ASSUME ArgsPlaced, making' = making
  PROVE  ArgsPlaced'
BY PlacedIs

\* A step that leaves the frames and their making as they are.
LEMMA AccountIInv ==
  ASSUME IInv, NEW from, NEW to, NEW n \in Int, Account(from, to, n),
         to \in {"locals", "ops", "args"} => FALSE,
         from \in {"locals", "ops", "args", "err"} => to = "err",
         to = "err" => from \in {"locals", "ops", "args", "err"},
         Own' = Own + n
  PROVE  IInv'
<1>1. /\ UNCHANGED <<frames, making, hand>> /\ blocks' = blocks + n
      /\ pc = from /\ pc' = to
  BY DEF Account, Goto
<1>2. Shapes' /\ AtNext' /\ NextInArgs' /\ ArgsPlaced'
  <2>1. Shapes'
    BY <1>1 DEF IInv, Shapes
  <2>2. AtNext' /\ NextInArgs'
    BY <1>1 DEF IInv, AtNext, NextInArgs, Extra, WideOf
  <2>3. ArgsPlaced'
    BY <1>1, ArgsKept DEF IInv
  <2> QED
    BY <2>1, <2>2, <2>3
<1>3. Stage'
  BY <1>1 DEF IInv, Stage
<1>4. BlocksBalance'
  <2>1. blocks = Total
    BY Balance DEF IInv
  <2>2. /\ Len(frames)' = Len(frames) /\ CodeOf(frames)' = CodeOf(frames)
        /\ making.got' = making.got
    BY <1>1 DEF CodeOf
  <2>3. /\ Len(frames) \in Nat /\ Cardinality(CodeOf(frames)) \in Nat
        /\ Cardinality(making.got) \in Nat /\ Own \in Nat
    BY SizesNat DEF IInv
  <2>4. Total' = Total + n
    BY <2>2, <2>3 DEF Total
  <2> QED
    BY <1>1, <2>1, <2>4, Balance
<1> QED
  BY <1>2, <1>3, <1>4 DEF IInv

\* A step that changes neither what is made nor how many frames there are.
LEMMA FramesIInv ==
  ASSUME IInv, UNCHANGED <<making, blocks, pc>>, frames' \in Seq(FrameSet),
         Len(frames') = Len(frames), CodeOf(frames') = CodeOf(frames),
         hand' \in Objs \cup {Unset}
  PROVE  IInv'
<1>1. Shapes' /\ Stage' /\ AtNext' /\ NextInArgs' /\ ArgsPlaced'
  <2>1. Shapes' /\ Stage'
    BY DEF IInv, Shapes, Stage
  <2>2. AtNext' /\ NextInArgs'
    BY DEF IInv, AtNext, NextInArgs, Extra, WideOf
  <2>3. ArgsPlaced'
    BY ArgsKept DEF IInv
  <2> QED
    BY <2>1, <2>2, <2>3
<1>2. Total' = Total
  BY DEF Total, Own
<1> QED
  BY <1>1, <1>2, Balance DEF IInv

\* The values that the program can pass.
LEMMA KnownRef == Known \subseteq Ref
BY DEF Known, Ref

LEMMA StoredHand ==
  ASSUME NEW S, Stored(S), hand \in Objs \cup {Unset}
  PROVE  hand' \in Objs \cup {Unset}
BY DEF Stored

LEMMA CallsIInv ==
  ASSUME IInv,
         \/ CreateStackMgr \/ ReleaseStackMgr \/ CreateStack \/ AllocFrames
         \/ AllocFramesFails \/ Refused \/ SetArgFails \/ ReleaseStack
         \/ ReleaseDone
  PROVE  IInv'
<1>1. CASE CreateStackMgr
  BY <1>1, AccountIInv DEF CreateStackMgr, Account, Goto, Own
<1>2. CASE ReleaseStackMgr
  BY <1>2, AccountIInv DEF ReleaseStackMgr, Account, Goto, Own
<1>3. CASE CreateStack
  BY <1>3, AccountIInv DEF CreateStack, Account, Goto, Own
<1>4. CASE AllocFrames
  BY <1>4, AccountIInv DEF AllocFrames, Account, Goto, Own
<1>5. CASE AllocFramesFails
  BY <1>5, AccountIInv DEF AllocFramesFails, Account, Goto, Own
<1>6. CASE Refused
  BY <1>6, AccountIInv DEF Refused, Account, Goto, Own
<1>7. CASE SetArgFails
  BY <1>7, AccountIInv DEF SetArgFails, Account, Goto, Own
<1>8. CASE ReleaseStack
  BY <1>8, AccountIInv DEF ReleaseStack, Account, Goto, Own
<1>9. CASE ReleaseDone
  BY <1>9, AccountIInv DEF ReleaseDone, Account, Goto, Own
<1> QED
  BY <1>1, <1>2, <1>3, <1>4, <1>5, <1>6, <1>7, <1>8, <1>9

LEMMA OperandsIInv ==
  ASSUME IInv, AllocHeap \/ Unref \/ OpPush \/ OpPop \/ OpPopKeep \/ SetLocal
  PROVE  IInv'
<1>0. frames \in Seq(FrameSet) /\ hand \in Objs \cup {Unset}
  BY DEF IInv, Shapes
<1>1. CASE AllocHeap
  BY <1>0, <1>1, FramesIInv DEF AllocHeap
<1>2. CASE Unref
  BY <1>0, <1>2, FramesIInv DEF Unref
<1>3. CASE OpPush
  <2>1. PICK i \in DOMAIN frames, o \in Known :
          /\ frames' = [frames EXCEPT ![i].ops = Append(@, o)]
          /\ Stored({o})
    BY <1>3 DEF OpPush
  <2>2. frames[i] \in FrameSet
    BY <1>0, ElementOfSeq, LenProperties
  <2>3. Append(frames[i].ops, o) \in Seq(Ref)
    BY <2>2, KnownRef, AppendProperties DEF FrameSet
  <2> DEFINE f == [frames[i] EXCEPT !.ops = Append(@, o)]
  <2>4. f \in FrameSet /\ f.kind = frames[i].kind
    BY <2>2, <2>3 DEF FrameSet
  <2>5. frames' = [frames EXCEPT ![i] = f]
    BY <2>1
  <2> HIDE DEF f
  <2>8. hand' \in Objs \cup {Unset} /\ UNCHANGED <<making, blocks, pc>>
    BY <1>0, <1>3, <2>1, StoredHand DEF OpPush
  <2>9. /\ frames' \in Seq(FrameSet) /\ Len(frames') = Len(frames)
        /\ CodeOf(frames') = CodeOf(frames)
    BY <1>0, <2>4, <2>5, ExceptCode
  <2> QED
    BY <2>8, <2>9, FramesIInv
<1>4. CASE OpPop \/ OpPopKeep
  <2>1. PICK i \in DOMAIN frames :
          /\ frames[i].ops # <<>>
          /\ frames' = [frames EXCEPT ![i].ops = Front(@)]
    BY <1>4 DEF OpPop, OpPopKeep
  <2>2. frames[i] \in FrameSet
    BY <1>0, ElementOfSeq, LenProperties
  <2>3. Front(frames[i].ops) \in Seq(Ref)
    <3>1. frames[i].ops \in Seq(Ref) /\ Len(frames[i].ops) \in Nat \ {0}
      BY <2>1, <2>2, EmptySeq DEF FrameSet
    <3> QED
      BY <3>1 DEF Front
  <2> DEFINE f == [frames[i] EXCEPT !.ops = Front(@)]
  <2>4. f \in FrameSet /\ f.kind = frames[i].kind
    BY <2>2, <2>3 DEF FrameSet
  <2>5. frames' = [frames EXCEPT ![i] = f]
    BY <2>1
  <2> HIDE DEF f
  <2>6. UNCHANGED <<making, blocks, hand, pc>>
    BY <1>4 DEF OpPop, OpPopKeep
  <2> QED
    BY <1>0, <2>4, <2>5, <2>6, ExceptCode, FramesIInv
<1>5. CASE SetLocal
  <2>1. PICK i \in DOMAIN frames, o \in Known : \E l \in DOMAIN frames[i].locals :
          /\ frames' = [frames EXCEPT ![i].locals[l] = o]
          /\ Stored({o})
    BY <1>5 DEF SetLocal
  <2>2. PICK l \in DOMAIN frames[i].locals :
          /\ frames' = [frames EXCEPT ![i].locals[l] = o]
          /\ Stored({o})
    BY <2>1
  <2>3. frames[i] \in FrameSet
    BY <1>0, ElementOfSeq, LenProperties
  <2>4. [frames[i].locals EXCEPT ![l] = o] \in Seq(Ref \cup {Unset})
    <3>1. /\ frames[i].locals \in Seq(Ref \cup {Unset})
          /\ o \in Ref \cup {Unset}
      BY <2>3, KnownRef DEF FrameSet
    <3> QED
      BY <3>1, ExceptSeq, LenProperties
  <2> DEFINE f == [frames[i] EXCEPT !.locals[l] = o]
  <2>5. f \in FrameSet /\ f.kind = frames[i].kind
    BY <2>3, <2>4 DEF FrameSet
  <2>6. frames' = [frames EXCEPT ![i] = f]
    BY <2>2
  <2> HIDE DEF f
  <2>8. hand' \in Objs \cup {Unset} /\ UNCHANGED <<making, blocks, pc>>
    BY <1>0, <1>5, <2>2, StoredHand DEF SetLocal
  <2>9. /\ frames' \in Seq(FrameSet) /\ Len(frames') = Len(frames)
        /\ CodeOf(frames') = CodeOf(frames)
    BY <1>0, <2>5, <2>6, ExceptCode
  <2> QED
    BY <2>8, <2>9, FramesIInv
<1> QED
  BY <1>1, <1>2, <1>3, <1>4, <1>5

-----------------------------------------------------------------------------
(* The steps that make a frame *)

\* A list of arguments is a sequence.
LEMMA ArgsSeq ==
  ASSUME NEW n, NEW args \in SeqUpTo(Known, n), n \in Nat
  PROVE  args \in Seq(Ref)
<1>1. PICK m \in 0 .. n : args \in [1 .. m -> Known]
  BY DEF SeqUpTo
<1>2. args \in [1 .. m -> Ref] /\ m \in Nat
  BY <1>1, KnownRef
<1> QED
  BY <1>2, SeqDef

LEMMA NewFrameMaking ==
  ASSUME NEW kind \in {Code, Native}, NEW args \in Seq(Ref), NEW locals \in Nat,
         NEW cap \in Nat
  PROVE  LET f == NewFrame(kind, args, locals, cap) IN
         /\ f \in MakingSet
         /\ f.kind = kind /\ f.got = {"frame"} /\ f.next = 1 /\ f.at = 1
         /\ f.args = args /\ f.locals = [i \in 1 .. locals |-> Unset]
<1>1. [i \in 1 .. locals |-> Unset] \in Seq(Ref \cup {Unset})
  <2>1. [i \in 1 .. locals |-> Unset] \in [1 .. locals -> Ref \cup {Unset}]
    OBVIOUS
  <2> QED
    BY <2>1, SeqDef
<1>2. /\ <<>> \in {<<>>} /\ 1 \in Nat \ {0}
      /\ {"frame"} \in SUBSET {"frame", "locals", "ops"}
  OBVIOUS
<1> QED
  BY <1>1, <1>2 DEF NewFrame, NoFrame, MakingSet

LEMMA CreateIInv ==
  ASSUME IInv, CreateFrame
  PROVE  IInv'
<1>1. PICK kind \in {Code, Native}, args \in Seq(Ref), l \in Nat, c \in Nat :
        making' = NewFrame(kind, args, l, c)
  <2>1. MaxArgs \in Nat /\ \A m \in Methods : m[1] \in Nat /\ m[2] \in Nat
    BY BoundsAssumption
  <2>2. PICK args \in SeqUpTo(Known, MaxArgs) :
          \/ \E m \in Methods : making' = NewFrame(Code, args, m[1], m[2])
          \/ making' = NewFrame(Native, args, Len(args), 0)
    BY DEF CreateFrame
  <2>3. args \in Seq(Ref) /\ Len(args) \in Nat
    BY <2>1, ArgsSeq, LenProperties
  <2> QED
    BY <2>1, <2>2, <2>3
<1>2. /\ making' \in MakingSet
      /\ making'.kind = kind /\ making'.got = {"frame"} /\ making'.next = 1
      /\ making'.at = 1 /\ making'.args = args
      /\ making'.locals = [i \in 1 .. l |-> Unset]
  BY <1>1, NewFrameMaking
<1>3. /\ pc = "caller" /\ pc' = "locals" /\ blocks' = blocks + 1
      /\ UNCHANGED <<frames, hand>> /\ making.got = {}
  BY NoFrameMaking DEF CreateFrame, Goto, IInv, Stage
<1>4. Shapes' /\ Stage'
  BY <1>1, <1>2, <1>3 DEF IInv, Shapes, Stage
<1>5. BlocksBalance'
  <2>1. Own' = 3 /\ Own = 3
    BY <1>3 DEF Own
  <2>2. /\ Cardinality(making.got) = 0 /\ Cardinality(making.got)' = 1
        /\ CodeOf(frames)' = CodeOf(frames) /\ Len(frames)' = Len(frames)
    BY <1>2, <1>3, GotSizes DEF CodeOf
  <2> QED
    BY <1>3, <2>1, <2>2, Balance, SizesNat DEF Total, IInv
<1>6. AtNext' /\ NextInArgs'
  <2>1. Len(args) \in Nat
    BY LenProperties
  <2>2. Cardinality(WideOf(making'.args, making'.next)) = 0
    <3>1. WideOf(making'.args, making'.next) = {}
      BY <1>2 DEF WideOf
    <3> QED
      BY <3>1, GotSizes
  <2> QED
    BY <1>2, <2>1, <2>2 DEF AtNext, NextInArgs, Extra
<1>7. ArgsPlaced'
  BY <1>2 DEF ArgsPlaced
<1> QED
  BY <1>4, <1>5, <1>6, <1>7 DEF IInv

LEMMA AllocIInv ==
  ASSUME IInv, AllocLocals \/ AllocOps
  PROVE  IInv'
<1>1. PICK w \in {"locals", "ops"} :
        /\ making' = [making EXCEPT !.got = @ \cup {w}]
        /\ making.got = IF w = "locals" THEN {"frame"} ELSE {"frame", "locals"}
        /\ pc \in {"locals", "ops"}
        /\ pc' = IF w = "locals" /\ making.kind = Code THEN "ops" ELSE "args"
        /\ w = "ops" => making.kind = Code
  BY DEF AllocLocals, AllocOps, Goto, IInv, Stage
<1>2. /\ blocks' = blocks + 1 /\ UNCHANGED <<frames, hand>>
      /\ making \in MakingSet /\ making.kind \in {Code, Native}
  BY <1>1 DEF AllocLocals, AllocOps, IInv, Stage, Shapes
<1>3. /\ making'.got = IF w = "locals" THEN {"frame", "locals"}
                                        ELSE {"frame", "locals", "ops"}
      /\ making' \in MakingSet /\ making'.kind = making.kind
      /\ making'.args = making.args /\ making'.locals = making.locals
      /\ making'.next = making.next /\ making'.at = making.at
  BY <1>1, <1>2 DEF MakingSet
<1>4. Shapes' /\ Stage'
  BY <1>1, <1>2, <1>3 DEF IInv, Shapes, Stage, Code, Native
<1>5. BlocksBalance'
  <2>1. Own' = 3 /\ Own = 3
    BY <1>1 DEF Own
  <2>2. /\ Cardinality(making'.got) = Cardinality(making.got) + 1
        /\ CodeOf(frames)' = CodeOf(frames) /\ Len(frames)' = Len(frames)
    BY <1>1, <1>2, <1>3, GotSizes DEF CodeOf
  <2> QED
    BY <1>2, <2>1, <2>2, Balance, SizesNat DEF Total, IInv
<1>6. AtNext' /\ NextInArgs' /\ ArgsPlaced'
  <2>1. \A n : Extra(making', n) = Extra(making, n)
    BY <1>3 DEF Extra
  <2>2. AtNext' /\ NextInArgs'
    BY <1>3, <2>1 DEF IInv, AtNext, NextInArgs
  <2>3. Placed(making')
    BY <1>3, <2>1, PlacedIs DEF IInv, Placed
  <2> QED
    BY <2>2, <2>3, PlacedIs
<1> QED
  BY <1>4, <1>5, <1>6 DEF IInv

\* The frame in the making goes, in one way or the other.
LEMMA DoneIInv ==
  ASSUME IInv, making' = NoFrame, pc' = "caller", Shapes',
         pc \in {"args", "err"}, blocks' = Total'
  PROVE  IInv'
<1>1. AtNext' /\ NextInArgs' /\ ArgsPlaced'
  <2>1. /\ making'.at = 1 /\ making'.next = 1 /\ making'.kind = "none"
        /\ making'.args = <<>> /\ making'.locals = <<>>
        /\ Len(<<>>) = 0 /\ DOMAIN <<>> = {}
    BY EmptySeq DEF NoFrame
  <2> QED
    BY <2>1 DEF AtNext, NextInArgs, ArgsPlaced, Extra, Code
<1> QED
  BY <1>1, Balance DEF IInv, Stage

LEMMA ErrIInv ==
  ASSUME IInv, Err
  PROVE  IInv'
<1>1. /\ pc = "err" /\ pc' = "caller" /\ making' = NoFrame
      /\ blocks' = blocks - Cardinality(making.got) /\ UNCHANGED frames
  BY DEF Err, Goto
<1>2. Shapes'
  <2>1. blocks' \in Int
    BY <1>1, SizesNat DEF IInv, Shapes
  <2> QED
    BY <1>1, <2>1, NoFrameMaking, StoredHand DEF Err, IInv, Shapes
<1>3. blocks' = Total'
  <2>1. /\ Own' = 3 /\ Own = 3 /\ Cardinality(making.got)' = 0
        /\ CodeOf(frames)' = CodeOf(frames) /\ Len(frames)' = Len(frames)
    BY <1>1, NoFrameMaking, GotSizes DEF Own, CodeOf
  <2> QED
    BY <1>1, <2>1, Balance, SizesNat DEF Total, IInv
<1> QED
  BY <1>1, <1>2, <1>3, DoneIInv

LEMMA PushIInv ==
  ASSUME IInv, PushFrame
  PROVE  IInv'
<1>1. /\ pc = "args" /\ pc' = "caller" /\ making' = NoFrame
      /\ blocks' = blocks /\ frames' = Append(frames, Frame(making))
      /\ making \in MakingSet /\ making.kind \in {Code, Native}
      /\ frames \in Seq(FrameSet)
  BY DEF PushFrame, Goto, IInv, Shapes, Stage
<1>2. Frame(making) \in FrameSet /\ Frame(making).kind = making.kind
  <2>1. making.ops \in Seq(Ref)
    BY <1>1, EmptySeq DEF MakingSet
  <2> QED
    BY <1>1, <2>1 DEF Frame, FrameSet, MakingSet
<1>3. /\ frames' \in Seq(FrameSet) /\ Len(frames') = Len(frames) + 1
      /\ Cardinality(CodeOf(frames')) =
           Cardinality(CodeOf(frames)) + IF making.kind = Code THEN 1 ELSE 0
  BY <1>1, <1>2, AppendCode
<1>4. Shapes'
  BY <1>1, <1>3, NoFrameMaking, StoredHand DEF PushFrame, IInv, Shapes
<1>5. blocks' = Total'
  <2>1. /\ Own' = 3 /\ Own = 3 /\ Cardinality(making.got)' = 0
        /\ Cardinality(CodeOf(frames))' = Cardinality(CodeOf(frames'))
        /\ Len(frames)' = Len(frames')
    BY <1>1, NoFrameMaking, GotSizes DEF Own, CodeOf
  <2>2. Cardinality(making.got) = IF making.kind = Code THEN 3 ELSE 2
    BY <1>1, GotSizes DEF IInv, Stage
  <2> QED
    BY <1>1, <1>3, <2>1, <2>2, Balance, SizesNat DEF Total, IInv
<1> QED
  BY <1>1, <1>4, <1>5, DoneIInv

LEMMA PopIInv ==
  ASSUME IInv, FramePop \/ ReleaseFrame
  PROVE  IInv'
<1>1. /\ pc \in {"caller", "release"} /\ frames # <<>>
      /\ frames' = Front(frames) /\ blocks' = blocks - Blocks(Last(frames))
      /\ UNCHANGED <<making, hand, pc>> /\ frames \in Seq(FrameSet)
  BY DEF FramePop, ReleaseFrame, PopTop, IInv, Shapes
<1>2. /\ frames' \in Seq(FrameSet) /\ Len(frames') = Len(frames) - 1
      /\ Last(frames) \in FrameSet
      /\ Cardinality(CodeOf(frames')) =
           Cardinality(CodeOf(frames)) - IF Last(frames).kind = Code THEN 1 ELSE 0
  BY <1>1, FrontCode
<1>3. Blocks(Last(frames)) = IF Last(frames).kind = Code THEN 3 ELSE 2
  BY DEF Blocks
<1>4. Shapes' /\ Stage' /\ AtNext' /\ NextInArgs' /\ ArgsPlaced'
  <2>1. blocks' \in Int
    BY <1>1, <1>3 DEF IInv, Shapes
  <2>2. Shapes' /\ Stage'
    BY <1>1, <1>2, <2>1 DEF IInv, Shapes, Stage
  <2>3. AtNext' /\ NextInArgs'
    BY <1>1 DEF IInv, AtNext, NextInArgs, Extra, WideOf
  <2>4. ArgsPlaced'
    BY <1>1, ArgsKept DEF IInv
  <2> QED
    BY <2>2, <2>3, <2>4
<1>5. blocks' = Total'
  <2>1. /\ Own' = 3 /\ Own = 3
        /\ Cardinality(making.got)' = Cardinality(making.got)
        /\ Cardinality(CodeOf(frames))' = Cardinality(CodeOf(frames'))
        /\ Len(frames)' = Len(frames')
    BY <1>1 DEF Own, CodeOf
  <2> QED
    BY <1>1, <1>2, <1>3, <2>1, Balance, SizesNat DEF Total, IInv
<1> QED
  BY <1>4, <1>5, Balance DEF IInv

\* What replacing three fields of a record of the making's shape gives.
LEMMA MakingExcept ==
  ASSUME NEW K, NEW L, NEW O, NEW C, NEW A, NEW N, NEW G,
         NEW m \in [kind : K, locals : L, ops : O, cap : C, args : A, next : N,
                   at : N, got : G],
         NEW l \in L, NEW x \in N, NEW y \in N
  PROVE  LET n == [m EXCEPT !.locals = l, !.next = x, !.at = y] IN
         /\ n \in [kind : K, locals : L, ops : O, cap : C, args : A, next : N,
                  at : N, got : G]
         /\ n.kind = m.kind /\ n.got = m.got /\ n.args = m.args
         /\ n.next = x /\ n.at = y /\ n.locals = l
  OBVIOUS

LEMMA SetArgIInv ==
  ASSUME IInv, SetArg
  PROVE  IInv'
<1> DEFINE m == making
           o == m.args[m.next]
           w == IF m.kind = Code THEN Width(o) ELSE 1
<1>1. /\ pc = "args" /\ m \in MakingSet /\ m.kind \in {Code, Native}
      /\ m.next \in Nat \ {0} /\ m.at \in Nat \ {0}
      /\ m.next <= Len(m.args) /\ m.at <= Len(m.locals)
      /\ making' = [m EXCEPT !.locals[m.at] = o, !.next = @ + 1, !.at = @ + w]
      /\ UNCHANGED <<frames, blocks, hand, pc>>
  BY DEF SetArg, IInv, Shapes, Stage, MakingSet
<1>2. /\ o \in Ref /\ w \in {1, 2} /\ Len(m.args) \in Nat
      /\ m.args \in Seq(Ref) /\ m.locals \in Seq(Ref \cup {Unset})
  BY <1>1, ElementOfSeq, LenProperties DEF MakingSet, Width
<1>3. /\ [m.locals EXCEPT ![m.at] = o] \in Seq(Ref \cup {Unset})
      /\ DOMAIN m.locals = 1 .. Len(m.locals)
  BY <1>1, <1>2, ExceptSeq, LenProperties
<1> HIDE DEF o, w
<1>4. /\ making' \in MakingSet /\ making'.kind = m.kind /\ making'.got = m.got
      /\ making'.args = m.args /\ making'.next = m.next + 1
      /\ making'.at = m.at + w
      /\ making'.locals = [m.locals EXCEPT ![m.at] = o]
  <2> DEFINE ls == [m.locals EXCEPT ![m.at] = o]
  <2>1. making' = [m EXCEPT !.locals = ls, !.next = m.next + 1, !.at = m.at + w]
    BY <1>1
  <2>2. m.next + 1 \in Nat \ {0} /\ m.at + w \in Nat \ {0}
    BY <1>1, <1>2
  <2>3. ls \in Seq(Ref \cup {Unset})
    BY <1>3
  <2> HIDE DEF ls, m
  <2>4. m \in MakingSet
    BY <1>1
  <2> QED
    BY <2>1, <2>2, <2>3, <2>4, MakingExcept DEF MakingSet, ls
<1>5. Shapes' /\ Stage' /\ NextInArgs'
  BY <1>1, <1>2, <1>4 DEF IInv, Shapes, Stage, NextInArgs
<1>6. BlocksBalance'
  <2>1. Total' = Total
    BY <1>1, <1>4 DEF Total, Own, CodeOf
  <2> QED
    BY <1>1, <2>1, Balance DEF IInv
<1>7. /\ Extra(m, m.next) \in Nat
      /\ \A k \in 1 .. m.next : /\ Extra(m, k) \in Nat
                                /\ Extra(m, k) <= Extra(m, m.next)
      /\ Extra(m, m.next + 1) = Extra(m, m.next) + w - 1
  <2>1. \A k \in 1 .. m.next : Cardinality(WideOf(m.args, k)) \in Nat
    BY <1>1, WideSteps
  <2> QED
    BY <1>1, <2>1, WideSteps DEF Extra, w, o, Width
<1>8. AtNext'
  <2>1. Extra(making, making.next)' = Extra(m, m.next + 1)
    BY <1>4 DEF Extra
  <2> QED
    BY <1>1, <1>2, <1>4, <1>7, <2>1 DEF AtNext, IInv
<1>9. ArgsPlaced'
  <2> DEFINE Index(n) == n + Extra(m, n)
  <2>1. \A n \in 1 .. m.next - 1 : /\ Index(n) \in DOMAIN m.locals
                                   /\ m.locals[Index(n)] = m.args[n]
    BY PlacedIs DEF IInv, Placed
  <2>2. \A l \in DOMAIN m.locals \ {Index(n) : n \in 1 .. m.next - 1} :
          m.locals[l] = Unset
    BY PlacedIs DEF IInv, Placed
  <2>3. m.at = Index(m.next) /\ m.at \in DOMAIN m.locals
    BY <1>1, <1>3 DEF IInv, AtNext
  <2>4. \A n \in 1 .. m.next - 1 : Index(n) < m.at
    BY <1>1, <1>7, <2>3
  <2>5. 1 .. m.next = (1 .. m.next - 1) \cup {m.next}
    BY <1>1
  <2> DEFINE ls == making'.locals
  <2>6. /\ DOMAIN ls = DOMAIN m.locals /\ ls[m.at] = o
        /\ \A l \in DOMAIN m.locals \ {m.at} : ls[l] = m.locals[l]
    BY <1>4, <2>3
  <2> HIDE DEF Index, ls
  <2>7. \A n \in 1 .. m.next : Index(n) \in DOMAIN ls /\ ls[Index(n)] = m.args[n]
    <3> SUFFICES ASSUME NEW n \in 1 .. m.next
                 PROVE  Index(n) \in DOMAIN ls /\ ls[Index(n)] = m.args[n]
      OBVIOUS
    <3>1. CASE n = m.next
      BY <2>3, <2>6, <3>1 DEF o
    <3>2. CASE n \in 1 .. m.next - 1
      <4>1. Index(n) # m.at
        BY <1>1, <1>7, <2>4, <3>2 DEF Index
      <4> QED
        BY <2>1, <2>6, <3>2, <4>1
    <3> QED
      BY <2>5, <3>1, <3>2
  <2>8. \A l \in DOMAIN ls \ {Index(n) : n \in 1 .. m.next} : ls[l] = Unset
    BY <2>2, <2>3, <2>5, <2>6
  <2>9. /\ making'.next - 1 = m.next /\ making'.args = m.args
        /\ \A n : Extra(making', n) = Extra(m, n)
    BY <1>1, <1>4 DEF Extra
  <2>10. Placed(making')
    BY <2>7, <2>8, <2>9 DEF Placed, Index, ls
  <2> QED
    BY <2>10, PlacedIs
<1> QED
  BY <1>5, <1>6, <1>8, <1>9 DEF IInv

LEMMA NextIInv == IInv /\ [Next]_vars => IInv'
<1> SUFFICES ASSUME IInv, [Next]_vars PROVE IInv'
  OBVIOUS
<1>1. CASE UNCHANGED vars
  BY <1>1, FramesIInv DEF vars, IInv, Shapes
<1> QED
  BY <1>1, CallsIInv, OperandsIInv, CreateIInv, AllocIInv, ErrIInv, PushIInv,
     PopIInv, SetArgIInv DEF Next

LEMMA AlwaysIInv == Spec => []IInv
BY InitIInv, NextIInv, PTL DEF Spec

-----------------------------------------------------------------------------
\* Every block that a stack or a frame gets goes back to the memory manager,
\* wherever their construction fails.
THEOREM StackBlocksBalance == Spec => []BlocksBalance
<1>1. IInv => BlocksBalance
  BY DEF IInv
<1> QED
  BY <1>1, AlwaysIInv, PTL

\* Each argument is at the index that the bytecode expects, whichever of the
\* others are wide.
THEOREM StackArgsPlaced == Spec => []ArgsPlaced
<1>1. IInv => ArgsPlaced
  BY DEF IInv
<1> QED
  BY <1>1, AlwaysIInv, PTL
-----------------------------------------------------------------------------
(* The counts of the objects *)

\* The indices of o in a sequence, and its places in a sequence of sequences.
Idx(s, o) == {k \in DOMAIN s : s[k] = o}
Places(G, o) == UNION {{i} \X Idx(G[i], o) : i \in DOMAIN G}

LocalsOf(F) == [i \in DOMAIN F |-> F[i].locals]
OpsOf(F) == [i \in DOMAIN F |-> F[i].ops]

\* How often one frame, and a sequence of frames, refers to o.
Of(f, o) == Cardinality(Idx(f.locals, o)) + Cardinality(Idx(f.ops, o))
In(F, o) ==
  Cardinality(Places(LocalsOf(F), o)) + Cardinality(Places(OpsOf(F), o))

Heaps == [live : SUBSET Objs, cnt : [Objs -> Nat]]

\* The references to an object are counted, each once.
Counts ==
  \A o \in Objs : heap.cnt[o] = In(frames, o) + Of(making, o) + held[o] + lost[o]

\* What is allocated is referred to, or was just made.
Live == \A o \in Objs : o \in heap.live <=> heap.cnt[o] > 0 \/ o = hand

\* What was just made is stored nowhere, unless in the frame that is made.
HandNew == hand \in Objs /\ heap.cnt[hand] > 0 => Idx(making.locals, hand) # {}

\* The arguments that are still to be stored are not freed.
ArgsLive == \A k \in DOMAIN making.args : making.args[k] \in heap.live \cup Uncounted

RInv ==
  /\ heap \in Heaps /\ held \in [Objs -> 0 .. MaxHeld] /\ lost \in [Objs -> Nat]
  /\ Counts /\ Live /\ HandNew /\ ArgsLive

\* There is room for the frame that is made, and for the operands.
Fits ==
  /\ Len(frames) <= FrameCap
  /\ pc \in {"locals", "ops", "args"} => Len(frames) < FrameCap
  /\ \A i \in DOMAIN frames : Len(frames[i].ops) <= frames[i].cap
  /\ pc \in {"caller", "locals", "ops", "args", "err", "release",
            "unmade", "mgr", "frames", "gone"}

LEMMA FrontProps ==
  ASSUME NEW S, NEW s \in Seq(S), s # <<>>
  PROVE  /\ Front(s) \in Seq(S) /\ Len(s) \in Nat \ {0}
         /\ Len(Front(s)) = Len(s) - 1
         /\ DOMAIN s = 1 .. Len(s) /\ DOMAIN Front(s) = 1 .. Len(s) - 1
         /\ \A k \in 1 .. Len(s) - 1 : Front(s)[k] = s[k]
         /\ Last(s) = s[Len(s)] /\ Last(s) \in S
<1>1. Len(s) \in Nat \ {0} /\ DOMAIN s = 1 .. Len(s)
  BY EmptySeq, LenProperties
<1>2. Last(s) = s[Len(s)] /\ Last(s) \in S
  BY <1>1, ElementOfSeq DEF Last
<1> QED
  BY <1>1, <1>2 DEF Front

LEMMA IdxFinite ==
  ASSUME NEW S, NEW s \in Seq(S), NEW o
  PROVE  /\ IsFiniteSet(Idx(s, o)) /\ Cardinality(Idx(s, o)) \in Nat
         /\ Cardinality(Idx(s, o)) = 0 <=> Idx(s, o) = {}
<1>1. Len(s) \in Nat /\ DOMAIN s = 1 .. Len(s)
  BY LenProperties
<1>2. IsFiniteSet(1 .. Len(s)) /\ Idx(s, o) \in SUBSET (1 .. Len(s))
  BY <1>1, FS_Interval DEF Idx
<1>3. IsFiniteSet(Idx(s, o))
  BY <1>2, FS_Subset
<1> QED
  BY <1>3, FS_CardinalityType, FS_EmptySet

\* One value more, at the end.
LEMMA IdxAppend ==
  ASSUME NEW S, NEW s \in Seq(S), NEW v \in S, NEW o
  PROVE  Cardinality(Idx(Append(s, v), o)) =
           Cardinality(Idx(s, o)) + IF v = o THEN 1 ELSE 0
<1> DEFINE t == Append(s, v)
<1>1. /\ Len(s) \in Nat /\ DOMAIN s = 1 .. Len(s)
      /\ DOMAIN t = 1 .. Len(s) + 1 /\ t[Len(s) + 1] = v
      /\ \A k \in 1 .. Len(s) : t[k] = s[k]
  BY AppendProperties, LenProperties
<1> HIDE DEF t
<1>2. Len(s) + 1 \notin Idx(s, o)
  BY <1>1 DEF Idx
<1>3. Idx(t, o) = IF v = o THEN Idx(s, o) \cup {Len(s) + 1} ELSE Idx(s, o)
  BY <1>1 DEF Idx
<1>4. IsFiniteSet(Idx(s, o)) /\ Cardinality(Idx(s, o)) \in Nat
  BY IdxFinite
<1>5. CASE v = o
  BY <1>2, <1>3, <1>4, <1>5, FS_AddElement DEF t
<1>6. CASE v # o
  BY <1>3, <1>4, <1>6 DEF t
<1> QED
  BY <1>5, <1>6

\* One value fewer.
LEMMA IdxFront ==
  ASSUME NEW S, NEW s \in Seq(S), s # <<>>, NEW o
  PROVE  Cardinality(Idx(s, o)) =
           Cardinality(Idx(Front(s), o)) + IF Last(s) = o THEN 1 ELSE 0
<1>1. /\ Front(s) \in Seq(S) /\ Len(s) \in Nat \ {0}
      /\ DOMAIN s = 1 .. Len(s) /\ DOMAIN Front(s) = 1 .. Len(s) - 1
      /\ \A k \in 1 .. Len(s) - 1 : Front(s)[k] = s[k]
      /\ Last(s) = s[Len(s)]
  BY FrontProps
<1>2. Len(s) \notin Idx(Front(s), o)
  BY <1>1 DEF Idx
<1>3. Idx(s, o) = IF Last(s) = o THEN Idx(Front(s), o) \cup {Len(s)}
                  ELSE Idx(Front(s), o)
  BY <1>1 DEF Idx
<1>4. IsFiniteSet(Idx(Front(s), o)) /\ Cardinality(Idx(Front(s), o)) \in Nat
  BY <1>1, IdxFinite
<1>5. CASE Last(s) = o
  BY <1>2, <1>3, <1>4, <1>5, FS_AddElement
<1>6. CASE Last(s) # o
  BY <1>3, <1>4, <1>6
<1> QED
  BY <1>5, <1>6

\* One value in the place of another.
LEMMA IdxExcept ==
  ASSUME NEW S, NEW s \in Seq(S), NEW k \in DOMAIN s, NEW v \in S, NEW o
  PROVE  Cardinality(Idx([s EXCEPT ![k] = v], o)) + (IF s[k] = o THEN 1 ELSE 0) =
           Cardinality(Idx(s, o)) + IF v = o THEN 1 ELSE 0
<1> DEFINE t == [s EXCEPT ![k] = v]
           R == Idx(s, o) \ {k}
<1>1. IsFiniteSet(R) /\ k \notin R /\ Cardinality(R) \in Nat
  <2>1. IsFiniteSet(Idx(s, o)) /\ R \in SUBSET Idx(s, o)
    BY IdxFinite
  <2> QED
    BY <2>1, FS_Subset, FS_CardinalityType
<1>2. /\ Idx(s, o) = IF s[k] = o THEN R \cup {k} ELSE R
      /\ Idx(t, o) = IF v = o THEN R \cup {k} ELSE R
  BY DEF Idx
<1>3. Cardinality(R \cup {k}) = Cardinality(R) + 1
  BY <1>1, FS_AddElement
<1> HIDE DEF t, R
<1>4. Cardinality(Idx(s, o)) = Cardinality(R) + IF s[k] = o THEN 1 ELSE 0
  BY <1>1, <1>2, <1>3
<1>5. Cardinality(Idx(t, o)) = Cardinality(R) + IF v = o THEN 1 ELSE 0
  BY <1>1, <1>2, <1>3
<1> QED
  BY <1>1, <1>4, <1>5 DEF t

\* The values of two sequences, one after the other.
LEMMA IdxConcat ==
  ASSUME NEW S, NEW s \in Seq(S), NEW t \in Seq(S), NEW o
  PROVE  Cardinality(Idx(s \o t, o)) =
           Cardinality(Idx(s, o)) + Cardinality(Idx(t, o))
<1> DEFINE n == Len(s)
           f == [k \in Idx(t, o) |-> n + k]
           T == {n + k : k \in Idx(t, o)}
<1>1. /\ n \in Nat /\ Len(t) \in Nat /\ DOMAIN s = 1 .. n
      /\ DOMAIN t = 1 .. Len(t)
      /\ DOMAIN (s \o t) = 1 .. n + Len(t)
      /\ \A k \in 1 .. n + Len(t) : (s \o t)[k] = IF k <= n THEN s[k] ELSE t[k - n]
  BY ConcatProperties, LenProperties
<1>2. Idx(t, o) \subseteq 1 .. Len(t) /\ Idx(s, o) \subseteq 1 .. n
  BY <1>1 DEF Idx
<1>3. IsFiniteSet(Idx(t, o)) /\ IsFiniteSet(Idx(s, o))
  BY IdxFinite
<1>4. IsFiniteSet(T) /\ Cardinality(T) = Cardinality(Idx(t, o))
  <2>1. f \in Bijection(Idx(t, o), T)
    <3>1. f \in [Idx(t, o) -> T]
      OBVIOUS
    <3>2. \A a, b \in Idx(t, o) : f[a] = f[b] => a = b
      BY <1>1, <1>2
    <3>3. \A x \in T : \E a \in Idx(t, o) : f[a] = x
      OBVIOUS
    <3> HIDE DEF f, T
    <3> QED
      BY <3>1, <3>2, <3>3 DEF Bijection, Injection, Surjection, IsInjective
  <2>2. ExistsBijection(Idx(t, o), T)
    BY <2>1 DEF ExistsBijection
  <2> QED
    BY <1>3, <2>2, FS_Bijection
<1>5. Idx(s \o t, o) = Idx(s, o) \cup T
  <2>1. ASSUME NEW k \in Idx(s \o t, o) PROVE k \in Idx(s, o) \cup T
    <3>0. k \in 1 .. n + Len(t) /\ (s \o t)[k] = o
      BY <1>1 DEF Idx
    <3>1. CASE k <= n
      BY <1>1, <3>0, <3>1 DEF Idx
    <3>2. CASE k > n
      <4>1. k - n \in 1 .. Len(t) /\ t[k - n] = o /\ k = n + (k - n)
        BY <1>1, <3>0, <3>2
      <4> QED
        BY <1>1, <4>1 DEF Idx
    <3> QED
      BY <1>1, <3>0, <3>1, <3>2
  <2>2. ASSUME NEW k \in Idx(s, o) PROVE k \in Idx(s \o t, o)
    BY <1>1, <1>2 DEF Idx
  <2>3. ASSUME NEW k \in Idx(t, o) PROVE n + k \in Idx(s \o t, o)
    <3>1. k \in 1 .. Len(t) /\ t[k] = o
      BY <1>1 DEF Idx
    <3>2. n + k \in 1 .. n + Len(t) /\ (n + k) - n = k /\ ~(n + k <= n)
      BY <1>1, <3>1
    <3>3. (s \o t)[n + k] = o
      BY <1>1, <3>1, <3>2
    <3> QED
      BY <1>1, <3>2, <3>3 DEF Idx
  <2> QED
    BY <2>1, <2>2, <2>3
<1>6. Idx(s, o) \cap T = {}
  BY <1>1, <1>2
<1>7. Cardinality(Idx(s, o) \cup T) =
        Cardinality(Idx(s, o)) + Cardinality(T) - Cardinality(Idx(s, o) \cap T)
  BY <1>3, <1>4, FS_Union
<1>8. Cardinality(Idx(s, o)) \in Nat /\ Cardinality(T) \in Nat
  BY <1>3, <1>4, FS_CardinalityType
<1> HIDE DEF T
<1>9. Cardinality(Idx(s, o) \cap T) = 0
  BY <1>6, FS_EmptySet
<1> QED
  BY <1>4, <1>5, <1>7, <1>8, <1>9

\* References of one more frame count on top of those of the others.
LEMMA PlacesLonger ==
  ASSUME NEW n \in Nat, NEW G, NEW H, NEW o,
         DOMAIN G = 1 .. n, DOMAIN H = 1 .. n + 1,
         \A i \in 1 .. n : H[i] = G[i],
         IsFiniteSet(Places(G, o)), IsFiniteSet(Idx(H[n + 1], o))
  PROVE  /\ IsFiniteSet(Places(H, o))
         /\ Cardinality(Places(H, o)) =
              Cardinality(Places(G, o)) + Cardinality(Idx(H[n + 1], o))
<1> DEFINE X == {n + 1} \X Idx(H[n + 1], o)
<1>1. /\ IsFiniteSet(X) /\ Cardinality(X) = Cardinality(Idx(H[n + 1], o))
      /\ Cardinality(X) \in Nat
  <2>1. /\ IsFiniteSet(Idx(H[n + 1], o))
        /\ Cardinality(Idx(H[n + 1], o)) \in Nat
    BY FS_CardinalityType
  <2>2. IsFiniteSet({n + 1}) /\ Cardinality({n + 1}) = 1
    BY FS_Singleton
  <2> QED
    BY <2>1, <2>2, FS_Product
<1>2. Places(H, o) = Places(G, o) \cup X
  <2>1. 1 .. n + 1 = (1 .. n) \cup {n + 1}
    OBVIOUS
  <2> QED
    BY <2>1 DEF Places
<1>3. Places(G, o) \cap X = {}
  BY DEF Places
<1>4. Cardinality(Places(G, o)) \in Nat
  BY FS_CardinalityType
<1> HIDE DEF X
<1>5. Cardinality(Places(G, o) \cap X) = 0
  BY <1>3, FS_EmptySet
<1>6. /\ IsFiniteSet(Places(G, o) \cup X)
      /\ Cardinality(Places(G, o) \cup X) =
           Cardinality(Places(G, o)) + Cardinality(X)
             - Cardinality(Places(G, o) \cap X)
  BY <1>1, FS_Union
<1> QED
  BY <1>1, <1>2, <1>4, <1>5, <1>6

\* There are only so many places in a sequence of sequences.
LEMMA PlacesFinite ==
  ASSUME NEW S, NEW G \in Seq(Seq(S)), NEW o
  PROVE  /\ IsFiniteSet(Places(G, o)) /\ Cardinality(Places(G, o)) \in Nat
         /\ Cardinality(Places(G, o)) = 0 <=> Places(G, o) = {}
<1>1. DOMAIN G = 1 .. Len(G) /\ Len(G) \in Nat
  BY LenProperties
<1> DEFINE Sets == {{i} \X Idx(G[i], o) : i \in 1 .. Len(G)}
<1>2. IsFiniteSet(1 .. Len(G))
  BY <1>1, FS_Interval
<1>3. IsFiniteSet(Sets)
  <2> DEFINE f == [i \in 1 .. Len(G) |-> {i} \X Idx(G[i], o)]
  <2>1. f \in Surjection(1 .. Len(G), Sets)
    <3>1. f \in [1 .. Len(G) -> Sets]
      OBVIOUS
    <3>2. \A x \in Sets : \E i \in 1 .. Len(G) : f[i] = x
      OBVIOUS
    <3> HIDE DEF f, Sets
    <3> QED
      BY <3>1, <3>2 DEF Surjection
  <2> QED
    BY <1>2, <2>1, FS_Surjection
<1>4. \A X \in Sets : IsFiniteSet(X)
  <2> SUFFICES ASSUME NEW i \in 1 .. Len(G)
               PROVE  IsFiniteSet({i} \X Idx(G[i], o))
    OBVIOUS
  <2>1. G[i] \in Seq(S)
    BY <1>1, ElementOfSeq
  <2>2. IsFiniteSet({i}) /\ IsFiniteSet(Idx(G[i], o))
    BY <2>1, IdxFinite, FS_Singleton
  <2> QED
    BY <2>2, FS_Product
<1>5. IsFiniteSet(UNION Sets)
  BY <1>3, <1>4, FS_UNION
<1>6. Places(G, o) = UNION Sets
  BY <1>1 DEF Places
<1> HIDE DEF Sets
<1> QED
  BY <1>5, <1>6, FS_CardinalityType, FS_EmptySet

\* One of the sequences is replaced.
LEMMA PlacesExcept ==
  ASSUME NEW G, NEW H, NEW i \in DOMAIN G, NEW o,
         DOMAIN H = DOMAIN G, \A j \in DOMAIN G \ {i} : H[j] = G[j],
         IsFiniteSet(Places(G, o)),
         IsFiniteSet(Idx(G[i], o)), IsFiniteSet(Idx(H[i], o))
  PROVE  Cardinality(Places(H, o)) + Cardinality(Idx(G[i], o)) =
           Cardinality(Places(G, o)) + Cardinality(Idx(H[i], o))
<1> DEFINE R == UNION {{j} \X Idx(G[j], o) : j \in DOMAIN G \ {i}}
           X(s) == {i} \X Idx(s, o)
<1>1. Places(G, o) = R \cup X(G[i])
  BY DEF Places
<1>2. Places(H, o) = R \cup X(H[i])
  <2>1. Places(H, o) =
          (UNION {{j} \X Idx(H[j], o) : j \in DOMAIN G \ {i}}) \cup X(H[i])
    BY DEF Places
  <2>2. R = UNION {{j} \X Idx(H[j], o) : j \in DOMAIN G \ {i}}
    OBVIOUS
  <2> QED
    BY <2>1, <2>2
<1>3. \A s : R \cap X(s) = {}
  OBVIOUS
<1> HIDE DEF R
<1>4. IsFiniteSet(R) /\ Cardinality(R) \in Nat
  <2>1. R \in SUBSET Places(G, o)
    BY <1>1
  <2> QED
    BY <2>1, FS_Subset, FS_CardinalityType
<1>5. ASSUME NEW s, IsFiniteSet(Idx(s, o))
      PROVE  Cardinality(R \cup X(s)) = Cardinality(R) + Cardinality(Idx(s, o))
  <2>1. Cardinality(Idx(s, o)) \in Nat
    BY <1>5, FS_CardinalityType
  <2>2. IsFiniteSet({i}) /\ Cardinality({i}) = 1
    BY FS_Singleton
  <2>3. IsFiniteSet(X(s)) /\ Cardinality(X(s)) = Cardinality(Idx(s, o))
    <3>1. /\ IsFiniteSet({i} \X Idx(s, o))
          /\ Cardinality({i} \X Idx(s, o)) = 1 * Cardinality(Idx(s, o))
      BY <1>5, <2>2, FS_Product
    <3> QED
      BY <2>1, <3>1
  <2>4. R \cap X(s) = {}
    BY <1>3
  <2> HIDE DEF X
  <2>5. Cardinality(R \cap X(s)) = 0
    BY <2>4, FS_EmptySet
  <2>6. Cardinality(R \cup X(s)) =
          Cardinality(R) + Cardinality(X(s)) - Cardinality(R \cap X(s))
    BY <1>4, <2>3, FS_Union
  <2> QED
    BY <1>4, <2>1, <2>3, <2>5, <2>6
<1>6. /\ Cardinality(Places(G, o)) = Cardinality(R) + Cardinality(Idx(G[i], o))
      /\ Cardinality(Places(H, o)) = Cardinality(R) + Cardinality(Idx(H[i], o))
  BY <1>1, <1>2, <1>5
<1>7. /\ Cardinality(Idx(G[i], o)) \in Nat /\ Cardinality(Idx(H[i], o)) \in Nat
  BY FS_CardinalityType
<1> QED
  BY <1>4, <1>6, <1>7

\* There is a place in one of the sequences.
LEMMA PlacesSome ==
  ASSUME NEW G, NEW o
  PROVE  Places(G, o) # {} <=> \E i \in DOMAIN G : Idx(G[i], o) # {}
<1>1. ASSUME NEW i \in DOMAIN G, NEW k \in Idx(G[i], o)
      PROVE  Places(G, o) # {}
  <2>1. <<i, k>> \in Places(G, o)
    BY DEF Places
  <2> QED
    BY <2>1
<1>2. ASSUME NEW p \in Places(G, o)
      PROVE  \E i \in DOMAIN G : Idx(G[i], o) # {}
  <2>1. PICK i \in DOMAIN G : p \in {i} \X Idx(G[i], o)
    BY DEF Places
  <2> QED
    BY <2>1
<1> QED
  BY <1>1, <1>2

-----------------------------------------------------------------------------
(* How often frames refer to an object *)

LEMMA FunctionSeq ==
  ASSUME NEW S, NEW n \in Nat, NEW g \in [1 .. n -> S]
  PROVE  g \in Seq(S)
BY SeqDef

\* What the lemmas about sequences of sequences need.
LEMMA Parts ==
  ASSUME NEW F \in Seq(FrameSet)
  PROVE  /\ LocalsOf(F) \in Seq(Seq(Ref \cup {Unset})) /\ OpsOf(F) \in Seq(Seq(Ref))
         /\ DOMAIN LocalsOf(F) = DOMAIN F /\ DOMAIN OpsOf(F) = DOMAIN F
         /\ DOMAIN F = 1 .. Len(F) /\ Len(F) \in Nat
         /\ \A i \in DOMAIN F : /\ F[i] \in FrameSet
                                /\ LocalsOf(F)[i] = F[i].locals
                                /\ OpsOf(F)[i] = F[i].ops
<1>1. DOMAIN F = 1 .. Len(F) /\ Len(F) \in Nat
  BY LenProperties
<1>2. \A i \in DOMAIN F : F[i] \in FrameSet
  BY <1>1, ElementOfSeq
<1>3. /\ LocalsOf(F) \in [1 .. Len(F) -> Seq(Ref \cup {Unset})]
      /\ OpsOf(F) \in [1 .. Len(F) -> Seq(Ref)]
  BY <1>1, <1>2 DEF LocalsOf, OpsOf, FrameSet
<1>4. /\ LocalsOf(F) \in Seq(Seq(Ref \cup {Unset}))
      /\ OpsOf(F) \in Seq(Seq(Ref))
  BY <1>1, <1>3, FunctionSeq
<1> QED
  BY <1>1, <1>2, <1>4 DEF LocalsOf, OpsOf

\* The references of one frame.
LEMMA OfNat ==
  ASSUME NEW f, f.locals \in Seq(Ref \cup {Unset}), f.ops \in Seq(Ref), NEW o
  PROVE  /\ Of(f, o) \in Nat
         /\ Of(f, o) > 0 <=> Idx(f.locals, o) # {} \/ Idx(f.ops, o) # {}
<1>1. /\ Cardinality(Idx(f.locals, o)) \in Nat
      /\ Cardinality(Idx(f.locals, o)) = 0 <=> Idx(f.locals, o) = {}
  BY IdxFinite
<1>2. /\ Cardinality(Idx(f.ops, o)) \in Nat
      /\ Cardinality(Idx(f.ops, o)) = 0 <=> Idx(f.ops, o) = {}
  BY IdxFinite
<1> QED
  BY <1>1, <1>2 DEF Of

\* The references of all frames.
LEMMA InNat ==
  ASSUME NEW F \in Seq(FrameSet), NEW o
  PROVE  /\ In(F, o) \in Nat
         /\ Cardinality(Places(LocalsOf(F), o)) \in Nat
         /\ Cardinality(Places(OpsOf(F), o)) \in Nat
<1>1. /\ Cardinality(Places(LocalsOf(F), o)) \in Nat
      /\ Cardinality(Places(OpsOf(F), o)) \in Nat
  BY Parts, PlacesFinite
<1> QED
  BY <1>1 DEF In

\* A frame that refers to o is one of the places that do.
LEMMA InSome ==
  ASSUME NEW F \in Seq(FrameSet), NEW o
  PROVE  In(F, o) > 0 <=> \E i \in DOMAIN F : InFrame(F[i], o)
<1>1. /\ Cardinality(Places(LocalsOf(F), o)) \in Nat
      /\ Cardinality(Places(OpsOf(F), o)) \in Nat
      /\ Cardinality(Places(LocalsOf(F), o)) = 0 <=> Places(LocalsOf(F), o) = {}
      /\ Cardinality(Places(OpsOf(F), o)) = 0 <=> Places(OpsOf(F), o) = {}
  BY Parts, PlacesFinite
<1>2. Places(LocalsOf(F), o) # {} <=> \E i \in DOMAIN F : Idx(F[i].locals, o) # {}
  <2>1. Places(LocalsOf(F), o) # {} <=>
          \E i \in DOMAIN LocalsOf(F) : Idx(LocalsOf(F)[i], o) # {}
    BY PlacesSome
  <2> QED
    BY <2>1, Parts
<1>3. Places(OpsOf(F), o) # {} <=> \E i \in DOMAIN F : Idx(F[i].ops, o) # {}
  <2>1. Places(OpsOf(F), o) # {} <=>
          \E i \in DOMAIN OpsOf(F) : Idx(OpsOf(F)[i], o) # {}
    BY PlacesSome
  <2> QED
    BY <2>1, Parts
<1>4. In(F, o) > 0 <=>
        Places(LocalsOf(F), o) # {} \/ Places(OpsOf(F), o) # {}
  BY <1>1 DEF In
<1> QED
  BY <1>2, <1>3, <1>4 DEF InFrame, Idx

LEMMA InAppend ==
  ASSUME NEW F \in Seq(FrameSet), NEW f \in FrameSet, NEW o
  PROVE  In(Append(F, f), o) = In(F, o) + Of(f, o)
<1> DEFINE H == Append(F, f)
<1>1. /\ H \in Seq(FrameSet) /\ DOMAIN H = 1 .. Len(F) + 1
      /\ H[Len(F) + 1] = f /\ \A i \in 1 .. Len(F) : H[i] = F[i]
      /\ DOMAIN F = 1 .. Len(F) /\ Len(F) \in Nat
  BY AppendProperties, LenProperties
<1> HIDE DEF H
<1>2. /\ DOMAIN LocalsOf(F) = 1 .. Len(F) /\ DOMAIN LocalsOf(H) = 1 .. Len(F) + 1
      /\ DOMAIN OpsOf(F) = 1 .. Len(F) /\ DOMAIN OpsOf(H) = 1 .. Len(F) + 1
      /\ \A i \in 1 .. Len(F) : /\ LocalsOf(H)[i] = LocalsOf(F)[i]
                                /\ OpsOf(H)[i] = OpsOf(F)[i]
      /\ LocalsOf(H)[Len(F) + 1] = f.locals /\ OpsOf(H)[Len(F) + 1] = f.ops
  BY <1>1 DEF LocalsOf, OpsOf
<1>3. /\ f.locals \in Seq(Ref \cup {Unset}) /\ f.ops \in Seq(Ref)
  BY DEF FrameSet
<1>4. IsFiniteSet(Places(LocalsOf(F), o)) /\ IsFiniteSet(Places(OpsOf(F), o))
  BY Parts, PlacesFinite
<1> DEFINE GL == LocalsOf(F)
           HL == LocalsOf(H)
           GO == OpsOf(F)
           HO == OpsOf(H)
<1> HIDE DEF GL, HL, GO, HO
<1>5. /\ Cardinality(Places(HL, o)) =
           Cardinality(Places(GL, o)) + Cardinality(Idx(f.locals, o))
      /\ Cardinality(Places(HO, o)) =
           Cardinality(Places(GO, o)) + Cardinality(Idx(f.ops, o))
  <2>1. /\ IsFiniteSet(Places(GL, o)) /\ IsFiniteSet(Places(GO, o))
        /\ DOMAIN GL = 1 .. Len(F) /\ DOMAIN HL = 1 .. Len(F) + 1
        /\ DOMAIN GO = 1 .. Len(F) /\ DOMAIN HO = 1 .. Len(F) + 1
        /\ \A i \in 1 .. Len(F) : HL[i] = GL[i] /\ HO[i] = GO[i]
        /\ HL[Len(F) + 1] = f.locals /\ HO[Len(F) + 1] = f.ops
    BY <1>2, <1>4 DEF GL, HL, GO, HO
  <2>2. /\ IsFiniteSet(Idx(HL[Len(F) + 1], o))
        /\ IsFiniteSet(Idx(HO[Len(F) + 1], o))
    BY <1>3, <2>1, IdxFinite
  <2>3. /\ Cardinality(Places(HL, o)) =
             Cardinality(Places(GL, o)) + Cardinality(Idx(HL[Len(F) + 1], o))
    BY <1>1, <2>1, <2>2, PlacesLonger
  <2>4. /\ Cardinality(Places(HO, o)) =
             Cardinality(Places(GO, o)) + Cardinality(Idx(HO[Len(F) + 1], o))
    BY <1>1, <2>1, <2>2, PlacesLonger
  <2> QED
    BY <2>1, <2>3, <2>4
<1>6. /\ Cardinality(Idx(f.locals, o)) \in Nat /\ Cardinality(Idx(f.ops, o)) \in Nat
  BY <1>3, IdxFinite
<1> QED
  BY <1>5, <1>6, InNat DEF In, Of, H, GL, HL, GO, HO

LEMMA InFront ==
  ASSUME NEW F \in Seq(FrameSet), F # <<>>, NEW o
  PROVE  In(F, o) = In(Front(F), o) + Of(Last(F), o)
<1>1. /\ Front(F) \in Seq(FrameSet) /\ Len(F) \in Nat \ {0}
      /\ Len(Front(F)) = Len(F) - 1
      /\ DOMAIN F = 1 .. Len(F) /\ DOMAIN Front(F) = 1 .. Len(F) - 1
      /\ \A i \in 1 .. Len(F) - 1 : Front(F)[i] = F[i]
      /\ Last(F) = F[Len(F)] /\ Last(F) \in FrameSet
  BY FrontProps
<1>2. F = Append(Front(F), Last(F))
  <2> DEFINE G == Front(F)
             f == Last(F)
  <2> HIDE DEF G, f
  <2>0. /\ G \in Seq(FrameSet) /\ f \in FrameSet /\ DOMAIN G = 1 .. Len(F) - 1
        /\ f = F[Len(F)] /\ \A i \in 1 .. Len(F) - 1 : G[i] = F[i]
    BY <1>1 DEF G, f
  <2>1. Len(G) = Len(F) - 1
    BY <1>1 DEF G
  <2>3. /\ Append(G, f) \in Seq(FrameSet) /\ Len(Append(G, f)) = Len(G) + 1
        /\ \A i \in 1 .. Len(G) : Append(G, f)[i] = G[i]
        /\ Append(G, f)[Len(G) + 1] = f
    BY <2>0, AppendProperties
  <2>2. /\ Append(Front(F), Last(F)) \in Seq(FrameSet)
        /\ Len(Append(Front(F), Last(F))) = Len(F)
        /\ \A i \in 1 .. Len(F) : Append(Front(F), Last(F))[i] = F[i]
    BY <1>1, <2>0, <2>1, <2>3 DEF G, f
  <2> QED
    BY <1>1, <2>2, SeqEqual
<1>3. In(Append(Front(F), Last(F)), o) = In(Front(F), o) + Of(Last(F), o)
  BY <1>1, InAppend
<1> DEFINE H == Append(Front(F), Last(F))
<1>4. F = H /\ In(H, o) = In(Front(F), o) + Of(Last(F), o)
  BY <1>2, <1>3
<1> HIDE DEF H
<1>5. In(F, o) = In(H, o)
  BY <1>4
<1> QED
  BY <1>4, <1>5

LEMMA InExcept ==
  ASSUME NEW F \in Seq(FrameSet), NEW i \in DOMAIN F, NEW f \in FrameSet, NEW o
  PROVE  In([F EXCEPT ![i] = f], o) + Of(F[i], o) = In(F, o) + Of(f, o)
<1> DEFINE H == [F EXCEPT ![i] = f]
<1>1. LocalsOf(H) = [LocalsOf(F) EXCEPT ![i] = f.locals]
  BY DEF LocalsOf
<1>2. OpsOf(H) = [OpsOf(F) EXCEPT ![i] = f.ops]
  BY DEF OpsOf
<1>3. /\ f.locals \in Seq(Ref \cup {Unset}) /\ f.ops \in Seq(Ref)
      /\ F[i].locals \in Seq(Ref \cup {Unset}) /\ F[i].ops \in Seq(Ref)
  BY Parts DEF FrameSet
<1>4. H \in Seq(FrameSet)
  BY ExceptSeq, LenProperties
<1> HIDE DEF H
<1>5. Cardinality(Places(LocalsOf(H), o)) + Cardinality(Idx(F[i].locals, o)) =
        Cardinality(Places(LocalsOf(F), o)) + Cardinality(Idx(f.locals, o))
  <2> DEFINE G == LocalsOf(F)
  <2> HIDE DEF G
  <2>1. /\ G \in Seq(Seq(Ref \cup {Unset})) /\ i \in DOMAIN G
        /\ G[i] = F[i].locals
    BY Parts DEF G
  <2> DEFINE K == LocalsOf(H)
  <2>2. /\ DOMAIN K = DOMAIN G /\ K[i] = f.locals
        /\ \A j \in DOMAIN G \ {i} : K[j] = G[j]
    BY <1>1, <2>1 DEF G
  <2> HIDE DEF K
  <2>3. /\ IsFiniteSet(Places(G, o)) /\ IsFiniteSet(Idx(K[i], o))
        /\ IsFiniteSet(Idx(G[i], o)) /\ i \in DOMAIN G
    BY <1>3, <2>1, <2>2, PlacesFinite, IdxFinite
  <2>4. Cardinality(Places(K, o)) + Cardinality(Idx(G[i], o)) =
          Cardinality(Places(G, o)) + Cardinality(Idx(K[i], o))
    BY <2>2, <2>3, PlacesExcept
  <2> QED
    BY <2>1, <2>2, <2>4 DEF G, K
<1>6. Cardinality(Places(OpsOf(H), o)) + Cardinality(Idx(F[i].ops, o)) =
        Cardinality(Places(OpsOf(F), o)) + Cardinality(Idx(f.ops, o))
  <2> DEFINE G == OpsOf(F)
  <2> HIDE DEF G
  <2>1. G \in Seq(Seq(Ref)) /\ i \in DOMAIN G /\ G[i] = F[i].ops
    BY Parts DEF G
  <2> DEFINE K == OpsOf(H)
  <2>2. /\ DOMAIN K = DOMAIN G /\ K[i] = f.ops
        /\ \A j \in DOMAIN G \ {i} : K[j] = G[j]
    BY <1>2, <2>1 DEF G
  <2> HIDE DEF K
  <2>3. /\ IsFiniteSet(Places(G, o)) /\ IsFiniteSet(Idx(K[i], o))
        /\ IsFiniteSet(Idx(G[i], o)) /\ i \in DOMAIN G
    BY <1>3, <2>1, <2>2, PlacesFinite, IdxFinite
  <2>4. Cardinality(Places(K, o)) + Cardinality(Idx(G[i], o)) =
          Cardinality(Places(G, o)) + Cardinality(Idx(K[i], o))
    BY <2>2, <2>3, PlacesExcept
  <2> QED
    BY <2>1, <2>2, <2>4 DEF G, K
<1>7. /\ Cardinality(Idx(f.locals, o)) \in Nat /\ Cardinality(Idx(f.ops, o)) \in Nat
      /\ Cardinality(Idx(F[i].locals, o)) \in Nat
      /\ Cardinality(Idx(F[i].ops, o)) \in Nat
  BY <1>3, IdxFinite
<1>8. /\ Cardinality(Places(LocalsOf(H), o)) \in Nat
      /\ Cardinality(Places(OpsOf(H), o)) \in Nat
      /\ Cardinality(Places(LocalsOf(F), o)) \in Nat
      /\ Cardinality(Places(OpsOf(F), o)) \in Nat
  BY <1>4, InNat
<1>9. In(H, o) + Of(F[i], o) = In(F, o) + Of(f, o)
  <2> DEFINE hl == Cardinality(Places(LocalsOf(H), o))
             ho == Cardinality(Places(OpsOf(H), o))
             gl == Cardinality(Places(LocalsOf(F), o))
             go == Cardinality(Places(OpsOf(F), o))
             fl == Cardinality(Idx(F[i].locals, o))
             fo == Cardinality(Idx(F[i].ops, o))
             nl == Cardinality(Idx(f.locals, o))
             no == Cardinality(Idx(f.ops, o))
  <2>1. /\ In(H, o) = hl + ho /\ In(F, o) = gl + go
        /\ Of(F[i], o) = fl + fo /\ Of(f, o) = nl + no
    BY DEF In, Of
  <2> HIDE DEF hl, ho, gl, go, fl, fo, nl, no
  <2>2. hl + fl = gl + nl /\ ho + fo = go + no
    BY <1>5, <1>6 DEF hl, ho, gl, go, fl, fo, nl, no
  <2>3. /\ hl \in Nat /\ ho \in Nat /\ gl \in Nat /\ go \in Nat
        /\ fl \in Nat /\ fo \in Nat /\ nl \in Nat /\ no \in Nat
    BY <1>7, <1>8 DEF hl, ho, gl, go, fl, fo, nl, no
  <2> QED
    BY <2>1, <2>2, <2>3
<1> QED
  BY <1>9 DEF H

\* The places of CountsExact are those in the frames and in the one that is
\* made.
LEMMA PlacesSplit ==
  ASSUME Shapes, NEW o
  PROVE  /\ Cardinality(Locals(o)) + Cardinality(Operands(o)) =
              In(frames, o) + Of(making, o)
         /\ In(frames, o) \in Nat /\ Of(making, o) \in Nat
         /\ Locals(o) # {} \/ Operands(o) # {} => In(frames, o) + Of(making, o) > 0
<1> DEFINE F == frames
           n == Len(F)
           H == Frames
<1>1. F \in Seq(FrameSet) /\ making \in MakingSet
  BY DEF Shapes
<1>2. /\ DOMAIN H = 1 .. n + 1 /\ H[n + 1] = making
      /\ \A i \in 1 .. n : H[i] = F[i]
      /\ DOMAIN F = 1 .. n /\ n \in Nat
  <2> DEFINE S == FrameSet \cup MakingSet
  <2>1. F \in Seq(S) /\ <<making>> \in Seq(S) /\ Len(<<making>>) = 1
    BY <1>1
  <2>2. /\ DOMAIN H = 1 .. n + 1 /\ n \in Nat /\ DOMAIN F = 1 .. n
        /\ \A i \in 1 .. n + 1 : H[i] = IF i <= n THEN F[i] ELSE <<making>>[i - n]
    BY <2>1, ConcatProperties, LenProperties DEF Frames
  <2> QED
    BY <2>2
<1> HIDE DEF F, n, H
<1>3. /\ making.locals \in Seq(Ref \cup {Unset}) /\ making.ops \in Seq(Ref)
  BY <1>1, EmptySeq DEF MakingSet
<1>4. IsFiniteSet(Places(LocalsOf(F), o)) /\ IsFiniteSet(Places(OpsOf(F), o))
  BY <1>1, Parts, PlacesFinite
<1> DEFINE GL == LocalsOf(F)
           HL == LocalsOf(H)
           GO == OpsOf(F)
           HO == OpsOf(H)
<1>5. /\ DOMAIN GL = 1 .. n /\ DOMAIN HL = 1 .. n + 1
      /\ DOMAIN GO = 1 .. n /\ DOMAIN HO = 1 .. n + 1
      /\ \A i \in 1 .. n : HL[i] = GL[i] /\ HO[i] = GO[i]
      /\ HL[n + 1] = making.locals /\ HO[n + 1] = making.ops
  BY <1>2 DEF LocalsOf, OpsOf
<1>6. Places(HL, o) = Locals(o) /\ Places(HO, o) = Operands(o)
  BY DEF Places, Idx, LocalsOf, OpsOf, Locals, Operands, H
<1> HIDE DEF GL, HL, GO, HO
<1>7. /\ IsFiniteSet(Places(GL, o)) /\ IsFiniteSet(Places(GO, o))
      /\ IsFiniteSet(Idx(HL[n + 1], o)) /\ IsFiniteSet(Idx(HO[n + 1], o))
  BY <1>3, <1>4, <1>5, IdxFinite DEF GL, GO
<1>8. /\ IsFiniteSet(Locals(o))
      /\ Cardinality(Locals(o)) =
           Cardinality(Places(GL, o)) + Cardinality(Idx(making.locals, o))
  BY <1>2, <1>5, <1>6, <1>7, PlacesLonger
<1>9. /\ IsFiniteSet(Operands(o))
      /\ Cardinality(Operands(o)) =
           Cardinality(Places(GO, o)) + Cardinality(Idx(making.ops, o))
  BY <1>2, <1>5, <1>6, <1>7, PlacesLonger
<1>10. /\ Cardinality(Places(GL, o)) \in Nat /\ Cardinality(Places(GO, o)) \in Nat
       /\ Cardinality(Idx(making.locals, o)) \in Nat
       /\ Cardinality(Idx(making.ops, o)) \in Nat
  BY <1>5, <1>7, FS_CardinalityType
<1>11. /\ In(frames, o) = Cardinality(Places(GL, o)) + Cardinality(Places(GO, o))
       /\ Of(making, o) = Cardinality(Idx(making.locals, o))
                         + Cardinality(Idx(making.ops, o))
  BY DEF In, Of, GL, GO, F
<1>12. /\ Locals(o) # {} => Cardinality(Locals(o)) # 0
       /\ Operands(o) # {} => Cardinality(Operands(o)) # 0
  BY <1>8, <1>9, FS_EmptySet
<1> DEFINE gl == Cardinality(Places(GL, o))
           go == Cardinality(Places(GO, o))
           ml == Cardinality(Idx(making.locals, o))
           mo == Cardinality(Idx(making.ops, o))
           cl == Cardinality(Locals(o))
           co == Cardinality(Operands(o))
           has == Locals(o) # {} \/ Operands(o) # {}
<1>13. /\ cl = gl + ml /\ co = go + mo
       /\ gl \in Nat /\ go \in Nat /\ ml \in Nat /\ mo \in Nat
       /\ In(frames, o) = gl + go /\ Of(making, o) = ml + mo
       /\ has => cl # 0 \/ co # 0
  BY <1>8, <1>9, <1>10, <1>11, <1>12
<1> HIDE DEF gl, go, ml, mo, cl, co, has
<1>14. /\ cl + co = In(frames, o) + Of(making, o)
       /\ In(frames, o) \in Nat /\ Of(making, o) \in Nat
       /\ has => In(frames, o) + Of(making, o) > 0
  BY <1>13
<1> QED
  BY <1>14 DEF cl, co, has

\* Pushes and pops of operands, and a local that is set.
LEMMA OfPush ==
  ASSUME NEW f \in FrameSet, NEW v \in Ref, NEW o
  PROVE  Of([f EXCEPT !.ops = Append(@, v)], o) = Of(f, o) + IF v = o THEN 1 ELSE 0
<1> DEFINE g == [f EXCEPT !.ops = Append(@, v)]
<1>1. /\ f.locals \in Seq(Ref \cup {Unset}) /\ f.ops \in Seq(Ref)
      /\ g.locals = f.locals /\ g.ops = Append(f.ops, v)
  BY DEF FrameSet
<1> HIDE DEF g
<1>2. Cardinality(Idx(g.ops, o)) =
        Cardinality(Idx(f.ops, o)) + IF v = o THEN 1 ELSE 0
  BY <1>1, IdxAppend
<1>3. Cardinality(Idx(f.ops, o)) \in Nat /\ Cardinality(Idx(f.locals, o)) \in Nat
  BY <1>1, IdxFinite
<1>4. Of(g, o) = Of(f, o) + IF v = o THEN 1 ELSE 0
  BY <1>1, <1>2, <1>3 DEF Of
<1> QED
  BY <1>4 DEF g

LEMMA OfPop ==
  ASSUME NEW f \in FrameSet, f.ops # <<>>, NEW o
  PROVE  Of(f, o) =
           Of([f EXCEPT !.ops = Front(@)], o) + IF Last(f.ops) = o THEN 1 ELSE 0
<1> DEFINE g == [f EXCEPT !.ops = Front(@)]
<1>1. /\ f.locals \in Seq(Ref \cup {Unset}) /\ f.ops \in Seq(Ref)
      /\ g.locals = f.locals /\ g.ops = Front(f.ops)
  BY DEF FrameSet
<1> HIDE DEF g
<1>2. Cardinality(Idx(f.ops, o)) =
        Cardinality(Idx(g.ops, o)) + IF Last(f.ops) = o THEN 1 ELSE 0
  BY <1>1, IdxFront
<1>3. Cardinality(Idx(g.ops, o)) \in Nat /\ Cardinality(Idx(f.locals, o)) \in Nat
  BY <1>1, FrontProps, IdxFinite
<1>4. Of(f, o) = Of(g, o) + IF Last(f.ops) = o THEN 1 ELSE 0
  BY <1>1, <1>2, <1>3 DEF Of
<1> QED
  BY <1>4 DEF g

LEMMA OfSet ==
  ASSUME NEW f \in FrameSet, NEW l \in DOMAIN f.locals, NEW v \in Ref, NEW o
  PROVE  Of([f EXCEPT !.locals[l] = v], o) + (IF f.locals[l] = o THEN 1 ELSE 0) =
           Of(f, o) + IF v = o THEN 1 ELSE 0
<1> DEFINE g == [f EXCEPT !.locals[l] = v]
<1>1. /\ f.locals \in Seq(Ref \cup {Unset}) /\ f.ops \in Seq(Ref)
      /\ g.locals = [f.locals EXCEPT ![l] = v] /\ g.ops = f.ops
      /\ v \in Ref \cup {Unset}
  BY DEF FrameSet
<1> HIDE DEF g
<1>2. Cardinality(Idx(g.locals, o)) + (IF f.locals[l] = o THEN 1 ELSE 0) =
        Cardinality(Idx(f.locals, o)) + IF v = o THEN 1 ELSE 0
  BY <1>1, IdxExcept
<1>3. /\ Cardinality(Idx(f.ops, o)) \in Nat /\ Cardinality(Idx(f.locals, o)) \in Nat
      /\ Cardinality(Idx(g.locals, o)) \in Nat
  <2>1. g.locals \in Seq(Ref \cup {Unset})
    BY <1>1, ExceptSeq, LenProperties
  <2> QED
    BY <1>1, <2>1, IdxFinite
<1>4. Of(g, o) + (IF f.locals[l] = o THEN 1 ELSE 0) =
        Of(f, o) + IF v = o THEN 1 ELSE 0
  BY <1>1, <1>2, <1>3 DEF Of
<1> QED
  BY <1>4 DEF g

-----------------------------------------------------------------------------
(* What NanoVM_ref and NanoVM_unref do to the heap *)

LEMMA RefEffect ==
  ASSUME NEW h \in Heaps, NEW v
  PROVE  /\ RefTo(h, v) \in Heaps /\ RefTo(h, v).live = h.live
         /\ \A o \in Objs : RefTo(h, v).cnt[o] =
                              h.cnt[o] + IF v = o THEN 1 ELSE 0
<1>1. h.cnt \in [Objs -> Nat] /\ h.live \in SUBSET Objs
  BY DEF Heaps
<1>2. CASE v \notin Objs
  BY <1>1, <1>2 DEF RefTo
<1>3. CASE v \in Objs
  <2>1. RefTo(h, v) = [live |-> h.live, cnt |-> [h.cnt EXCEPT ![v] = @ + 1]]
    BY <1>3 DEF RefTo, Heaps
  <2>2. [h.cnt EXCEPT ![v] = @ + 1] \in [Objs -> Nat]
    BY <1>1, <1>3
  <2> QED
    BY <1>1, <1>3, <2>1, <2>2 DEF Heaps
<1> QED
  BY <1>2, <1>3

\* A value that is not an object, or one with references.
LEMMA UnrefEffect ==
  ASSUME NEW h \in Heaps, NEW v, v \in Objs => h.cnt[v] > 0
  PROVE  /\ UnrefTo(h, v) \in Heaps
         /\ \A o \in Objs :
              /\ h.cnt[o] = UnrefTo(h, v).cnt[o] + IF v = o THEN 1 ELSE 0
              /\ o \in UnrefTo(h, v).live <=>
                   o \in h.live /\ (v = o => UnrefTo(h, v).cnt[o] > 0)
<1>1. h.cnt \in [Objs -> Nat] /\ h.live \in SUBSET Objs
  BY DEF Heaps
<1>2. CASE v \notin Objs
  BY <1>1, <1>2 DEF UnrefTo
<1>3. CASE v \in Objs /\ h.cnt[v] = 1
  <2>1. UnrefTo(h, v) = [live |-> h.live \ {v}, cnt |-> [h.cnt EXCEPT ![v] = 0]]
    BY <1>3 DEF UnrefTo
  <2>2. [h.cnt EXCEPT ![v] = 0] \in [Objs -> Nat]
    BY <1>1, <1>3
  <2> QED
    BY <1>1, <1>3, <2>1, <2>2 DEF Heaps
<1>4. CASE v \in Objs /\ h.cnt[v] > 1
  <2>1. UnrefTo(h, v) = [live |-> h.live, cnt |-> [h.cnt EXCEPT ![v] = @ - 1]]
    <3>1. h.cnt[v] \notin {0, 1}
      BY <1>1, <1>4
    <3> QED
      BY <1>4, <3>1 DEF UnrefTo, Heaps
  <2>2. /\ [h.cnt EXCEPT ![v] = @ - 1] \in [Objs -> Nat]
        /\ \A o \in Objs : [h.cnt EXCEPT ![v] = @ - 1][o] =
                             IF v = o THEN h.cnt[o] - 1 ELSE h.cnt[o]
    BY <1>1, <1>4
  <2> QED
    BY <1>1, <1>4, <2>1, <2>2 DEF Heaps
<1> QED
  BY <1>1, <1>2, <1>3, <1>4

\* The values of s, each as often as it is in s.
LEMMA UnrefAllEffect ==
  ASSUME NEW h \in Heaps, NEW s \in Seq(Ref \cup {Unset}),
         \A o \in Objs : h.cnt[o] >= Cardinality(Idx(s, o))
  PROVE  /\ UnrefAll(h, s) \in Heaps
         /\ \A o \in Objs :
              /\ h.cnt[o] = UnrefAll(h, s).cnt[o] + Cardinality(Idx(s, o))
              /\ o \in UnrefAll(h, s).live <=>
                   o \in h.live /\ (Cardinality(Idx(s, o)) # 0 =>
                                      UnrefAll(h, s).cnt[o] > 0)
<1> DEFINE n(o) == Cardinality(Idx(s, o))
           c == [o \in Objs |-> IF h.cnt[o] > n(o) THEN h.cnt[o] - n(o) ELSE 0]
           l == {o \in h.live : n(o) = 0 \/ h.cnt[o] > n(o)}
<1>1. h.cnt \in [Objs -> Nat] /\ h.live \in SUBSET Objs
  BY DEF Heaps
<1>2. UnrefAll(h, s) = [live |-> l, cnt |-> c]
  BY DEF UnrefAll, Idx
<1>3. \A o \in Objs : n(o) \in Nat /\ h.cnt[o] >= n(o) /\ h.cnt[o] \in Nat
  BY <1>1, IdxFinite
<1>4. UnrefAll(h, s).live = l /\ UnrefAll(h, s).cnt = c
  BY <1>2
<1>5. c \in [Objs -> Nat] /\ l \in SUBSET Objs
  <2> HIDE DEF n
  <2> QED
    BY <1>1, <1>3
<1>6. UnrefAll(h, s) \in Heaps
  <2> HIDE DEF c, l
  <2> QED
    BY <1>2, <1>5 DEF Heaps
<1>7. \A o \in Objs : /\ h.cnt[o] = c[o] + n(o)
                      /\ o \in l <=> o \in h.live /\ (n(o) # 0 => c[o] > 0)
  <2> HIDE DEF n
  <2> QED
    BY <1>1, <1>3
<1> QED
  <2> HIDE DEF c, l
  <2> QED
    BY <1>4, <1>6, <1>7

-----------------------------------------------------------------------------
(* The counts are exact: the steps *)

LEMMA NoFrameOf ==
  /\ \A o : Of(NoFrame, o) = 0 /\ Idx(NoFrame.locals, o) = {}
  /\ DOMAIN NoFrame.args = {}
<1>1. /\ NoFrame.locals = <<>> /\ NoFrame.ops = <<>> /\ NoFrame.args = <<>>
      /\ DOMAIN <<>> = {}
  BY EmptySeq DEF NoFrame
<1>2. \A o : Idx(<<>>, o) = {}
  BY <1>1 DEF Idx
<1> QED
  BY <1>1, <1>2, FS_EmptySet DEF Of

LEMMA RSizes ==
  ASSUME IInv, RInv, NEW o \in Objs
  PROVE  /\ In(frames, o) \in Nat /\ Of(making, o) \in Nat
         /\ held[o] \in Nat /\ lost[o] \in Nat /\ heap.cnt[o] \in Nat
<1>1. In(frames, o) \in Nat
  BY InNat DEF IInv, Shapes
<1>2. making.locals \in Seq(Ref \cup {Unset}) /\ making.ops \in Seq(Ref)
  BY EmptySeq DEF IInv, Shapes, MakingSet
<1>3. Of(making, o) \in Nat
  BY <1>2, OfNat
<1>4. heap.cnt \in [Objs -> Nat] /\ held[o] \in 0 .. MaxHeld
  BY DEF RInv, Heaps
<1> QED
  BY <1>1, <1>3, <1>4, BoundsAssumption DEF RInv

\* What holds between the calls, when no frame is made.
LEMMA Between ==
  ASSUME IInv, RInv, making = NoFrame
  PROVE  /\ \A o \in Objs : heap.cnt[o] = In(frames, o) + held[o] + lost[o]
         /\ hand \in Objs => heap.cnt[hand] = 0
         /\ \A o \in Known : o \in Uncounted \/ (o \in Objs /\ o \in heap.live)
<1>1. \A o \in Objs : heap.cnt[o] = In(frames, o) + held[o] + lost[o]
  <2> SUFFICES ASSUME NEW o \in Objs
               PROVE  heap.cnt[o] = In(frames, o) + held[o] + lost[o]
    OBVIOUS
  <2>1. Of(making, o) = 0
    BY NoFrameOf
  <2> QED
    BY <2>1, RSizes DEF RInv, Counts
<1>2. hand \in Objs => heap.cnt[hand] = 0
  <2>1. Idx(making.locals, hand) = {}
    BY NoFrameOf
  <2> QED
    BY <2>1, RSizes DEF RInv, HandNew
<1>3. ASSUME NEW o \in Known PROVE o \in Uncounted \/ (o \in Objs /\ o \in heap.live)
  <2>1. CASE o \in Uncounted \/ o = hand
    BY <1>3, <2>1 DEF RInv, Live, Known
  <2>2. CASE o \in Objs /\ held[o] > 0
    BY <1>1, <2>2, RSizes DEF RInv, Live
  <2>3. CASE o \in Objs /\ \E i \in DOMAIN frames : InFrame(frames[i], o)
    <3>1. In(frames, o) > 0
      BY <2>3, InSome DEF IInv, Shapes
    <3> QED
      BY <1>1, <2>3, <3>1, RSizes DEF RInv, Live
  <2> QED
    BY <1>3, <2>1, <2>2, <2>3 DEF Known
<1> QED
  BY <1>1, <1>2, <1>3

\* A call that is one step.
LEMMA CallRInv ==
  ASSUME making = NoFrame, UNCHANGED <<making, lost>>, RInv, heap' \in Heaps,
         held' \in [Objs -> 0 .. MaxHeld],
         \A o \in Objs :
           /\ In(frames', o) \in Nat
           /\ heap'.cnt[o] = In(frames', o) + held'[o] + lost[o]
           /\ o \in heap'.live <=> heap'.cnt[o] > 0 \/ o = hand',
         hand' \in Objs => heap'.cnt[hand'] = 0
  PROVE  RInv'
<1>1. Counts'
  <2> SUFFICES ASSUME NEW o \in Objs
               PROVE  heap'.cnt[o] =
                        In(frames', o) + Of(making', o) + held'[o] + lost'[o]
    BY DEF Counts
  <2>1. Of(making', o) = 0
    BY NoFrameOf
  <2> QED
    BY <2>1
<1>2. Live'
  BY DEF Live
<1>3. HandNew'
  BY DEF HandNew
<1>4. ArgsLive'
  BY NoFrameOf DEF ArgsLive
<1> QED
  BY <1>1, <1>2, <1>3, <1>4 DEF RInv

\* A step that leaves the objects and their references as they are.
LEMMA KeepRInv ==
  ASSUME RInv, UNCHANGED <<heap, frames, hand, held, lost>>,
         making'.locals = making.locals, making'.ops = making.ops,
         making'.args = making.args
  PROVE  RInv'
<1>1. \A o : Of(making', o) = Of(making, o)
  BY DEF Of
<1>2. Counts' /\ Live'
  BY <1>1 DEF RInv, Counts, Live
<1>3. HandNew' /\ ArgsLive'
  BY DEF RInv, HandNew, ArgsLive
<1> QED
  BY <1>2, <1>3 DEF RInv

LEMMA AllocHeapRInv ==
  ASSUME IInv, RInv, AllocHeap
  PROVE  RInv'
<1>1. making = NoFrame /\ UNCHANGED <<making, lost, frames, held>> /\ hand = Unset
  BY DEF AllocHeap, IInv, Stage
<1>2. PICK o \in Objs \ heap.live :
        /\ heap' = [live |-> heap.live \cup {o},
                    cnt |-> [heap.cnt EXCEPT ![o] = 0]]
        /\ hand' = o
  BY DEF AllocHeap
<1>3. heap.cnt \in [Objs -> Nat] /\ heap.live \in SUBSET Objs
  BY DEF RInv, Heaps
<1>4. heap.cnt[o] = 0
  BY <1>2, <1>3 DEF RInv, Live
<1>5. heap'.cnt = heap.cnt /\ heap'.live = heap.live \cup {o}
  BY <1>2, <1>3, <1>4
<1>6. heap' \in Heaps
  BY <1>2, <1>3, <1>4 DEF Heaps
<1>7. \A p \in Objs : In(frames, p) \in Nat
  BY RSizes
<1>8. \A p \in Objs : p \in heap.live <=> heap.cnt[p] > 0
  BY <1>1, ObjsAssumption, UnsetAssumption DEF RInv, Live
<1>9. \A p \in Objs : heap.cnt[p] = In(frames, p) + held[p] + lost[p]
  BY <1>1, Between
<1>10. \A p \in Objs :
         /\ In(frames', p) \in Nat
         /\ heap'.cnt[p] = In(frames', p) + held'[p] + lost[p]
         /\ p \in heap'.live <=> heap'.cnt[p] > 0 \/ p = hand'
  BY <1>1, <1>2, <1>5, <1>7, <1>8, <1>9
<1>11. held' \in [Objs -> 0 .. MaxHeld]
  BY <1>1 DEF RInv
<1> QED
  BY <1>1, <1>2, <1>4, <1>5, <1>6, <1>10, <1>11, CallRInv

LEMMA UnrefRInv ==
  ASSUME IInv, RInv, Unref
  PROVE  RInv'
<1>1. making = NoFrame /\ UNCHANGED <<making, lost, frames>>
  BY DEF Unref, IInv, Stage
<1>2. heap \in Heaps /\ heap.cnt \in [Objs -> Nat] /\ heap.live \in SUBSET Objs
  BY DEF RInv, Heaps
<1>3. /\ held \in [Objs -> 0 .. MaxHeld] /\ MaxHeld \in Nat
      /\ hand \in Objs \cup {Unset}
  BY BoundsAssumption DEF RInv, IInv, Shapes
<1>4. \A p \in Objs : /\ In(frames, p) \in Nat /\ held[p] \in Nat
                      /\ lost[p] \in Nat /\ heap.cnt[p] \in Nat
  BY RSizes
<1>5. /\ \A p \in Objs : heap.cnt[p] = In(frames, p) + held[p] + lost[p]
      /\ hand \in Objs => heap.cnt[hand] = 0
      /\ \A p \in Objs : p \in heap.live <=> heap.cnt[p] > 0 \/ p = hand
  BY <1>1, Between DEF RInv, Live
<1>6. CASE /\ hand # Unset
           /\ heap' = UnrefTo(heap, hand)
           /\ hand' = Unset
           /\ UNCHANGED held
  <2>1. heap' = [live |-> heap.live \ {hand}, cnt |-> [heap.cnt EXCEPT ![hand] = 0]]
    BY <1>3, <1>5, <1>6 DEF UnrefTo
  <2>2. heap'.cnt = heap.cnt /\ heap'.live = heap.live \ {hand} /\ heap' \in Heaps
    BY <1>2, <1>3, <1>5, <1>6, <2>1 DEF Heaps
  <2>3. \A p \in Objs :
          /\ In(frames', p) \in Nat
          /\ heap'.cnt[p] = In(frames', p) + held'[p] + lost[p]
          /\ p \in heap'.live <=> heap'.cnt[p] > 0 \/ p = hand'
    BY <1>1, <1>4, <1>5, <1>6, <2>2, ObjsAssumption, UnsetAssumption
  <2>4. hand' \notin Objs /\ held' \in [Objs -> 0 .. MaxHeld]
    BY <1>3, <1>6, ObjsAssumption, UnsetAssumption
  <2> QED
    BY <1>1, <2>2, <2>3, <2>4, CallRInv
<1>7. CASE \E o \in Objs : /\ held[o] > 0
                           /\ heap' = UnrefTo(heap, o)
                           /\ held' = [held EXCEPT ![o] = @ - 1]
                           /\ UNCHANGED hand
  <2>1. PICK o \in Objs : /\ held[o] > 0
                          /\ heap' = UnrefTo(heap, o)
                          /\ held' = [held EXCEPT ![o] = @ - 1]
                          /\ UNCHANGED hand
    BY <1>7
  <2>2. heap.cnt[o] > 0 /\ o # hand
    BY <1>4, <1>5, <2>1
  <2>3. /\ heap' \in Heaps
        /\ \A p \in Objs :
             /\ heap.cnt[p] = heap'.cnt[p] + IF o = p THEN 1 ELSE 0
             /\ p \in heap'.live <=>
                  p \in heap.live /\ (o = p => heap'.cnt[p] > 0)
    BY <1>2, <2>1, <2>2, UnrefEffect
  <2>4. /\ held' \in [Objs -> 0 .. MaxHeld]
        /\ \A p \in Objs : held[p] = held'[p] + IF o = p THEN 1 ELSE 0
    BY <1>3, <2>1
  <2>5. \A p \in Objs : heap'.cnt[p] \in Nat /\ held'[p] \in Nat
    BY <1>3, <2>3, <2>4 DEF Heaps
  <2>6. \A p \in Objs : heap'.cnt[p] = In(frames', p) + held'[p] + lost[p]
    <3> SUFFICES ASSUME NEW p \in Objs
                 PROVE  heap'.cnt[p] = In(frames, p) + held'[p] + lost[p]
      BY <1>1
    <3>1. /\ In(frames, p) \in Nat /\ lost[p] \in Nat /\ heap'.cnt[p] \in Nat
          /\ held'[p] \in Nat
      BY <1>4, <2>5
    <3>2. CASE o = p
      BY <1>5, <2>3, <2>4, <3>1, <3>2
    <3>3. CASE o # p
      BY <1>5, <2>3, <2>4, <3>1, <3>3
    <3> QED
      BY <3>2, <3>3
  <2>7. \A p \in Objs : p \in heap'.live <=> heap'.cnt[p] > 0 \/ p = hand'
    BY <1>4, <1>5, <2>1, <2>2, <2>3, <2>5
  <2>8. hand' \in Objs => heap'.cnt[hand'] = 0
    BY <1>4, <1>5, <2>1, <2>2, <2>3, <2>5
  <2>9. \A p \in Objs : In(frames', p) \in Nat
    BY <1>1, <1>4
  <2> QED
    BY <1>1, <2>3, <2>4, <2>6, <2>7, <2>8, <2>9, CallRInv
<1> QED
  BY <1>6, <1>7 DEF Unref

\* What the calls on one frame start from.
LEMMA CallStart ==
  ASSUME IInv, RInv, pc \in {"caller", "release"}
  PROVE  /\ making = NoFrame
         /\ heap \in Heaps /\ frames \in Seq(FrameSet)
         /\ held \in [Objs -> 0 .. MaxHeld] /\ MaxHeld \in Nat
         /\ hand \in Objs \cup {Unset}
         /\ \A p \in Objs : /\ In(frames, p) \in Nat /\ held[p] \in Nat
                            /\ lost[p] \in Nat /\ heap.cnt[p] \in Nat
         /\ \A p \in Objs : heap.cnt[p] = In(frames, p) + held[p] + lost[p]
         /\ hand \in Objs => heap.cnt[hand] = 0
         /\ \A p \in Objs : p \in heap.live <=> heap.cnt[p] > 0 \/ p = hand
<1>1. making = NoFrame
  BY DEF IInv, Stage
<1> QED
  BY <1>1, Between, RSizes, BoundsAssumption DEF RInv, IInv, Shapes, Live

\* One frame is replaced.
LEMMA FrameIn ==
  ASSUME IInv, NEW i \in DOMAIN frames, NEW f \in FrameSet,
         frames' = [frames EXCEPT ![i] = f], NEW o
  PROVE  /\ In(frames', o) + Of(frames[i], o) = In(frames, o) + Of(f, o)
         /\ In(frames', o) \in Nat /\ In(frames, o) \in Nat
         /\ Of(frames[i], o) \in Nat /\ Of(f, o) \in Nat
<1>1. frames \in Seq(FrameSet) /\ frames[i] \in FrameSet
  BY ElementOfSeq, LenProperties DEF IInv, Shapes
<1>2. frames' \in Seq(FrameSet)
  BY <1>1, ExceptCode, ExceptSeq, LenProperties
<1>3. /\ frames[i].locals \in Seq(Ref \cup {Unset}) /\ frames[i].ops \in Seq(Ref)
      /\ f.locals \in Seq(Ref \cup {Unset}) /\ f.ops \in Seq(Ref)
  BY <1>1 DEF FrameSet
<1>4. In(frames', o) \in Nat /\ In(frames, o) \in Nat
  BY <1>1, <1>2, InNat
<1>5. Of(frames[i], o) \in Nat /\ Of(f, o) \in Nat
  BY <1>3, OfNat
<1>6. In(frames', o) + Of(frames[i], o) = In(frames, o) + Of(f, o)
  BY <1>1, InExcept
<1> QED
  BY <1>4, <1>5, <1>6

LEMMA OpPushRInv ==
  ASSUME IInv, RInv, OpPush
  PROVE  RInv'
<1>1. /\ pc = "caller" /\ UNCHANGED <<making, lost, held>>
  BY DEF OpPush
<1>2. PICK i \in DOMAIN frames, v \in Known :
        /\ frames' = [frames EXCEPT ![i].ops = Append(@, v)]
        /\ heap' = RefTo(heap, v)
        /\ Stored({v})
  BY DEF OpPush
<1> DEFINE f == [frames[i] EXCEPT !.ops = Append(@, v)]
<1>3. frames[i] \in FrameSet /\ v \in Ref
  BY KnownRef, ElementOfSeq, LenProperties DEF IInv, Shapes
<1>4. f \in FrameSet /\ frames' = [frames EXCEPT ![i] = f]
  <2>1. Append(frames[i].ops, v) \in Seq(Ref)
    BY <1>3, AppendProperties DEF FrameSet
  <2> QED
    BY <1>2, <1>3, <2>1 DEF FrameSet
<1>5. \A p : Of(f, p) = Of(frames[i], p) + IF v = p THEN 1 ELSE 0
  BY <1>3, OfPush
<1> HIDE DEF f
<1>6. \A p \in Objs : /\ In(frames', p) = In(frames, p) + IF v = p THEN 1 ELSE 0
                      /\ In(frames', p) \in Nat
  <2> SUFFICES ASSUME NEW p \in Objs
               PROVE  /\ In(frames', p) = In(frames, p) + IF v = p THEN 1 ELSE 0
                      /\ In(frames', p) \in Nat
    OBVIOUS
  <2>1. /\ In(frames', p) + Of(frames[i], p) = In(frames, p) + Of(f, p)
        /\ In(frames', p) \in Nat /\ In(frames, p) \in Nat
        /\ Of(frames[i], p) \in Nat /\ Of(f, p) \in Nat
    BY <1>4, FrameIn
  <2>2. Of(f, p) = Of(frames[i], p) + IF v = p THEN 1 ELSE 0
    BY <1>5
  <2> QED
    BY <2>1, <2>2
<1>7. /\ heap' \in Heaps /\ heap'.live = heap.live
      /\ \A p \in Objs : heap'.cnt[p] = heap.cnt[p] + IF v = p THEN 1 ELSE 0
  BY <1>1, <1>2, CallStart, RefEffect
<1>8. v \in Objs => v \in heap.live
  BY <1>1, CallStart, Between, ObjsAssumption, UnsetAssumption
<1>9. hand' = IF hand = v THEN Unset ELSE hand
  BY <1>2 DEF Stored
<1>10. \A p \in Objs : heap'.cnt[p] = In(frames', p) + held'[p] + lost[p]
  <2> SUFFICES ASSUME NEW p \in Objs
               PROVE  heap'.cnt[p] = In(frames', p) + held[p] + lost[p]
    BY <1>1
  <2>1. CASE v = p
    BY <1>1, <1>6, <1>7, <2>1, CallStart
  <2>2. CASE v # p
    BY <1>1, <1>6, <1>7, <2>2, CallStart
  <2> QED
    BY <2>1, <2>2
<1>11. \A p \in Objs : p \in heap'.live <=> heap'.cnt[p] > 0 \/ p = hand'
  <2> SUFFICES ASSUME NEW p \in Objs
               PROVE  p \in heap'.live <=> heap'.cnt[p] > 0 \/ p = hand'
    OBVIOUS
  <2>1. CASE v = p
    BY <1>1, <1>7, <1>8, <2>1, CallStart
  <2>2. CASE v # p
    BY <1>1, <1>7, <1>9, <2>2, CallStart, ObjsAssumption, UnsetAssumption
  <2> QED
    BY <2>1, <2>2
<1>12. hand' \in Objs => heap'.cnt[hand'] = 0
  <2> SUFFICES ASSUME hand' \in Objs PROVE heap'.cnt[hand'] = 0
    OBVIOUS
  <2>1. hand' = hand /\ hand # v /\ hand \in Objs
    BY <1>9, ObjsAssumption, UnsetAssumption
  <2>2. heap.cnt[hand] = 0 /\ heap'.cnt[hand] = heap.cnt[hand] + 0
    BY <1>1, <1>7, <2>1, CallStart
  <2> QED
    BY <2>1, <2>2
<1>13. held' \in [Objs -> 0 .. MaxHeld]
  BY <1>1, CallStart
<1> QED
  BY <1>1, <1>6, <1>7, <1>10, <1>11, <1>12, <1>13, CallStart, CallRInv

LEMMA OpPopRInv ==
  ASSUME IInv, RInv, OpPop \/ OpPopKeep
  PROVE  RInv'
<1>1. /\ pc = "caller" /\ UNCHANGED <<making, lost, hand>>
  BY DEF OpPop, OpPopKeep
<1>2. PICK i \in DOMAIN frames :
        /\ frames[i].ops # <<>>
        /\ frames' = [frames EXCEPT ![i].ops = Front(@)]
        /\ \/ heap' = UnrefTo(heap, Last(frames[i].ops)) /\ UNCHANGED held
           \/ LET o == Last(frames[i].ops) IN
              /\ o \in Objs => held[o] < MaxHeld
              /\ held' = IF o \in Objs THEN [held EXCEPT ![o] = @ + 1] ELSE held
              /\ UNCHANGED heap
  BY DEF OpPop, OpPopKeep
<1> DEFINE v == Last(frames[i].ops)
           f == [frames[i] EXCEPT !.ops = Front(@)]
<1>3. frames[i] \in FrameSet
  BY ElementOfSeq, LenProperties DEF IInv, Shapes
<1>4. f \in FrameSet /\ frames' = [frames EXCEPT ![i] = f]
  <2>1. Front(frames[i].ops) \in Seq(Ref)
    BY <1>2, <1>3, FrontProps DEF FrameSet
  <2> QED
    BY <1>2, <1>3, <2>1 DEF FrameSet
<1>5. \A p : Of(frames[i], p) = Of(f, p) + IF v = p THEN 1 ELSE 0
  BY <1>2, <1>3, OfPop
<1> HIDE DEF f
<1>6. \A p \in Objs : /\ In(frames, p) = In(frames', p) + IF v = p THEN 1 ELSE 0
                      /\ In(frames', p) \in Nat
  <2> SUFFICES ASSUME NEW p \in Objs
               PROVE  /\ In(frames, p) = In(frames', p) + IF v = p THEN 1 ELSE 0
                      /\ In(frames', p) \in Nat
    OBVIOUS
  <2>1. /\ In(frames', p) + Of(frames[i], p) = In(frames, p) + Of(f, p)
        /\ In(frames', p) \in Nat /\ In(frames, p) \in Nat
        /\ Of(frames[i], p) \in Nat /\ Of(f, p) \in Nat
    BY <1>4, FrameIn
  <2>2. Of(frames[i], p) = Of(f, p) + IF v = p THEN 1 ELSE 0
    BY <1>5
  <2> HIDE DEF v
  <2> QED
    BY <2>1, <2>2
<1> HIDE DEF v
<1>7. v \in Objs => heap.cnt[v] > 0 /\ v # hand
  <2>1. v \in Objs => In(frames, v) > 0
    BY <1>6
  <2> QED
    BY <1>1, <2>1, CallStart
<1>8. CASE heap' = UnrefTo(heap, v) /\ UNCHANGED held
  <2>1. /\ heap' \in Heaps
        /\ \A p \in Objs :
             /\ heap.cnt[p] = heap'.cnt[p] + IF v = p THEN 1 ELSE 0
             /\ p \in heap'.live <=>
                  p \in heap.live /\ (v = p => heap'.cnt[p] > 0)
    BY <1>1, <1>7, <1>8, CallStart, UnrefEffect
  <2>2. \A p \in Objs : heap'.cnt[p] \in Nat
    BY <2>1 DEF Heaps
  <2>3. \A p \in Objs : heap'.cnt[p] = In(frames', p) + held'[p] + lost[p]
    <3> SUFFICES ASSUME NEW p \in Objs
                 PROVE  heap'.cnt[p] = In(frames', p) + held[p] + lost[p]
      BY <1>8
    <3>1. /\ heap.cnt[p] = In(frames, p) + held[p] + lost[p]
          /\ held[p] \in Nat /\ lost[p] \in Nat
      BY <1>1, CallStart
    <3>2. /\ In(frames, p) = In(frames', p) + IF v = p THEN 1 ELSE 0
          /\ heap.cnt[p] = heap'.cnt[p] + IF v = p THEN 1 ELSE 0
          /\ In(frames', p) \in Nat /\ heap'.cnt[p] \in Nat
      BY <1>6, <2>1, <2>2
    <3> QED
      BY <3>1, <3>2
  <2>4. \A p \in Objs : p \in heap'.live <=> heap'.cnt[p] > 0 \/ p = hand'
    <3> SUFFICES ASSUME NEW p \in Objs
                 PROVE  p \in heap'.live <=> heap'.cnt[p] > 0 \/ p = hand
      BY <1>1
    <3>1. CASE v = p
      BY <1>1, <1>7, <2>1, <2>2, <3>1, CallStart
    <3>2. CASE v # p
      BY <1>1, <2>1, <2>2, <3>2, CallStart
    <3> QED
      BY <3>1, <3>2
  <2>5. hand' \in Objs => heap'.cnt[hand'] = 0
    BY <1>1, <1>7, <2>1, <2>2, CallStart
  <2>6. held' \in [Objs -> 0 .. MaxHeld]
    BY <1>1, <1>8, CallStart
  <2> QED
    BY <1>1, <1>6, <2>1, <2>3, <2>4, <2>5, <2>6, CallStart, CallRInv
<1>9. CASE /\ v \in Objs => held[v] < MaxHeld
           /\ held' = IF v \in Objs THEN [held EXCEPT ![v] = @ + 1] ELSE held
           /\ UNCHANGED heap
  <2>1. /\ held' \in [Objs -> 0 .. MaxHeld]
        /\ \A p \in Objs : held'[p] = held[p] + IF v = p THEN 1 ELSE 0
    BY <1>1, <1>9, CallStart
  <2>2. \A p \in Objs : heap'.cnt[p] = In(frames', p) + held'[p] + lost[p]
    <3> SUFFICES ASSUME NEW p \in Objs
                 PROVE  heap.cnt[p] = In(frames', p) + held'[p] + lost[p]
      BY <1>9
    <3>1. CASE v = p
      BY <1>1, <1>6, <2>1, <3>1, CallStart
    <3>2. CASE v # p
      BY <1>1, <1>6, <2>1, <3>2, CallStart
    <3> QED
      BY <3>1, <3>2
  <2>3. \A p \in Objs : p \in heap'.live <=> heap'.cnt[p] > 0 \/ p = hand'
    BY <1>1, <1>9, CallStart
  <2>4. heap' \in Heaps /\ (hand' \in Objs => heap'.cnt[hand'] = 0)
    BY <1>1, <1>9, CallStart
  <2> QED
    BY <1>1, <1>6, <2>1, <2>2, <2>3, <2>4, CallStart, CallRInv
<1> QED
  BY <1>2, <1>8, <1>9 DEF v

LEMMA SetLocalRInv ==
  ASSUME IInv, RInv, SetLocal
  PROVE  RInv'
<1>1. /\ pc = "caller" /\ UNCHANGED <<making, lost, held>>
  BY DEF SetLocal
<1>2. PICK i \in DOMAIN frames, v \in Known : \E l \in DOMAIN frames[i].locals :
        /\ heap' = Replace(heap, v, frames[i].locals[l])
        /\ frames' = [frames EXCEPT ![i].locals[l] = v]
        /\ Stored({v})
  BY DEF SetLocal
<1>3. PICK l \in DOMAIN frames[i].locals :
        /\ heap' = Replace(heap, v, frames[i].locals[l])
        /\ frames' = [frames EXCEPT ![i].locals[l] = v]
        /\ Stored({v})
  BY <1>2
<1> DEFINE w == frames[i].locals[l]
           f == [frames[i] EXCEPT !.locals[l] = v]
           h == RefTo(heap, v)
<1>4. frames[i] \in FrameSet /\ v \in Ref
  BY KnownRef, ElementOfSeq, LenProperties DEF IInv, Shapes
<1>5. f \in FrameSet /\ frames' = [frames EXCEPT ![i] = f]
  <2>1. [frames[i].locals EXCEPT ![l] = v] \in Seq(Ref \cup {Unset})
    BY <1>4, ExceptSeq, LenProperties DEF FrameSet
  <2> QED
    BY <1>3, <1>4, <2>1 DEF FrameSet
<1>6. \A p : Of(f, p) + (IF w = p THEN 1 ELSE 0) =
               Of(frames[i], p) + IF v = p THEN 1 ELSE 0
  BY <1>4, OfSet
<1> HIDE DEF f
<1>7. \A p \in Objs : /\ In(frames', p) + (IF w = p THEN 1 ELSE 0) =
                           In(frames, p) + IF v = p THEN 1 ELSE 0
                      /\ In(frames', p) \in Nat
  <2> SUFFICES ASSUME NEW p \in Objs
               PROVE  /\ In(frames', p) + (IF w = p THEN 1 ELSE 0) =
                           In(frames, p) + IF v = p THEN 1 ELSE 0
                      /\ In(frames', p) \in Nat
    OBVIOUS
  <2>1. /\ In(frames', p) + Of(frames[i], p) = In(frames, p) + Of(f, p)
        /\ In(frames', p) \in Nat /\ In(frames, p) \in Nat
        /\ Of(frames[i], p) \in Nat /\ Of(f, p) \in Nat
    BY <1>5, FrameIn
  <2>2. Of(f, p) + (IF w = p THEN 1 ELSE 0) =
          Of(frames[i], p) + IF v = p THEN 1 ELSE 0
    BY <1>6
  <2> HIDE DEF w
  <2> QED
    BY <2>1, <2>2
<1>8. w \in Objs => heap.cnt[w] > 0 /\ w # hand
  <2> SUFFICES ASSUME w \in Objs PROVE heap.cnt[w] > 0 /\ w # hand
    OBVIOUS
  <2>1. InFrame(frames[i], w)
    BY DEF InFrame
  <2>2. In(frames, w) > 0
    BY <1>1, <2>1, CallStart, InSome
  <2> HIDE DEF w
  <2> QED
    BY <1>1, <2>2, CallStart
<1> HIDE DEF w
<1>9. /\ h \in Heaps /\ h.live = heap.live
      /\ \A p \in Objs : h.cnt[p] = heap.cnt[p] + IF v = p THEN 1 ELSE 0
  BY <1>1, CallStart, RefEffect
<1> HIDE DEF h
<1>10. w \in Objs => h.cnt[w] > 0
  <2>1. w \in Objs => heap.cnt[w] \in Nat
    BY <1>1, CallStart
  <2> QED
    BY <1>8, <1>9, <2>1
<1>11. heap' = UnrefTo(h, w)
  BY <1>3 DEF Replace, h, w
<1>12. /\ heap' \in Heaps
       /\ \A p \in Objs :
            /\ h.cnt[p] = heap'.cnt[p] + IF w = p THEN 1 ELSE 0
            /\ p \in heap'.live <=> p \in h.live /\ (w = p => heap'.cnt[p] > 0)
  BY <1>9, <1>10, <1>11, UnrefEffect
<1>13. \A p \in Objs : heap'.cnt[p] \in Nat
  BY <1>12 DEF Heaps
<1>14. v \in Objs => v \in heap.live
  BY <1>1, CallStart, Between, ObjsAssumption, UnsetAssumption
<1>15. hand' = IF hand = v THEN Unset ELSE hand
  BY <1>3 DEF Stored
<1>16. ASSUME NEW p \in Objs
       PROVE  /\ heap.cnt[p] = In(frames, p) + held[p] + lost[p]
              /\ In(frames', p) + (IF w = p THEN 1 ELSE 0) =
                   In(frames, p) + IF v = p THEN 1 ELSE 0
              /\ heap.cnt[p] + (IF v = p THEN 1 ELSE 0) =
                   heap'.cnt[p] + IF w = p THEN 1 ELSE 0
              /\ In(frames, p) \in Nat /\ In(frames', p) \in Nat
              /\ held[p] \in Nat /\ lost[p] \in Nat
              /\ heap.cnt[p] \in Nat /\ heap'.cnt[p] \in Nat
  BY <1>1, <1>7, <1>9, <1>12, <1>13, CallStart
<1>17. \A p \in Objs : heap'.cnt[p] = In(frames', p) + held'[p] + lost[p]
  <2> SUFFICES ASSUME NEW p \in Objs
               PROVE  heap'.cnt[p] = In(frames', p) + held[p] + lost[p]
    BY <1>1
  <2> DEFINE x == IF v = p THEN 1 ELSE 0
             y == IF w = p THEN 1 ELSE 0
  <2>1. x \in Nat /\ y \in Nat
    OBVIOUS
  <2>2. /\ heap.cnt[p] = In(frames, p) + held[p] + lost[p]
        /\ In(frames', p) + y = In(frames, p) + x
        /\ heap.cnt[p] + x = heap'.cnt[p] + y
        /\ In(frames, p) \in Nat /\ In(frames', p) \in Nat
        /\ held[p] \in Nat /\ lost[p] \in Nat
        /\ heap.cnt[p] \in Nat /\ heap'.cnt[p] \in Nat
    BY <1>16
  <2> HIDE DEF x, y
  <2> QED
    BY <2>1, <2>2
<1>18. \A p \in Objs : p \in heap'.live <=> heap'.cnt[p] > 0 \/ p = hand'
  <2> SUFFICES ASSUME NEW p \in Objs
               PROVE  p \in heap'.live <=> heap'.cnt[p] > 0 \/ p = hand'
    OBVIOUS
  <2>1. p \in heap.live <=> heap.cnt[p] > 0 \/ p = hand
    BY <1>1, CallStart
  <2>2. p \in heap'.live <=> p \in heap.live /\ (w = p => heap'.cnt[p] > 0)
    BY <1>9, <1>12
  <2>3. CASE w = p
    BY <1>8, <1>15, <2>1, <2>2, <2>3, ObjsAssumption, UnsetAssumption
  <2>4. CASE w # p /\ v = p
    BY <1>14, <1>16, <2>1, <2>2, <2>4
  <2>5. CASE w # p /\ v # p
    BY <1>15, <1>16, <2>1, <2>2, <2>5, ObjsAssumption, UnsetAssumption
  <2> QED
    BY <2>3, <2>4, <2>5
<1>19. hand' \in Objs => heap'.cnt[hand'] = 0
  <2> SUFFICES ASSUME hand' \in Objs PROVE heap'.cnt[hand'] = 0
    OBVIOUS
  <2>1. hand' = hand /\ hand # v /\ hand \in Objs
    BY <1>15, ObjsAssumption, UnsetAssumption
  <2>2. heap.cnt[hand] = 0
    BY <1>1, <2>1, CallStart
  <2>3. w # hand
    BY <1>8, <2>1
  <2> QED
    BY <1>16, <2>1, <2>2, <2>3
<1>20. held' \in [Objs -> 0 .. MaxHeld]
  BY <1>1, CallStart
<1> QED
  BY <1>1, <1>7, <1>12, <1>17, <1>18, <1>19, <1>20, CallStart, CallRInv

LEMMA PopRInv ==
  ASSUME IInv, RInv, FramePop \/ ReleaseFrame
  PROVE  RInv'
<1>1. /\ pc \in {"caller", "release"} /\ UNCHANGED <<making, lost, held, hand>>
      /\ frames # <<>> /\ frames' = Front(frames)
      /\ heap' = UnrefAll(heap, Last(frames).locals \o Last(frames).ops)
  BY DEF FramePop, ReleaseFrame, PopTop
<1> DEFINE f == Last(frames)
           s == f.locals \o f.ops
<1>2. /\ frames \in Seq(FrameSet) /\ f \in FrameSet /\ frames' \in Seq(FrameSet)
  BY <1>1, CallStart, FrontProps
<1>3. /\ f.locals \in Seq(Ref \cup {Unset}) /\ f.ops \in Seq(Ref \cup {Unset})
  <2>1. Seq(Ref) \subseteq Seq(Ref \cup {Unset})
    OBVIOUS
  <2> QED
    BY <1>2, <2>1 DEF FrameSet
<1>4. s \in Seq(Ref \cup {Unset})
  BY <1>3, ConcatProperties
<1>5. \A p : Cardinality(Idx(s, p)) = Of(f, p)
  BY <1>3, IdxConcat DEF Of
<1>6. \A p \in Objs : /\ In(frames, p) = In(frames', p) + Of(f, p)
                      /\ In(frames', p) \in Nat /\ Of(f, p) \in Nat
  <2> SUFFICES ASSUME NEW p \in Objs
               PROVE  /\ In(frames, p) = In(frames', p) + Of(f, p)
                      /\ In(frames', p) \in Nat /\ Of(f, p) \in Nat
    OBVIOUS
  <2>1. In(frames, p) = In(frames', p) + Of(f, p)
    BY <1>1, <1>2, InFront
  <2>2. Cardinality(Idx(s, p)) \in Nat
    BY <1>4, IdxFinite
  <2> QED
    BY <1>2, <1>5, <2>1, <2>2, InNat
<1> HIDE DEF f, s
<1>7. ASSUME NEW p \in Objs
      PROVE  /\ heap.cnt[p] = In(frames', p) + Of(f, p) + held[p] + lost[p]
             /\ In(frames', p) \in Nat /\ Of(f, p) \in Nat /\ held[p] \in Nat
             /\ lost[p] \in Nat /\ heap.cnt[p] \in Nat
             /\ heap.cnt[p] >= Of(f, p)
  <2>1. /\ heap.cnt[p] = In(frames, p) + held[p] + lost[p]
        /\ held[p] \in Nat /\ lost[p] \in Nat /\ heap.cnt[p] \in Nat
    BY <1>1, CallStart
  <2> QED
    BY <1>6, <2>1
<1>8. /\ heap' \in Heaps
      /\ \A p \in Objs :
           /\ heap.cnt[p] = heap'.cnt[p] + Of(f, p)
           /\ p \in heap'.live <=>
                p \in heap.live /\ (Of(f, p) # 0 => heap'.cnt[p] > 0)
  <2>1. \A p \in Objs : heap.cnt[p] >= Cardinality(Idx(s, p))
    BY <1>5, <1>7
  <2>2. heap' = UnrefAll(heap, s) /\ heap \in Heaps
    BY <1>1, CallStart DEF f, s
  <2> QED
    BY <1>4, <1>5, <2>1, <2>2, UnrefAllEffect
<1>9. \A p \in Objs : heap'.cnt[p] \in Nat
  BY <1>8 DEF Heaps
<1>10. \A p \in Objs : heap'.cnt[p] = In(frames', p) + held'[p] + lost[p]
  <2> SUFFICES ASSUME NEW p \in Objs
               PROVE  heap'.cnt[p] = In(frames', p) + held[p] + lost[p]
    BY <1>1
  <2> QED
    BY <1>7, <1>8, <1>9
<1>11. \A p \in Objs : p \in heap'.live <=> heap'.cnt[p] > 0 \/ p = hand'
  <2> SUFFICES ASSUME NEW p \in Objs
               PROVE  p \in heap'.live <=> heap'.cnt[p] > 0 \/ p = hand
    BY <1>1
  <2>1. /\ p \in heap.live <=> heap.cnt[p] > 0 \/ p = hand
        /\ p = hand => heap.cnt[p] = 0
    BY <1>1, CallStart
  <2>2. /\ p \in heap'.live <=>
             p \in heap.live /\ (Of(f, p) # 0 => heap'.cnt[p] > 0)
        /\ heap.cnt[p] = heap'.cnt[p] + Of(f, p)
        /\ heap'.cnt[p] \in Nat /\ Of(f, p) \in Nat
    BY <1>7, <1>8, <1>9
  <2> QED
    BY <2>1, <2>2
<1>12. hand' \in Objs => heap'.cnt[hand'] = 0
  <2> SUFFICES ASSUME hand \in Objs PROVE heap'.cnt[hand] = 0
    BY <1>1
  <2>1. heap.cnt[hand] = 0
    BY <1>1, CallStart
  <2> QED
    BY <1>7, <1>8, <1>9, <2>1
<1>13. held' \in [Objs -> 0 .. MaxHeld]
  BY <1>1, CallStart
<1> QED
  BY <1>1, <1>6, <1>8, <1>10, <1>11, <1>12, <1>13, CallStart, CallRInv

LEMMA CreateRInv ==
  ASSUME IInv, RInv, CreateFrame
  PROVE  RInv'
<1>1. /\ pc = "caller" /\ UNCHANGED <<heap, frames, hand, held, lost>>
      /\ making = NoFrame
  BY CallStart DEF CreateFrame, Goto
<1>2. PICK kind \in {Code, Native}, args \in SeqUpTo(Known, MaxArgs), l \in Nat,
           c \in Nat :
        args \in Seq(Ref) /\ making' = NewFrame(kind, args, l, c)
  <2>1. MaxArgs \in Nat /\ \A m \in Methods : m[1] \in Nat /\ m[2] \in Nat
    BY BoundsAssumption
  <2>2. PICK args \in SeqUpTo(Known, MaxArgs) :
          \/ \E m \in Methods : making' = NewFrame(Code, args, m[1], m[2])
          \/ making' = NewFrame(Native, args, Len(args), 0)
    BY DEF CreateFrame
  <2>3. args \in Seq(Ref) /\ Len(args) \in Nat
    BY <2>1, ArgsSeq, LenProperties
  <2> QED
    BY <2>1, <2>2, <2>3
<1>3. /\ making'.args = args /\ making'.locals = [i \in 1 .. l |-> Unset]
      /\ making'.ops = <<>>
  BY <1>2, NewFrameMaking DEF NewFrame, NoFrame
<1>4. \A o \in Objs : Idx(making'.locals, o) = {} /\ Idx(making'.ops, o) = {}
  <2>1. DOMAIN <<>> = {}
    BY EmptySeq
  <2> QED
    BY <1>3, <2>1, ObjsAssumption, UnsetAssumption DEF Idx
<1>5. \A o \in Objs : Of(making', o) = 0
  BY <1>4, FS_EmptySet DEF Of
<1>6. Counts'
  <2> SUFFICES ASSUME NEW o \in Objs
               PROVE  heap.cnt[o] = In(frames, o) + 0 + held[o] + lost[o]
    BY <1>1, <1>5 DEF Counts
  <2> QED
    BY <1>1, CallStart
<1>7. Live' /\ HandNew'
  BY <1>1, CallStart DEF RInv, Live, HandNew
<1>8. ArgsLive'
  <2>1. PICK m \in 0 .. MaxArgs : args \in [1 .. m -> Known]
    BY <1>2 DEF SeqUpTo
  <2>2. \A k \in DOMAIN args : args[k] \in heap.live \cup Uncounted
    BY <1>1, <2>1, Between
  <2> QED
    BY <1>1, <1>3, <2>2 DEF ArgsLive
<1> QED
  BY <1>1, <1>6, <1>7, <1>8 DEF RInv

\* What is overwritten when an argument is stored is unset.
LEMMA NextUnset ==
  ASSUME IInv, making.next <= Len(making.args), making.at <= Len(making.locals)
  PROVE  making.at \in DOMAIN making.locals /\ making.locals[making.at] = Unset
<1> DEFINE m == making
           Index(n) == n + Extra(m, n)
<1>1. /\ m \in MakingSet /\ m.next \in Nat \ {0} /\ m.at \in Nat \ {0}
      /\ m.locals \in Seq(Ref \cup {Unset})
  BY DEF IInv, Shapes, MakingSet
<1>2. m.at \in DOMAIN m.locals
  BY <1>1, LenProperties
<1>3. /\ m.at = Index(m.next)
      /\ \A l \in DOMAIN m.locals \ {Index(n) : n \in 1 .. m.next - 1} :
           m.locals[l] = Unset
  BY PlacedIs DEF IInv, AtNext, Placed
<1>4. \A n \in 1 .. m.next - 1 : Extra(m, n) <= Extra(m, m.next)
                                 /\ Extra(m, n) \in Nat /\ Extra(m, m.next) \in Nat
  <2>1. \A k \in 1 .. m.next : Cardinality(WideOf(m.args, k)) \in Nat
    BY <1>1, WideSteps
  <2> QED
    BY <1>1, <2>1, WideSteps DEF Extra
<1>5. m.at \notin {Index(n) : n \in 1 .. m.next - 1}
  <2> SUFFICES ASSUME NEW n \in 1 .. m.next - 1 PROVE m.at # Index(n)
    OBVIOUS
  <2> QED
    BY <1>1, <1>3, <1>4
<1> QED
  BY <1>2, <1>3, <1>5

LEMMA SetArgRInv ==
  ASSUME IInv, RInv, SetArg
  PROVE  RInv'
<1> DEFINE m == making
           v == m.args[m.next]
           ls == [m.locals EXCEPT ![m.at] = v]
<1>1. /\ m \in MakingSet /\ m.next \in Nat \ {0} /\ m.next <= Len(m.args)
      /\ m.at <= Len(m.locals)
      /\ heap' = RefTo(heap, v)
      /\ UNCHANGED <<frames, blocks, hand, held, lost, pc>>
      /\ m.args \in Seq(Ref) /\ m.locals \in Seq(Ref \cup {Unset})
      /\ m.ops = <<>>
  BY DEF SetArg, IInv, Shapes, MakingSet
<1>2. making'.locals = ls /\ making'.ops = m.ops /\ making'.args = m.args
  BY <1>1 DEF SetArg, MakingSet
<1>3. m.next \in DOMAIN m.args /\ v \in Ref
  BY <1>1, LenProperties, ElementOfSeq
<1>4. m.at \in DOMAIN m.locals /\ m.locals[m.at] = Unset
  BY <1>1, NextUnset
<1>5. v \in Objs => v \in heap.live
  BY <1>3, ObjsAssumption, UnsetAssumption DEF RInv, ArgsLive
<1> HIDE DEF v
<1>6. /\ heap' \in Heaps /\ heap'.live = heap.live
      /\ \A p \in Objs : heap'.cnt[p] = heap.cnt[p] + IF v = p THEN 1 ELSE 0
  BY <1>1, RefEffect DEF RInv
<1>7. \A p \in Objs : Of(making', p) = Of(m, p) + IF v = p THEN 1 ELSE 0
  <2> SUFFICES ASSUME NEW p \in Objs
               PROVE  Of(making', p) = Of(m, p) + IF v = p THEN 1 ELSE 0
    OBVIOUS
  <2>1. Unset # p
    BY ObjsAssumption, UnsetAssumption
  <2>2. Cardinality(Idx(ls, p)) + (IF m.locals[m.at] = p THEN 1 ELSE 0) =
          Cardinality(Idx(m.locals, p)) + IF v = p THEN 1 ELSE 0
    BY <1>1, <1>3, <1>4, IdxExcept
  <2>3. /\ ls \in Seq(Ref \cup {Unset}) /\ <<>> \in Seq(Ref)
    BY <1>1, <1>3, <1>4, ExceptSeq, LenProperties, EmptySeq
  <2>4. /\ Cardinality(Idx(ls, p)) \in Nat /\ Cardinality(Idx(m.locals, p)) \in Nat
        /\ Cardinality(Idx(m.ops, p)) \in Nat
    BY <1>1, <2>3, IdxFinite
  <2> HIDE DEF ls
  <2>5. Cardinality(Idx(ls, p)) =
          Cardinality(Idx(m.locals, p)) + IF v = p THEN 1 ELSE 0
    BY <1>4, <2>1, <2>2, <2>4
  <2> QED
    BY <1>2, <2>4, <2>5 DEF Of
<1>8. Counts'
  <2> SUFFICES ASSUME NEW p \in Objs
               PROVE  heap'.cnt[p] =
                        In(frames, p) + Of(making', p) + held[p] + lost[p]
    BY <1>1 DEF Counts
  <2>1. /\ heap.cnt[p] = In(frames, p) + Of(m, p) + held[p] + lost[p]
        /\ In(frames, p) \in Nat /\ Of(m, p) \in Nat
        /\ held[p] \in Nat /\ lost[p] \in Nat
    BY RSizes DEF RInv, Counts
  <2> DEFINE x == IF v = p THEN 1 ELSE 0
  <2>2. /\ x \in Nat /\ heap'.cnt[p] = heap.cnt[p] + x
        /\ Of(making', p) = Of(m, p) + x
    BY <1>6, <1>7
  <2> HIDE DEF x
  <2> QED
    BY <2>1, <2>2
<1>9. Live'
  <2> SUFFICES ASSUME NEW p \in Objs
               PROVE  p \in heap'.live <=> heap'.cnt[p] > 0 \/ p = hand
    BY <1>1 DEF Live
  <2>1. /\ p \in heap.live <=> heap.cnt[p] > 0 \/ p = hand
        /\ heap.cnt[p] \in Nat
    BY RSizes DEF RInv, Live
  <2>2. CASE v = p
    BY <1>5, <1>6, <2>1, <2>2
  <2>3. CASE v # p
    BY <1>6, <2>1, <2>3
  <2> QED
    BY <2>2, <2>3
<1>10. HandNew'
  <2> SUFFICES ASSUME hand \in Objs, heap'.cnt[hand] > 0
               PROVE  Idx(ls, hand) # {}
    BY <1>1, <1>2 DEF HandNew
  <2>1. CASE v = hand
    <3>1. m.at \in Idx(ls, hand)
      BY <1>4, <2>1 DEF Idx
    <3> QED
      BY <3>1
  <2>2. CASE v # hand
    <3>1. heap.cnt[hand] > 0
      BY <1>6, <2>2, RSizes
    <3>2. PICK k \in DOMAIN m.locals : m.locals[k] = hand
      BY <3>1 DEF RInv, HandNew, Idx
    <3>3. k # m.at
      BY <1>4, <3>2, ObjsAssumption, UnsetAssumption
    <3>4. k \in Idx(ls, hand)
      BY <3>2, <3>3 DEF Idx
    <3> QED
      BY <3>4
  <2> QED
    BY <2>1, <2>2
<1>11. ArgsLive'
  BY <1>2, <1>6 DEF RInv, ArgsLive
<1>12. held' \in [Objs -> 0 .. MaxHeld] /\ lost' \in [Objs -> Nat]
  BY <1>1 DEF RInv
<1> QED
  BY <1>6, <1>8, <1>9, <1>10, <1>11, <1>12 DEF RInv

\* The frame is made: each argument is in one of its locals, and nothing else.
LEMMA AllArgs ==
  ASSUME IInv, making.next > Len(making.args), NEW o, o # Unset
  PROVE  o \in ToSet(making.args) <=> Idx(making.locals, o) # {}
<1>1. /\ making.args \in Seq(Ref) /\ Len(making.args) \in Nat
      /\ DOMAIN making.args = 1 .. Len(making.args)
      /\ making.next \in Nat \ {0}
  BY LenProperties DEF IInv, Shapes, MakingSet
<1>2. 1 .. making.next - 1 = DOMAIN making.args
  BY <1>1 DEF IInv, NextInArgs
<1> DEFINE Index(n) == n + Extra(making, n)
<1>3. /\ \A n \in DOMAIN making.args :
           /\ Index(n) \in DOMAIN making.locals
           /\ making.locals[Index(n)] = making.args[n]
      /\ \A l \in DOMAIN making.locals \ {Index(n) : n \in DOMAIN making.args} :
           making.locals[l] = Unset
  BY <1>2, PlacedIs DEF IInv, Placed
<1> HIDE DEF Index
<1>4. o \in ToSet(making.args) <=> \E n \in DOMAIN making.args : making.args[n] = o
  BY DEF ToSet
<1> QED
  BY <1>3, <1>4 DEF Idx

LEMMA PushRInv ==
  ASSUME IInv, RInv, PushFrame
  PROVE  RInv'
<1>1. /\ UNCHANGED <<heap, held, lost>> /\ making' = NoFrame
      /\ frames' = Append(frames, Frame(making))
      /\ making.next > Len(making.args)
      /\ hand' = IF hand \in ToSet(making.args) THEN Unset ELSE hand
      /\ making \in MakingSet /\ making.kind \in {Code, Native}
      /\ frames \in Seq(FrameSet) /\ hand \in Objs \cup {Unset}
  BY DEF PushFrame, Goto, IInv, Shapes, Stage, Stored
<1>2. Frame(making) \in FrameSet
  <2>1. making.ops \in Seq(Ref)
    BY <1>1, EmptySeq DEF MakingSet
  <2> QED
    BY <1>1, <2>1 DEF Frame, FrameSet, MakingSet
<1>3. \A o \in Objs : In(frames', o) = In(frames, o) + Of(making, o)
  <2>1. \A o : Of(Frame(making), o) = Of(making, o)
    BY DEF Frame, Of
  <2> QED
    BY <1>1, <1>2, <2>1, InAppend
<1>4. Counts'
  <2> SUFFICES ASSUME NEW o \in Objs
               PROVE  heap.cnt[o] = In(frames', o) + 0 + held[o] + lost[o]
    BY <1>1, NoFrameOf DEF Counts
  <2> QED
    BY <1>3, RSizes DEF RInv, Counts
<1>5. ASSUME NEW o \in Objs
      PROVE  o \in ToSet(making.args) => heap.cnt[o] > 0
  <2> SUFFICES ASSUME o \in ToSet(making.args) PROVE heap.cnt[o] > 0
    OBVIOUS
  <2>1. Idx(making.locals, o) # {}
    BY <1>1, AllArgs, ObjsAssumption, UnsetAssumption
  <2>2. making.locals \in Seq(Ref \cup {Unset}) /\ making.ops \in Seq(Ref)
    BY <1>1, EmptySeq DEF MakingSet
  <2>3. Of(making, o) > 0
    BY <2>1, <2>2, OfNat
  <2> QED
    BY <2>3, RSizes DEF RInv, Counts
<1>6. hand \in Objs /\ heap.cnt[hand] > 0 => hand \in ToSet(making.args)
  BY <1>1, AllArgs, ObjsAssumption, UnsetAssumption DEF RInv, HandNew
<1>7. Live'
  BY <1>1, <1>5, ObjsAssumption, UnsetAssumption DEF RInv, Live
<1>8. HandNew'
  BY <1>1, <1>6, ObjsAssumption, UnsetAssumption DEF HandNew
<1>9. ArgsLive'
  BY <1>1, NoFrameOf DEF ArgsLive
<1> QED
  BY <1>1, <1>4, <1>7, <1>8, <1>9 DEF RInv

LEMMA ErrRInv ==
  ASSUME IInv, RInv, Err
  PROVE  RInv'
<1>1. /\ UNCHANGED <<heap, frames, held>> /\ making' = NoFrame
      /\ lost' = [o \in Objs |-> lost[o] + Counted(making, o)]
      /\ hand' = IF hand \in ToSet(making.locals) THEN Unset ELSE hand
      /\ making.locals \in Seq(Ref \cup {Unset}) /\ making.ops = <<>>
  BY DEF Err, Goto, IInv, Shapes, MakingSet, Stored
<1>2. \A o \in Objs : Counted(making, o) = Of(making, o)
  <2> SUFFICES ASSUME NEW o \in Objs PROVE Counted(making, o) = Of(making, o)
    OBVIOUS
  <2>1. Idx(making.ops, o) = {}
    BY <1>1, EmptySeq DEF Idx
  <2>2. Cardinality(Idx(making.locals, o)) \in Nat
    BY <1>1, IdxFinite
  <2>3. Counted(making, o) = Cardinality(Idx(making.locals, o))
    BY DEF Counted, Idx
  <2> QED
    BY <2>1, <2>2, <2>3, FS_EmptySet DEF Of
<1>3. lost' \in [Objs -> Nat] /\ \A o \in Objs : lost'[o] = lost[o] + Of(making, o)
  BY <1>1, <1>2, RSizes
<1>4. Counts'
  <2> SUFFICES ASSUME NEW o \in Objs
               PROVE  heap.cnt[o] = In(frames, o) + 0 + held[o] + lost'[o]
    BY <1>1, NoFrameOf DEF Counts
  <2> QED
    BY <1>3, RSizes DEF RInv, Counts
<1>5. \A o : o \in ToSet(making.locals) <=> Idx(making.locals, o) # {}
  BY DEF ToSet, Idx
<1>6. ASSUME NEW o \in Objs, o \in ToSet(making.locals)
      PROVE  heap.cnt[o] > 0
  <2>1. making.ops \in Seq(Ref)
    BY <1>1, EmptySeq
  <2>2. Of(making, o) > 0
    BY <1>1, <1>5, <1>6, <2>1, OfNat
  <2> QED
    BY <2>2, RSizes DEF RInv, Counts
<1>7. Live'
  BY <1>1, <1>6, ObjsAssumption, UnsetAssumption DEF RInv, Live
<1>8. HandNew'
  BY <1>1, <1>5, ObjsAssumption, UnsetAssumption DEF RInv, HandNew
<1>9. ArgsLive'
  BY <1>1, NoFrameOf DEF ArgsLive
<1> QED
  BY <1>1, <1>3, <1>4, <1>7, <1>8, <1>9 DEF RInv

LEMMA InitRInv == Init => RInv
<1> SUFFICES ASSUME Init PROVE RInv
  OBVIOUS
<1>1. /\ heap = [live |-> {}, cnt |-> [o \in Objs |-> 0]] /\ frames = <<>>
      /\ making = NoFrame /\ hand = Unset
      /\ held = [o \in Objs |-> 0] /\ lost = [o \in Objs |-> 0]
  BY DEF Init
<1>2. /\ heap \in Heaps /\ lost \in [Objs -> Nat]
      /\ held \in [Objs -> 0 .. MaxHeld]
  BY <1>1, BoundsAssumption DEF Heaps
<1>3. \A o : In(frames, o) = 0
  <2>1. \A o : Places(LocalsOf(frames), o) = {} /\ Places(OpsOf(frames), o) = {}
    <3>1. DOMAIN <<>> = {}
      BY EmptySeq
    <3> QED
      BY <1>1, <3>1 DEF Places, LocalsOf, OpsOf
  <2> QED
    BY <2>1, FS_EmptySet DEF In
<1>4. \A o \in Objs : heap.cnt[o] = 0 /\ held[o] = 0 /\ lost[o] = 0
  BY <1>1
<1>5. Counts
  BY <1>1, <1>3, <1>4, NoFrameOf DEF Counts
<1>6. Live /\ HandNew /\ ArgsLive
  BY <1>1, <1>4, ObjsAssumption, UnsetAssumption, NoFrameOf
     DEF Live, HandNew, ArgsLive
<1> QED
  BY <1>2, <1>5, <1>6 DEF RInv

LEMMA NextRInv == IInv /\ RInv /\ [Next]_vars => RInv'
<1> SUFFICES ASSUME IInv, RInv, [Next]_vars PROVE RInv'
  OBVIOUS
<1>1. CASE \/ CreateStackMgr \/ ReleaseStackMgr \/ CreateStack \/ AllocFrames
           \/ AllocFramesFails \/ Refused \/ SetArgFails \/ ReleaseStack
           \/ ReleaseDone
  <2>1. UNCHANGED <<heap, frames, making, hand, held, lost>>
    BY <1>1 DEF CreateStackMgr, ReleaseStackMgr, CreateStack, AllocFrames,
                AllocFramesFails, Refused, SetArgFails, ReleaseStack,
                ReleaseDone, Account
  <2> QED
    BY <2>1, KeepRInv
<1>2. CASE AllocLocals \/ AllocOps
  <2>1. making \in MakingSet
    BY DEF IInv, Shapes
  <2>2. /\ UNCHANGED <<heap, frames, hand, held, lost>>
        /\ \E w : making' = [making EXCEPT !.got = @ \cup {w}]
    BY <1>2 DEF AllocLocals, AllocOps
  <2>3. /\ making'.locals = making.locals /\ making'.ops = making.ops
        /\ making'.args = making.args
    BY <2>1, <2>2 DEF MakingSet
  <2> QED
    BY <2>2, <2>3, KeepRInv
<1>3. CASE UNCHANGED vars
  BY <1>3, KeepRInv DEF vars
<1> QED
  BY <1>1, <1>2, <1>3, AllocHeapRInv, UnrefRInv, CreateRInv, SetArgRInv,
     PushRInv, ErrRInv, PopRInv, OpPushRInv, OpPopRInv, SetLocalRInv DEF Next

LEMMA AlwaysRInv == Spec => [](IInv /\ RInv)
<1>1. Init => IInv /\ RInv
  BY InitIInv, InitRInv
<1>2. IInv /\ RInv /\ [Next]_vars => IInv' /\ RInv'
  BY NextIInv, NextRInv
<1> QED
  BY <1>1, <1>2, PTL DEF Spec

\* An object's count is the number of places that refer to it, whatever calls
\* fail; what nothing refers to is gone, or was just made.
THEOREM StackCountsExact == Spec => []CountsExact
<1>1. IInv /\ RInv => CountsExact
  <2> SUFFICES ASSUME IInv, RInv, NEW o \in heap.live
               PROVE  /\ heap.cnt[o] =
                           Cardinality(Locals(o)) + Cardinality(Operands(o))
                             + held[o] + lost[o]
                      /\ heap.cnt[o] = 0 => hand = o
    BY DEF CountsExact
  <2>1. o \in Objs
    BY DEF RInv, Heaps
  <2>2. Cardinality(Locals(o)) + Cardinality(Operands(o)) =
          In(frames, o) + Of(making, o)
    BY PlacesSplit DEF IInv
  <2>3. heap.cnt[o] = In(frames, o) + Of(making, o) + held[o] + lost[o]
    BY <2>1 DEF RInv, Counts
  <2>4. heap.cnt[o] = 0 => hand = o
    BY <2>1 DEF RInv, Live
  <2> QED
    BY <2>2, <2>3, <2>4
<1> QED
  BY <1>1, AlwaysRInv, PTL

\* What a frame or the program refers to is never freed.
THEOREM StackNoDangling == Spec => []NoDangling
<1>1. IInv /\ RInv => NoDangling
  <2> SUFFICES ASSUME IInv, RInv PROVE NoDangling
    OBVIOUS
  <2>1. ASSUME NEW o \in Objs, Locals(o) # {} \/ Operands(o) # {}
        PROVE  o \in heap.live
    <3>1. In(frames, o) + Of(making, o) > 0
      BY <2>1, PlacesSplit DEF IInv
    <3> QED
      BY <3>1, RSizes DEF RInv, Counts, Live
  <2>2. ASSUME NEW o \in Objs, held[o] > 0
        PROVE  o \in heap.live
    BY <2>2, RSizes DEF RInv, Counts, Live
  <2>3. hand # Unset => hand \in heap.live
    BY DEF RInv, Live, IInv, Shapes
  <2> QED
    BY <2>1, <2>2, <2>3 DEF NoDangling
<1> QED
  BY <1>1, AlwaysRInv, PTL

-----------------------------------------------------------------------------
(* Types: frames and operands stay within their capacity *)

LEMMA InitFits == Init => Fits
<1> SUFFICES ASSUME Init PROVE Fits
  OBVIOUS
<1>1. frames = <<>> /\ Len(<<>>) = 0 /\ DOMAIN <<>> = {} /\ pc = "unmade"
  BY EmptySeq DEF Init
<1> QED
  BY <1>1, BoundsAssumption DEF Fits

LEMMA NextFits == IInv /\ Fits /\ [Next]_vars => Fits'
<1> SUFFICES ASSUME IInv, Fits, [Next]_vars PROVE Fits'
  OBVIOUS
<1>0. /\ frames \in Seq(FrameSet) /\ Len(frames) \in Nat /\ FrameCap \in Nat
      /\ DOMAIN frames = 1 .. Len(frames)
      /\ \A i \in DOMAIN frames : frames[i] \in FrameSet
  BY ElementOfSeq, LenProperties, BoundsAssumption DEF IInv, Shapes
<1>1. CASE \/ CreateStackMgr \/ ReleaseStackMgr \/ CreateStack \/ AllocFrames
           \/ AllocFramesFails \/ Refused \/ SetArgFails \/ ReleaseStack
           \/ ReleaseDone \/ CreateFrame \/ AllocLocals \/ AllocOps \/ Err
  <2>1. /\ UNCHANGED frames
        /\ pc' \in {"locals", "ops", "args"} =>
             pc \in {"locals", "ops"} \/ Len(frames) < FrameCap
        /\ pc' \in {"caller", "locals", "ops", "args", "err", "release",
                   "unmade", "mgr", "frames", "gone"}
    BY <1>1 DEF CreateStackMgr, ReleaseStackMgr, CreateStack, AllocFrames,
                AllocFramesFails, Refused, SetArgFails, ReleaseStack,
                ReleaseDone, Account, Goto, CreateFrame, AllocLocals, AllocOps,
                Err
  <2> QED
    BY <2>1 DEF Fits
<1>2. CASE \/ AllocHeap \/ Unref \/ SetArg \/ UNCHANGED vars
  BY <1>2 DEF Fits, AllocHeap, Unref, SetArg, vars
<1>3. CASE PushFrame
  <2>1. /\ frames' = Append(frames, Frame(making)) /\ pc = "args"
        /\ pc' = "caller"
    BY <1>3 DEF PushFrame, Goto
  <2>2. making.ops = <<>> /\ making.cap \in Nat /\ Len(<<>>) = 0
    BY EmptySeq DEF IInv, Shapes, MakingSet
  <2>3. /\ Len(frames') = Len(frames) + 1 /\ DOMAIN frames' = 1 .. Len(frames) + 1
        /\ \A i \in DOMAIN frames : frames'[i] = frames[i]
        /\ frames'[Len(frames) + 1] = Frame(making)
    BY <1>0, <2>1, AppendProperties
  <2>4. Frame(making).ops = <<>> /\ Frame(making).cap = making.cap
    BY <2>2 DEF Frame
  <2>5. \A i \in DOMAIN frames' : Len(frames'[i].ops) <= frames'[i].cap
    BY <1>0, <2>2, <2>3, <2>4 DEF Fits
  <2> QED
    BY <1>0, <2>1, <2>3, <2>5 DEF Fits
<1>4. CASE FramePop \/ ReleaseFrame
  <2>1. /\ frames' = Front(frames) /\ frames # <<>> /\ pc' = pc
        /\ pc \in {"caller", "release"}
    BY <1>4 DEF FramePop, ReleaseFrame, PopTop
  <2>2. /\ Len(frames') = Len(frames) - 1 /\ DOMAIN frames' = 1 .. Len(frames) - 1
        /\ \A i \in 1 .. Len(frames) - 1 : frames'[i] = frames[i]
    BY <1>0, <2>1, FrontProps
  <2> QED
    BY <1>0, <2>1, <2>2 DEF Fits
<1>5. CASE OpPush
  <2>1. PICK i \in DOMAIN frames, v \in Known :
          /\ Len(frames[i].ops) < frames[i].cap
          /\ frames' = [frames EXCEPT ![i].ops = Append(@, v)]
          /\ pc' = pc /\ pc = "caller"
    BY <1>5 DEF OpPush
  <2>2. frames[i].ops \in Seq(Ref) /\ frames[i].cap \in Nat /\ v \in Ref
    BY <1>0, KnownRef DEF FrameSet
  <2>3. /\ Len(Append(frames[i].ops, v)) = Len(frames[i].ops) + 1
        /\ Len(frames[i].ops) \in Nat
    BY <2>2, AppendProperties, LenProperties
  <2>4. /\ DOMAIN frames' = DOMAIN frames /\ frames'[i].cap = frames[i].cap
        /\ frames'[i].ops = Append(frames[i].ops, v)
        /\ \A j \in DOMAIN frames \ {i} : frames'[j] = frames[j]
    BY <1>0, <2>1 DEF FrameSet
  <2>5. Len(frames') = Len(frames)
    BY <1>0, <2>1, ExceptSeq
  <2>6. \A j \in DOMAIN frames' : Len(frames'[j].ops) <= frames'[j].cap
    BY <2>1, <2>2, <2>3, <2>4 DEF Fits
  <2> QED
    BY <2>1, <2>5, <2>6 DEF Fits
<1>6. CASE OpPop \/ OpPopKeep
  <2>1. PICK i \in DOMAIN frames :
          /\ frames[i].ops # <<>>
          /\ frames' = [frames EXCEPT ![i].ops = Front(@)]
          /\ pc' = pc /\ pc = "caller"
    BY <1>6 DEF OpPop, OpPopKeep
  <2>2. frames[i].ops \in Seq(Ref) /\ frames[i].cap \in Nat
    BY <1>0 DEF FrameSet
  <2>3. /\ Len(Front(frames[i].ops)) = Len(frames[i].ops) - 1
        /\ Len(frames[i].ops) \in Nat
    BY <2>1, <2>2, FrontProps
  <2>4. /\ DOMAIN frames' = DOMAIN frames /\ frames'[i].cap = frames[i].cap
        /\ frames'[i].ops = Front(frames[i].ops)
        /\ \A j \in DOMAIN frames \ {i} : frames'[j] = frames[j]
    BY <1>0, <2>1 DEF FrameSet
  <2>5. Len(frames') = Len(frames)
    BY <1>0, <2>1, ExceptSeq
  <2>6. \A j \in DOMAIN frames' : Len(frames'[j].ops) <= frames'[j].cap
    BY <2>2, <2>3, <2>4 DEF Fits
  <2> QED
    BY <2>1, <2>5, <2>6 DEF Fits
<1>7. CASE SetLocal
  <2>1. PICK i \in DOMAIN frames, v \in Known : \E l \in DOMAIN frames[i].locals :
          /\ frames' = [frames EXCEPT ![i].locals[l] = v]
          /\ pc' = pc /\ pc = "caller"
    BY <1>7 DEF SetLocal
  <2>2. PICK l \in DOMAIN frames[i].locals :
          frames' = [frames EXCEPT ![i].locals[l] = v]
    BY <2>1
  <2>3. /\ DOMAIN frames' = DOMAIN frames /\ frames'[i].cap = frames[i].cap
        /\ frames'[i].ops = frames[i].ops
        /\ \A j \in DOMAIN frames \ {i} : frames'[j] = frames[j]
    BY <1>0, <2>2 DEF FrameSet
  <2>4. Len(frames') = Len(frames)
    BY <1>0, <2>2, ExceptSeq
  <2> QED
    BY <2>1, <2>3, <2>4 DEF Fits
<1> QED
  BY <1>1, <1>2, <1>3, <1>4, <1>5, <1>6, <1>7 DEF Next

\* Every variable has its type; frames and operands never exceed their
\* capacity.
THEOREM StackTypeOK == Spec => []TypeOK
<1>1. IInv /\ RInv /\ Fits => TypeOK
  <2> SUFFICES ASSUME IInv, RInv, Fits PROVE TypeOK
    OBVIOUS
  <2>1. blocks \in Nat
    <3>1. Total \in Nat
      BY SizesNat DEF IInv, Total
    <3> QED
      BY <3>1, Balance DEF IInv
  <2>2. \A i \in DOMAIN frames :
          LET f == frames[i] IN
          /\ f.kind \in {Code, Native}
          /\ f.locals \in Seq(Ref \cup {Unset})
          /\ f.ops \in Seq(Ref) /\ Len(f.ops) <= f.cap
    <3>1. \A i \in DOMAIN frames : frames[i] \in FrameSet
      BY ElementOfSeq, LenProperties DEF IInv, Shapes
    <3> QED
      BY <3>1 DEF Fits, FrameSet
  <2>3. /\ making.kind \in {"none", Code, Native}
        /\ making.locals \in Seq(Ref \cup {Unset})
        /\ making.got \subseteq {"frame", "locals", "ops"}
        /\ hand \in Objs \cup {Unset}
    BY DEF IInv, Shapes, MakingSet
  <2>4. /\ heap.live \subseteq Objs /\ heap.cnt \in [Objs -> Nat]
        /\ held \in [Objs -> 0 .. MaxHeld] /\ lost \in [Objs -> Nat]
    BY DEF RInv, Heaps
  <2> QED
    BY <2>1, <2>2, <2>3, <2>4 DEF TypeOK, Fits
<1>2. Init => IInv /\ RInv /\ Fits
  BY InitIInv, InitRInv, InitFits
<1>3. (IInv /\ RInv /\ Fits) /\ [Next]_vars => (IInv /\ RInv /\ Fits)'
  BY NextIInv, NextRInv, NextFits
<1> QED
  BY <1>1, <1>2, <1>3, PTL DEF Spec
=============================================================================
