------------------------------ MODULE NvmStack ------------------------------
(***************************************************************************)
(* The stack of a VM thread (src/src/stack.c): frames with their local     *)
(* variables and operand stacks, and the references they count.  A stack   *)
(* belongs to one thread.  The construction of a frame is a step for each  *)
(* allocation and each argument, so that each error path is followed from  *)
(* where it leaves; the other calls are one step.                          *)
(*                                                                         *)
(* The objects here hold no references themselves (module NvmHeap is about *)
(* those).  The program gets pointers, and gives up what it was given.     *)
(***************************************************************************)
EXTENDS Integers, Sequences, SequencesExt, FiniteSets

CONSTANTS
  Objs,       \* places of the heap an object can be in
  Uncounted,  \* the null object and the shared zeros: never counted or freed
  Wide,       \* long and double values, the zeros of these types among them
  Unset,      \* NULL
  FrameCap,   \* stack->frame_cap
  Methods,    \* <<meth->max_locals, meth->max_stack>> of methods with code
  MaxArgs,    \* bound: arguments of a call
  MaxHeld,    \* bound: references to one object that the program keeps
  MaxCount    \* bound: references to one object when a frame is made

ASSUME ObjsAssumption == IsFiniteSet(Objs) /\ Objs \cap Uncounted = {}
ASSUME WideAssumption == Wide \subseteq Objs \cup Uncounted
ASSUME UnsetAssumption == Unset \notin Objs \cup Uncounted
ASSUME BoundsAssumption ==
  /\ Methods \subseteq Nat \X Nat
  /\ {FrameCap, MaxArgs, MaxHeld, MaxCount} \subseteq Nat

VARIABLES
  heap,    \* heap.live: objects that are allocated; heap.cnt[o]: o->cnt
  frames,  \* stack->frames
  making,  \* the frame that NanoVM_create_frame is making, or NoFrame
  blocks,  \* blocks of memory that the stack has from NanoVM_alloc
  hand,    \* an object that the program allocated and not yet passed on
  held,    \* held[o]: references that the program owns
  lost,    \* lost[o]: references of frames that could not be made
  pc       \* what comes next

vars == <<heap, frames, making, blocks, hand, held, lost, pc>>

Ref == Objs \cup Uncounted

SeqUpTo(S, n) == UNION {[1 .. m -> S] : m \in 0 .. n}

Code == "code"
Native == "native"

NoFrame == [kind |-> "none", locals |-> <<>>, ops |-> <<>>, cap |-> 0,
            args |-> <<>>, next |-> 1, at |-> 1, got |-> {}]

Goto(from, to) == pc = from /\ pc' = to

\* Before the stack manager is made.
Init ==
  /\ heap = [live |-> {}, cnt |-> [o \in Objs |-> 0]]
  /\ frames = <<>>
  /\ making = NoFrame
  /\ blocks = 0
  /\ hand = Unset
  /\ held = [o \in Objs |-> 0]
  /\ lost = [o \in Objs |-> 0]
  /\ pc = "unmade"

-----------------------------------------------------------------------------
(* NanoVM_create_stack_mgr, NanoVM_create_stack and their release *)

\* A call of the program's that takes n blocks, or gives -n of them back.
Account(from, to, n) ==
  /\ Goto(from, to)
  /\ blocks' = blocks + n
  /\ UNCHANGED <<heap, frames, making, hand, held, lost>>

CreateStackMgr == Account("unmade", "mgr", 1)

ReleaseStackMgr == Account("mgr", "gone", -1)

\* The stack, then its array of frames.  When there is no memory for the
\* first nothing changes.
CreateStack == Account("mgr", "frames", 1)

AllocFrames == Account("frames", "caller", 1)

AllocFramesFails == Account("frames", "mgr", -1)

-----------------------------------------------------------------------------
(* NanoVM_ref and NanoVM_unref *)

RefTo(h, o) == IF o \in Objs THEN [h EXCEPT !.cnt[o] = @ + 1] ELSE h

UnrefTo(h, o) ==
  CASE o \notin Objs -> h
    [] o \in Objs /\ h.cnt[o] \in {0, 1} ->
         [live |-> h.live \ {o}, cnt |-> [h.cnt EXCEPT ![o] = 0]]
    [] OTHER -> [h EXCEPT !.cnt[o] = @ - 1]

\* UnrefTo of each value of s, one after the other: an object loses as many
\* references as it has places in s, and goes with its last one.
UnrefAll(h, s) ==
  LET n(o) == Cardinality({i \in DOMAIN s : s[i] = o}) IN
  [live |-> {o \in h.live : n(o) = 0 \/ h.cnt[o] > n(o)},
   cnt |-> [o \in Objs |-> IF h.cnt[o] > n(o) THEN h.cnt[o] - n(o) ELSE 0]]

-----------------------------------------------------------------------------
(* What the program does with objects *)

InFrame(f, o) ==
  \/ \E i \in DOMAIN f.locals : f.locals[i] = o
  \/ \E i \in DOMAIN f.ops : f.ops[i] = o

\* The values that the program can pass.
Known ==
  Uncounted \cup {o \in Objs : \/ o = hand \/ held[o] > 0
                              \/ \E i \in DOMAIN frames : InFrame(frames[i], o)}

\* The object in hand was stored: it has a counted reference now.
Stored(S) == hand' = IF hand \in S THEN Unset ELSE hand

AllocHeap ==
  /\ pc = "caller" /\ hand = Unset
  /\ \E o \in Objs \ heap.live :
       /\ heap' = [live |-> heap.live \cup {o},
                   cnt |-> [heap.cnt EXCEPT ![o] = 0]]
       /\ hand' = o
  /\ UNCHANGED <<frames, making, blocks, held, lost, pc>>

\* NanoVM_unref of the object in hand, or of a reference the program owns.
Unref ==
  /\ pc = "caller"
  /\ \/ /\ hand # Unset
        /\ heap' = UnrefTo(heap, hand)
        /\ hand' = Unset
        /\ UNCHANGED held
     \/ \E o \in Objs :
          /\ held[o] > 0
          /\ heap' = UnrefTo(heap, o)
          /\ held' = [held EXCEPT ![o] = @ - 1]
          /\ UNCHANGED hand
  /\ UNCHANGED <<frames, making, blocks, lost, pc>>

-----------------------------------------------------------------------------
(* NanoVM_create_frame *)

\* Mutant: a shared zero takes one local, whatever its type.
WidthOfCounted(o) == IF o \in Wide \cap Objs THEN 2 ELSE 1

\* Long and double values take two locals, the shared zeros of these types too.
Width(o) == IF o \in Wide THEN 2 ELSE 1

NewFrame(kind, args, locals, cap) ==
  [NoFrame EXCEPT !.kind = kind, !.args = args, !.cap = cap, !.got = {"frame"},
                  !.locals = [i \in 1 .. locals |-> Unset]]

\* With FrameCap frames there is an overflow, and nothing changes; otherwise
\* NanoVM_alloc gives a block for the frame, or the call fails.
CreateFrame ==
  /\ Goto("caller", "locals")
  /\ Len(frames) < FrameCap
  /\ \A o \in Objs : heap.cnt[o] < MaxCount
  /\ \E args \in SeqUpTo(Known, MaxArgs) :
       \/ \E m \in Methods : making' = NewFrame(Code, args, m[1], m[2])
       \/ making' = NewFrame(Native, args, Len(args), 0)
  /\ blocks' = blocks + 1
  /\ UNCHANGED <<heap, frames, hand, held, lost>>

AllocLocals ==
  /\ Goto("locals", IF making.kind = Code THEN "ops" ELSE "args")
  /\ making' = [making EXCEPT !.got = @ \cup {"locals"}]
  /\ blocks' = blocks + 1
  /\ UNCHANGED <<heap, frames, hand, held, lost>>

AllocOps ==
  /\ Goto("ops", "args")
  /\ making' = [making EXCEPT !.got = @ \cup {"ops"}]
  /\ blocks' = blocks + 1
  /\ UNCHANGED <<heap, frames, hand, held, lost>>

\* NanoVM_alloc is refused, or a method that is not native has no code.
Refused == \E from \in {"locals", "ops"} : Account(from, "err", 0)

\* An argument is stored and ref'd.  A native method's go side by side.
SetArg ==
  /\ pc = "args"
  /\ making.next <= Len(making.args)
  /\ making.at <= Len(making.locals)
  /\ LET o == making.args[making.next]
         w == IF making.kind = Code THEN Width(o) ELSE 1
     IN
     /\ heap' = RefTo(heap, o)
     /\ making' = [making EXCEPT !.locals[making.at] = o, !.next = @ + 1,
                                 !.at = @ + w]
  /\ UNCHANGED <<frames, blocks, hand, held, lost, pc>>

\* NanoVM_set_local: the index is out of bounds.
SetArgFails ==
  /\ making.next <= Len(making.args)
  /\ making.at > Len(making.locals)
  /\ Account("args", "err", 0)

Frame(m) == [kind |-> m.kind, locals |-> m.locals, ops |-> m.ops, cap |-> m.cap]

PushFrame ==
  /\ Goto("args", "caller")
  /\ making.next > Len(making.args)
  /\ frames' = Append(frames, Frame(making))
  /\ making' = NoFrame
  /\ Stored(ToSet(making.args))
  /\ UNCHANGED <<heap, blocks, held, lost>>

Counted(f, o) == Cardinality({i \in DOMAIN f.locals : f.locals[i] = o})

\* Mutant: only the frame itself is freed.
ErrFrameOnly ==
  /\ Goto("err", "caller")
  /\ blocks' = blocks - 1
  /\ making' = NoFrame
  /\ lost' = [o \in Objs |-> lost[o] + Counted(making, o)]
  /\ Stored(ToSet(making.locals))
  /\ UNCHANGED <<heap, frames, held>>

\* err: the blocks that there are go, and with them the only record of the
\* references that the arguments stored so far had counted.
Err ==
  /\ Goto("err", "caller")
  /\ blocks' = blocks - Cardinality(making.got)
  /\ making' = NoFrame
  /\ lost' = [o \in Objs |-> lost[o] + Counted(making, o)]
  /\ Stored(ToSet(making.locals))
  /\ UNCHANGED <<heap, frames, held>>

-----------------------------------------------------------------------------
(* NanoVM_frame_pop *)

\* The frame, its locals and, unless it is native, its operand stack.
Blocks(f) == IF f.kind = Code THEN 3 ELSE 2

\* Mutant: the operands are not unref'd.
PopTopLocals ==
  LET f == Last(frames) IN
  /\ frames # <<>>
  /\ heap' = UnrefAll(heap, f.locals)
  /\ frames' = Front(frames)
  /\ blocks' = blocks - Blocks(f)

\* Locals, then operands, are unref'd.
PopTop ==
  LET f == Last(frames) IN
  /\ frames # <<>>
  /\ heap' = UnrefAll(heap, f.locals \o f.ops)
  /\ frames' = Front(frames)
  /\ blocks' = blocks - Blocks(f)

FramePop ==
  /\ pc = "caller"
  /\ PopTop
  /\ UNCHANGED <<making, hand, held, lost, pc>>

-----------------------------------------------------------------------------
(* The operand stack and the local variables of a frame *)

\* Mutant: one operand too many is let in.
OpPushOver ==
  /\ pc = "caller"
  /\ \E i \in DOMAIN frames, o \in Known :
       /\ Len(frames[i].ops) <= frames[i].cap
       /\ frames' = [frames EXCEPT ![i].ops = Append(@, o)]
       /\ heap' = RefTo(heap, o)
       /\ Stored({o})
  /\ UNCHANGED <<making, blocks, held, lost, pc>>

\* NanoVM_op_push; a full stack changes nothing.
OpPush ==
  /\ pc = "caller"
  /\ \E i \in DOMAIN frames, o \in Known :
       /\ Len(frames[i].ops) < frames[i].cap
       /\ frames' = [frames EXCEPT ![i].ops = Append(@, o)]
       /\ heap' = RefTo(heap, o)
       /\ Stored({o})
  /\ UNCHANGED <<making, blocks, held, lost, pc>>

\* NanoVM_op_pop(do_unref = 1): what is returned is not used any more.
OpPop ==
  /\ pc = "caller"
  /\ \E i \in DOMAIN frames :
       /\ frames[i].ops # <<>>
       /\ frames' = [frames EXCEPT ![i].ops = Front(@)]
       /\ heap' = UnrefTo(heap, Last(frames[i].ops))
  /\ UNCHANGED <<making, blocks, hand, held, lost, pc>>

\* NanoVM_op_pop(do_unref = 0): the reference is the program's from now on.
OpPopKeep ==
  /\ pc = "caller"
  /\ \E i \in DOMAIN frames :
       /\ frames[i].ops # <<>>
       /\ LET o == Last(frames[i].ops) IN
          /\ o \in Objs => held[o] < MaxHeld
          /\ held' = IF o \in Objs THEN [held EXCEPT ![o] = @ + 1] ELSE held
       /\ frames' = [frames EXCEPT ![i].ops = Front(@)]
  /\ UNCHANGED <<heap, making, blocks, hand, lost, pc>>

\* Mutant: the old value is unref'd before the new one is ref'd.
ReplaceUnrefFirst(h, new, old) == RefTo(UnrefTo(h, old), new)

\* "ref then unref, in case the input object is the same as the old object"
Replace(h, new, old) == UnrefTo(RefTo(h, new), old)

\* NanoVM_set_local; an index out of bounds changes nothing.
SetLocal ==
  /\ pc = "caller"
  /\ \E i \in DOMAIN frames, o \in Known :
       \E l \in DOMAIN frames[i].locals :
         /\ heap' = Replace(heap, o, frames[i].locals[l])
         /\ frames' = [frames EXCEPT ![i].locals[l] = o]
         /\ Stored({o})
  /\ UNCHANGED <<making, blocks, held, lost, pc>>

-----------------------------------------------------------------------------
(* NanoVM_release_stack: frames are popped until there is none *)

ReleaseStack == Account("caller", "release", 0)

ReleaseFrame ==
  /\ pc = "release"
  /\ PopTop
  /\ UNCHANGED <<making, hand, held, lost, pc>>

ReleaseDone == frames = <<>> /\ Account("release", "mgr", -2)

-----------------------------------------------------------------------------
Next ==
  \/ CreateStackMgr \/ ReleaseStackMgr
  \/ CreateStack \/ AllocFrames \/ AllocFramesFails
  \/ AllocHeap \/ Unref
  \/ CreateFrame \/ AllocLocals \/ AllocOps \/ Refused
  \/ SetArg \/ SetArgFails \/ PushFrame \/ Err
  \/ FramePop \/ OpPush \/ OpPop \/ OpPopKeep \/ SetLocal
  \/ ReleaseStack \/ ReleaseFrame \/ ReleaseDone

Spec == Init /\ [][Next]_vars

-----------------------------------------------------------------------------
(* Properties *)

\* Every variable has its type.
TypeOK ==
  /\ heap.live \subseteq Objs
  /\ heap.cnt \in [Objs -> Nat]
  /\ Len(frames) <= FrameCap
  /\ \A i \in DOMAIN frames :
       LET f == frames[i] IN
       /\ f.kind \in {Code, Native}
       /\ f.locals \in Seq(Ref \cup {Unset})
       /\ f.ops \in Seq(Ref) /\ Len(f.ops) <= f.cap
  /\ making.kind \in {"none", Code, Native}
  /\ making.locals \in Seq(Ref \cup {Unset})
  /\ making.got \subseteq {"frame", "locals", "ops"}
  /\ blocks \in Nat
  /\ hand \in Objs \cup {Unset}
  /\ held \in [Objs -> 0 .. MaxHeld]
  /\ lost \in [Objs -> Nat]
  /\ pc \in {"caller", "locals", "ops", "args", "err", "release",
            "unmade", "mgr", "frames", "gone"}

\* The places that refer to o.
Frames == frames \o <<making>>
Locals(o) ==
  UNION {{i} \X {l \in DOMAIN Frames[i].locals : Frames[i].locals[l] = o} :
           i \in DOMAIN Frames}
Operands(o) ==
  UNION {{i} \X {n \in DOMAIN Frames[i].ops : Frames[i].ops[n] = o} :
           i \in DOMAIN Frames}

\* Locals and operands count one reference each, and stop counting it when
\* they are cleared (arch/flow.md:78-83): an object's count is the number of
\* places that refer to it, whatever calls fail, and nothing but a frame that
\* could not be made leaves a reference behind. An object that nothing refers
\* to is gone, unless the program has just made it.
CountsExact ==
  \A o \in heap.live :
    /\ heap.cnt[o] = Cardinality(Locals(o)) + Cardinality(Operands(o))
                       + held[o] + lost[o]
    /\ heap.cnt[o] = 0 => hand = o

\* What a frame or the program refers to was not freed: not by a call that
\* replaces an object by itself, and not by the pop of a frame that holds the
\* same object twice.
NoDangling ==
  /\ \A o \in Objs : Locals(o) # {} \/ Operands(o) # {} => o \in heap.live
  /\ \A o \in Objs : held[o] > 0 => o \in heap.live
  /\ hand # Unset => hand \in heap.live

\* Wherever the construction of a stack or a frame fails, its blocks go back
\* to the memory manager; a stack that was released leaves only its manager,
\* and the manager's release nothing.
BlocksBalance ==
  LET CodeFrames == {i \in DOMAIN frames : frames[i].kind = Code}
      Own == CASE pc \in {"unmade", "gone"} -> 0
               [] pc = "mgr" -> 1
               [] pc = "frames" -> 2
               [] OTHER -> 3
  IN
  blocks = Own
             + 2 * Len(frames) + Cardinality(CodeFrames)
             + Cardinality(making.got)

\* Each argument of a method is at the index that the bytecode expects: the
\* number of arguments before it, and once more that of the wide ones
\* (test.stack.c:131-134); the second local of a wide argument stays unset.
ArgsPlaced ==
  LET WideBefore(n) == Cardinality({j \in 1 .. n - 1 : making.args[j] \in Wide})
      Index(n) == n + (IF making.kind = Code THEN WideBefore(n) ELSE 0)
      Done == 1 .. making.next - 1
  IN
  /\ \A n \in Done : /\ Index(n) \in DOMAIN making.locals
                    /\ making.locals[Index(n)] = making.args[n]
  /\ \A l \in DOMAIN making.locals \ {Index(n) : n \in Done} :
       making.locals[l] = Unset
=============================================================================
