---------------------------- MODULE NvmProcess -----------------------------
(***************************************************************************)
(* What all the VMs and threads of a process share, under no VM's lock:    *)
(* zmalloc's total of used memory (zmalloc.c, atomicvar.h), the temporary  *)
(* block of every line that is logged (util.c), the table of instruction   *)
(* handles (stack.c), and the generator of thread ids (util.c).            *)
(*                                                                         *)
(* How the program was built is a choice of the initial state: whether the *)
(* total is updated with the compiler's atomic operations or under a       *)
(* pthread mutex, and whether the allocator knows the size of a block or   *)
(* zmalloc writes it in front of it.  libc is external: malloc gives any   *)
(* free place, and time() any second from the last one on.  When malloc    *)
(* has no memory the process is aborted: it takes no further step.         *)
(***************************************************************************)
EXTENDS Integers, Sequences, FiniteSets

CONSTANTS
  Threads,    \* threads of the process
  Main,       \* the one that sets up and tears down
  Places,     \* places that malloc can return
  None,       \* not a place, not a thread
  Sizes,      \* sizes that are asked for
  PrefixSize, \* what is needed to write the size in front of a block
  Slack,      \* bound: what an allocator gives beyond what was asked for
  MaxTid,     \* NVM_MAX_TID
  Rands,      \* numbers that rand() returns
  Seconds,    \* bound: what time() returns
  MaxDraws    \* bound: ids that are drawn

ASSUME ThreadsAssumption == Main \in Threads /\ None \notin Threads \cup Places
ASSUME PlacesAssumption == IsFiniteSet(Places)
ASSUME SizesAssumption ==
  Sizes \subseteq Nat /\ PrefixSize \in Nat /\ Slack \in Nat
ASSUME RandAssumption ==
  Rands \subseteq Nat /\ MaxTid \in Nat /\ MaxTid > 2 /\ Seconds \subseteq Nat

VARIABLES
  build,    \* build.mutex: a mutex guards the total; build.sized: no prefix
  used,     \* used_memory
  mutex,    \* the thread that holds used_memory_mutex, or None
  taken,    \* places that malloc has given and free has not got back
  size,     \* size[p]: what the block's header, or the allocator, says
  given,    \* blocks that a caller of zmalloc has
  handles,  \* insn_handles
  pc,       \* pc[t]: the next step of t
  call,     \* call[t]: what t calls, and its block
  todo,     \* todo[t]: updates of the total that t's call has yet to make
  reg,      \* reg[t]: the total that t has read to add to it
  seeded,   \* rand_init_flag
  stream,   \* what rand() was last seeded with, and how often it was called
  now,      \* the second it is
  draws     \* ids that were drawn, with the place of the stream they are from

memory == <<taken, size, given, handles>>
total == <<used, mutex, todo, reg>>
rand == <<seeded, stream, now, draws>>
vars == <<build, memory, total, rand, pc, call>>

NoCall == [kind |-> "none", at |-> None]

\* The default seed of rand() is a stream of its own.
Unseeded == [seed |-> -1, next |-> 0]

\* config.h and zmalloc.h choose from the compiler and the libraries.
Builds == [mutex : BOOLEAN, sized : BOOLEAN]

Init ==
  /\ build \in Builds
  /\ used = 0
  /\ mutex = None
  /\ taken = {} /\ given = {}
  /\ size = [p \in Places |-> 0]
  /\ handles = None
  /\ pc = [t \in Threads |-> "caller"]
  /\ call = [t \in Threads |-> NoCall]
  /\ todo = [t \in Threads |-> <<>>]
  /\ reg = [t \in Threads |-> 0]
  /\ seeded = FALSE
  /\ stream = Unseeded
  /\ now \in Seconds
  /\ draws = <<>>

Goto(t, from, to) == pc[t] = from /\ pc' = [pc EXCEPT ![t] = to]

-----------------------------------------------------------------------------
(* zmalloc, zcalloc, zstrdup, zrealloc, zfree *)

\* PREFIX_SIZE
Prefix == IF build.sized THEN 0 ELSE PrefixSize

\* What the total counts a block as: zmalloc_size.
ZmallocSize(p) == size[p] + Prefix

\* The sizes that a block of n can have.
SizesOf(n) == IF build.sized THEN n .. n + Slack ELSE {n}

\* malloc gives a block of s bytes at p; the total is updated after.
Obtain(t, kind, p, s) ==
  /\ Goto(t, "caller", "stat")
  /\ p \notin taken
  /\ taken' = taken \cup {p}
  /\ size' = [size EXCEPT ![p] = s]
  /\ call' = [call EXCEPT ![t] = [kind |-> kind, at |-> p]]
  /\ todo' = [todo EXCEPT ![t] = <<s + Prefix>>]
  /\ UNCHANGED <<build, given, handles, used, mutex, reg, rand>>

Zmalloc(t) ==
  \E n \in Sizes, p \in Places : \E s \in SizesOf(n) : Obtain(t, "alloc", p, s)

\* Mutant: the old size is taken with its prefix, as in zfree.
ResizedPrefix(p, s) == <<-ZmallocSize(p), s>>

\* What zrealloc does to the total: neither size is with the prefix.
Resized(p, s) == <<-size[p], s>>

\* realloc moves the block p to q, or leaves it where it is.
Zrealloc(t) ==
  /\ Goto(t, "caller", "stat")
  /\ \E p \in given, n \in Sizes, q \in Places :
       /\ q \notin taken \ {p}
       /\ \E s \in SizesOf(n) :
            /\ size' = [size EXCEPT ![q] = s]
            /\ todo' = [todo EXCEPT ![t] = Resized(p, s)]
       /\ taken' = (taken \ {p}) \cup {q}
       /\ given' = given \ {p}
       /\ call' = [call EXCEPT ![t] = [kind |-> "alloc", at |-> q]]
  /\ UNCHANGED <<build, handles, used, mutex, reg, rand>>

\* The total is updated before the block is freed.
Releasing(t, kind, p) ==
  /\ call' = [call EXCEPT ![t] = [kind |-> kind, at |-> p]]
  /\ todo' = [todo EXCEPT ![t] = <<-ZmallocSize(p)>>]

Zfree(t) ==
  /\ Goto(t, "caller", "stat")
  /\ \E p \in given : given' = given \ {p} /\ Releasing(t, "free", p)
  /\ UNCHANGED <<build, taken, size, handles, used, mutex, reg, rand>>

\* NanoVM_write_log gets a block for the line, and frees it.
WriteLog(t) ==
  \E n \in Sizes, p \in Places : \E s \in SizesOf(n) : Obtain(t, "log", p, s)

\* NanoVM_GLOBAL_init_stack, once before NanoVM_GLOBAL_free_stack.
InitStack ==
  /\ handles = None
  /\ \E n \in Sizes, p \in Places : \E s \in SizesOf(n) :
       Obtain(Main, "init", p, s)

FreeStack ==
  /\ handles # None
  /\ Goto(Main, "caller", "stat")
  /\ Releasing(Main, "drop", handles)
  /\ UNCHANGED <<build, memory, used, mutex, reg, rand>>

\* The call returns: the block is the caller's, or goes.
Returned(t) ==
  /\ Goto(t, "stat", "caller") /\ todo[t] = <<>>
  /\ call' = [call EXCEPT ![t] = NoCall]
  /\ UNCHANGED <<build, size, total, rand>>

ZmallocReturns(t) ==
  /\ Returned(t) /\ call[t].kind = "alloc"
  /\ given' = given \cup {call[t].at}
  /\ UNCHANGED <<taken, handles>>

InitReturns(t) ==
  /\ Returned(t) /\ call[t].kind = "init"
  /\ handles' = call[t].at
  /\ UNCHANGED <<taken, given>>

ZfreeReturns(t) ==
  /\ Returned(t) /\ call[t].kind \in {"free", "drop"}
  /\ taken' = taken \ {call[t].at}
  /\ handles' = IF call[t].kind = "drop" THEN None ELSE handles
  /\ UNCHANGED given

\* Mutant: the line's block is not freed.
LogWrittenKept(t) ==
  /\ Returned(t) /\ call[t].kind = "log"
  /\ UNCHANGED <<taken, given, handles>>

\* The line is written: the temporary block is freed in the same call.
LogWritten(t) ==
  /\ pc[t] = "stat" /\ todo[t] = <<>> /\ call[t].kind = "log"
  /\ Releasing(t, "free", call[t].at)
  /\ UNCHANGED <<build, memory, used, mutex, reg, rand, pc>>

-----------------------------------------------------------------------------
(* atomicIncr and atomicDecr *)

\* With __atomic or __sync operations.
Update(t) ==
  /\ ~build.mutex /\ pc[t] = "stat" /\ todo[t] # <<>>
  /\ used' = used + Head(todo[t])
  /\ todo' = [todo EXCEPT ![t] = Tail(@)]
  /\ UNCHANGED <<build, memory, mutex, reg, rand, pc, call>>

\* With a pthread mutex.
Acquire(t) ==
  /\ build.mutex /\ Goto(t, "stat", "load") /\ todo[t] # <<>>
  /\ mutex = None
  /\ mutex' = t
  /\ UNCHANGED <<build, memory, used, todo, reg, rand, call>>

Load(t) ==
  /\ Goto(t, "load", "store")
  /\ reg' = [reg EXCEPT ![t] = used]
  /\ UNCHANGED <<build, memory, used, mutex, todo, rand, call>>

Store(t) ==
  /\ Goto(t, "store", "stat")
  /\ used' = reg[t] + Head(todo[t])
  /\ reg' = [reg EXCEPT ![t] = 0]
  /\ todo' = [todo EXCEPT ![t] = Tail(@)]
  /\ mutex' = None
  /\ UNCHANGED <<build, memory, rand, call>>

-----------------------------------------------------------------------------
(* NanoVM_rand_int *)

RandInt(t) ==
  /\ Goto(t, "caller", IF seeded THEN "draw" ELSE "seed")
  /\ Len(draws) < MaxDraws
  /\ UNCHANGED <<build, memory, total, rand, call>>

\* srand(time(NULL))
Seed(t) ==
  /\ Goto(t, "seed", "flag")
  /\ stream' = [seed |-> now, next |-> 0]
  /\ UNCHANGED <<build, memory, total, seeded, now, draws, call>>

\* Mutant: the flag is not set.
SetFlagNot(t) ==
  /\ Goto(t, "flag", "draw")
  /\ UNCHANGED <<build, memory, total, rand, call>>

SetFlag(t) ==
  /\ Goto(t, "flag", "draw")
  /\ seeded' = TRUE
  /\ UNCHANGED <<build, memory, total, stream, now, draws, call>>

\* Mutant: the whole range.
ToIdFrom0(r) == r % MaxTid

ToId(r) == (r % (MaxTid - 2)) + 1

Draw(t) ==
  /\ Goto(t, "draw", "caller")
  /\ \E r \in Rands : draws' = Append(draws, [from |-> stream, id |-> ToId(r)])
  /\ stream' = [stream EXCEPT !.next = @ + 1]
  /\ UNCHANGED <<build, memory, total, seeded, now, call>>

Tick ==
  /\ \E s \in Seconds : s > now /\ now' = s
  /\ UNCHANGED <<build, memory, total, seeded, stream, draws, pc, call>>

-----------------------------------------------------------------------------
Call(t) ==
  \/ Zmalloc(t) \/ Zrealloc(t) \/ Zfree(t) \/ WriteLog(t) \/ RandInt(t)

Step(t) ==
  \/ ZmallocReturns(t) \/ InitReturns(t) \/ ZfreeReturns(t) \/ LogWritten(t)
  \/ Update(t) \/ Acquire(t) \/ Load(t) \/ Store(t)
  \/ Seed(t) \/ SetFlag(t) \/ Draw(t)

Next ==
  \/ InitStack \/ FreeStack \/ Tick
  \/ \E t \in Threads : Call(t) \/ Step(t)

Spec == Init /\ [][Next]_vars

(***************************************************************************)
(* The first thread's id is drawn before another thread can ask for one:   *)
(* threads are started by threads.  NanoVM_rand_int does nothing for it.   *)
(***************************************************************************)
SeededAlone ==
  \A t, u \in Threads : t # u /\ pc[t] \in {"seed", "flag"} =>
                          pc[u] \notin {"seed", "flag", "draw"}

SyncSpec == Init /\ [][Next /\ SeededAlone']_vars

-----------------------------------------------------------------------------
(* Properties *)

Labels == {"caller", "stat", "load", "store", "seed", "flag", "draw"}

Streams == [seed : Seconds \cup {-1}, next : Nat]

\* "NanoVM_rand_int should return a positive integer" (test.util.c:72): an id
\* is never 0, which stands for a free lock, and is below the maximum.
Ids == 1 .. MaxTid - 2

\* Every variable has its type; the ids that were drawn are usable as owners
\* of a lock.
TypeOK ==
  /\ build \in Builds
  /\ used \in Int /\ reg \in [Threads -> Int]
  /\ mutex \in Threads \cup {None}
  /\ taken \subseteq Places /\ given \subseteq Places
  /\ size \in [Places -> Nat]
  /\ handles \in Places \cup {None}
  /\ seeded \in BOOLEAN
  /\ pc \in [Threads -> Labels]
  /\ call \in [Threads ->
                [kind : {"none", "alloc", "free", "log", "init", "drop"},
                 at : Places \cup {None}]]
  /\ todo \in [Threads -> Seq(Int)]
  /\ stream \in Streams /\ now \in Seconds
  /\ draws \in Seq([from : Streams, id : Ids])

\* An update of the total is never lost: what a thread is about to add to is
\* the total that there is, in the build with the mutex as in the others.
NoLostUpdate == \A t \in Threads : pc[t] = "store" => reg[t] = used

\* Threads in a call of zmalloc, which has a block.
Calling == {t \in Threads : call[t].kind # "none"}

\* What a call has yet to add to the total, in at most two updates.
Left(t) ==
  LET d == todo[t] IN
  CASE d = <<>> -> 0 [] Len(d) = 1 -> d[1] [] OTHER -> d[1] + d[2]

\* How much of the block of a call the total has: in the end all of a new
\* block, and nothing of a block that goes.
Part(t) ==
  (IF call[t].kind \in {"free", "drop"} THEN 0 ELSE ZmallocSize(call[t].at))
    - Left(t)

\* The bytes that the total should have: those of the blocks that are in no
\* call, and of the others the part that the calls have told it.
Bytes ==
  LET Settled == taken \ {call[t].at : t \in Calling} IN
  (UNION {{p} \X (1 .. ZmallocSize(p)) : p \in Settled})
    \cup (UNION {{call[t].at} \X (1 .. Part(t)) : t \in Calling})

\* The total is the number of bytes of the blocks there are, up to the
\* updates that calls under way have yet to make, which never take more than
\* was added: a size_t would wrap.  So it is exact when no thread is in a
\* call, as test.memory.c and test.stack.c:48-59 expect.
UsedExact ==
  /\ \A t \in Calling : Part(t) >= 0
  /\ used = Cardinality(Bytes)

\* Each block of the process is a caller's, the table of handles, or in one
\* call; no log line leaves its block behind.
BlocksOwned ==
  LET In == {t \in Threads : call[t].kind \in {"alloc", "free", "log", "init"}}
      InCall == {call[t].at : t \in In}
      Table == {handles} \ {None}
  IN
  /\ taken = given \cup InCall \cup Table
  /\ given \cap (InCall \cup Table) = {} /\ InCall \cap Table = {}
  /\ \A t, u \in In : t # u => call[t].at # call[u].at

\* No two ids come from the same place of the same stream: who seeds the
\* generator does it before anybody draws.
DrawsDiffer ==
  \A i, j \in DOMAIN draws : i # j => draws[i].from # draws[j].from
=============================================================================
