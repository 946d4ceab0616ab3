---------------------------- MODULE ManagedHeap ----------------------------
(***************************************************************************)
(* What the heap promises to the program, counts and locks left out: an    *)
(* object lives from its allocation until it is freed, and it is freed     *)
(* only when nothing refers to it, in one step, with all it refers to      *)
(* forgotten.  Everything else that happens to the heap is what the        *)
(* program's own loads and stores do.                                      *)
(***************************************************************************)
CONSTANTS
  Threads,  \* threads of the program
  Objs,     \* places of the heap an object can be in
  Root,     \* the object all the threads start with
  Null,     \* not an object
  Roots,    \* the variables of a thread
  Runnable, \* the one that starts with Root
  Slots     \* the fields of an object

VARIABLES
  live,     \* the objects
  field,    \* field[o][s]: what field s of o refers to
  root,     \* root[t][r]: what variable r of t refers to
  var       \* var[t]: what t has in hand

vars == <<live, field, root, var>>

NoFields == [s \in Slots |-> Null]

Init ==
  /\ live = {Root}
  /\ field = [o \in Objs |-> NoFields]
  /\ root = [t \in Threads |-> [r \in Roots |-> IF r = Runnable THEN Root
                                                                ELSE Null]]
  /\ var = [t \in Threads |-> Null]

Alloc(t) ==
  /\ var[t] = Null
  /\ \E o \in Objs \ live : live' = live \cup {o} /\ var' = [var EXCEPT ![t] = o]
  /\ UNCHANGED <<field, root>>

\* The objects that t's variables refer to.
InReach(t) == {root[t][r] : r \in Roots} \cap live

Load(t) ==
  /\ var[t] = Null
  /\ \/ \E r \in Roots : var' = [var EXCEPT ![t] = root[t][r]]
     \/ \E o \in InReach(t), s \in Slots : var' = [var EXCEPT ![t] = field[o][s]]
  /\ UNCHANGED <<live, field, root>>

Put(t) ==
  /\ \E o \in InReach(t), s \in Slots : field' = [field EXCEPT ![o][s] = var[t]]
  /\ UNCHANGED <<live, root, var>>

Keep(t) ==
  /\ \E r \in Roots : root' = [root EXCEPT ![t][r] = var[t]]
  /\ UNCHANGED <<live, field, var>>

Drop(t) ==
  /\ var' = [var EXCEPT ![t] = Null]
  /\ UNCHANGED <<live, field, root>>

Referred(o) ==
  \/ \E t \in Threads : var[t] = o \/ \E r \in Roots : root[t][r] = o
  \/ \E p \in live : \E s \in Slots : field[p][s] = o

Free(o) ==
  /\ o \in live
  /\ live' = live \ {o}
  /\ ~Referred(o)
  /\ field' = [field EXCEPT ![o] = NoFields]
  /\ UNCHANGED <<root, var>>

Next ==
  \/ \E t \in Threads : Drop(t) \/ Keep(t) \/ Load(t) \/ Alloc(t) \/ Put(t)
  \/ \E o \in Objs : Free(o)

Spec == Init /\ [][Next]_vars
=============================================================================
