----------------------------- MODULE NvmValues -----------------------------
(***************************************************************************)
(* Primitive values and the objects whose fields hold them (memory.c): an  *)
(* object of a class is made field by field, its parents' fields too; a    *)
(* primitive field starts with the zero of its type, one object that all   *)
(* such fields share, and a value is narrowed to the type it is set in.    *)
(*                                                                         *)
(* One thread runs: how threads make the zeros is NvmMemMgr's matter.      *)
(* What ManagedHeap promises is taken as given: a block is freed when      *)
(* nothing refers to it any more, except a zero, and its place may then be *)
(* given out again with its old contents.  Types are as the program builds *)
(* them.  A byte is scaled: it holds Byte numbers, 256 in the program.      *)
(***************************************************************************)
EXTENDS Integers, FiniteSets

CONSTANTS
  Places,    \* places in the heap
  PrmTypes,  \* primitive types that are used
  Byte,      \* how many numbers a byte can hold
  Classes,   \* reference types
  Parent,    \* Parent[c]: the parent type, or None
  Fields,    \* fields of all the classes
  Own,       \* Own[c]: the fields that c declares
  FieldType, \* FieldType[f]: a primitive type or a class
  Ints,      \* numbers that the program sets
  Null,      \* the null value
  None       \* nothing yet

\* NanoVM_get_prm_type_size, of what a field can have: how many numbers a
\* value of 1, 2, 4 or 8 bytes can hold.
Numbers ==
  LET half == Byte * Byte
      word == half * half
      long == word * word
  IN [BOOLEAN |-> Byte, BYTE |-> Byte, CHAR |-> half, SHORT |-> half,
      INT |-> word, FLOAT |-> word, LONG |-> long, DOUBLE |-> long]

ASSUME TypesAssumption ==
  /\ PrmTypes \subseteq DOMAIN Numbers /\ PrmTypes \cap Classes = {}
  /\ Byte \in Nat \ {0} /\ Ints \subseteq Int
  /\ Parent \in [Classes -> Classes \cup {None}]
  /\ Own \in [Classes -> SUBSET Fields]
  /\ FieldType \in [Fields -> PrmTypes \cup Classes]
ASSUME NamesAssumption ==
  Null # None /\ {Null, None} \cap (Places \cup PrmTypes \cup Classes) = {}

VARIABLES
  type,    \* type[p]: the type of the object at p, or None if p is free
  body,    \* body[p]: the bits of a primitive value, kept when p is freed
  field,   \* field[p][f]: the object that field f of the object at p holds
  zero,    \* zero[ty]: the shared zero of a primitive type
  null,    \* the null value, None until it is made
  making,  \* the object that is initialised, and the fields that are left
  held,    \* objects that the program has on its stack
  fresh,   \* values that it allocated and has not put anywhere
  meant,   \* history: meant[p] is the number that was set
  shown    \* history: shown[p][f] is the value that was put in a field

vars == <<type, body, field, zero, null, making, held, fresh, meant, shown>>

Idle == [at |-> None, class |-> None, rest |-> {}]

Init ==
  /\ type = [p \in Places |-> None]
  /\ body = [p \in Places |-> 1]   \* not zero
  /\ field = [p \in Places |-> [f \in Fields |-> None]]
  /\ zero = [ty \in PrmTypes |-> None]
  /\ null = None
  /\ making = Idle
  /\ held = {} /\ fresh = {}
  /\ meant = [p \in Places |-> 0]
  /\ shown = [p \in Places |-> [f \in Fields |-> 0]]

-----------------------------------------------------------------------------
(* NanoVM_alloc_heap *)

\* Mutant: the body of a primitive value is not set to zero.
PlacedAsIs(p, ty) ==
  /\ type[p] = None
  /\ type' = [type EXCEPT ![p] = ty]
  /\ meant' = [meant EXCEPT ![p] = 0]
  /\ UNCHANGED body

\* A free place gets an object of type ty; a primitive one is set to zero.
Placed(p, ty) ==
  /\ type[p] = None
  /\ type' = [type EXCEPT ![p] = ty]
  /\ body' = [body EXCEPT ![p] = IF ty \in PrmTypes THEN 0 ELSE @]
  /\ meant' = [meant EXCEPT ![p] = 0]

AllocPrm(p, ty) ==
  /\ making = Idle
  /\ Placed(p, ty)
  /\ held' = held \cup {p} /\ fresh' = fresh \cup {p}
  /\ UNCHANGED <<field, zero, null, making, shown>>

\* The fields are None, undefined, until they are set.
AllocRef(p, c) ==
  /\ making = Idle
  /\ Placed(p, c)
  /\ making' = [at |-> p, class |-> c, rest |-> Own[c]]
  /\ UNCHANGED <<field, zero, null, held, fresh, shown>>

\* What the fields of type ty start with, None if it is not made yet.
Default(ty) == IF ty \in PrmTypes THEN zero[ty] ELSE null

Wanted(ty) == ty \in {FieldType[f] : f \in making.rest} /\ Default(ty) = None

\* _get_prm_0 and _get_null make it when it is asked for the first time.
MakeZero(p, ty) ==
  /\ Wanted(ty)
  /\ Placed(p, ty)
  /\ zero' = [zero EXCEPT ![ty] = p]
  /\ UNCHANGED <<field, null, making, held, fresh, shown>>

MakeNull ==
  /\ \E c \in Classes : Wanted(c)
  /\ null' = Null
  /\ UNCHANGED <<type, body, field, zero, making, held, fresh, meant, shown>>

InitField(f) ==
  /\ f \in making.rest /\ Default(FieldType[f]) # None
  /\ field' = [field EXCEPT ![making.at][f] = Default(FieldType[f])]
  /\ shown' = [shown EXCEPT ![making.at][f] = 0]
  /\ making' = [making EXCEPT !.rest = @ \ {f}]
  /\ UNCHANGED <<type, body, zero, null, held, fresh, meant>>

\* Mutant: only the fields of the class itself are initialised.
ToParentNone(c) == None

ToParent(c) == Parent[c]

\* The fields of a class are done: those of its parent are next.
NextClass ==
  LET c == ToParent(making.class) IN
  /\ making # Idle /\ making.rest = {} /\ c # None
  /\ making' = [making EXCEPT !.class = c, !.rest = Own[c]]
  /\ UNCHANGED <<type, body, field, zero, null, held, fresh, meant, shown>>

Allocated ==
  /\ making # Idle /\ making.rest = {} /\ ToParent(making.class) = None
  /\ held' = held \cup {making.at}
  /\ making' = Idle
  /\ UNCHANGED <<type, body, field, zero, null, fresh, meant, shown>>

\* The lock of the object, a zero or null cannot be had: the block is freed.
AllocFails ==
  /\ making # Idle
  /\ \/ field[making.at] = [f \in Fields |-> None]
     \/ \E f \in making.rest : Wanted(FieldType[f])
  /\ type' = [type EXCEPT ![making.at] = None]
  /\ field' = [field EXCEPT ![making.at] = [f \in Fields |-> None]]
  /\ making' = Idle
  /\ UNCHANGED <<body, zero, null, held, fresh, meant, shown>>

-----------------------------------------------------------------------------
(* NanoVM_mem_set_prm_i, _j, _f, _d, NanoVM_mem_get_prm *)

\* Mutant: the number is stored as it is.
NarrowedNot(ty, v) == v

\* Mutant: every number is set through a char.
NarrowedChar(ty, v) == v % Byte

\* What is copied into a value of type ty.
Narrowed(ty, v) == v % Numbers[ty]

\* The program uses the setter of the value's type (of another type, the
\* first does nothing), and on values that it has not put anywhere: a zero is
\* in the fields of others.
SetPrm(p, v) ==
  /\ making = Idle /\ p \in fresh
  /\ body' = [body EXCEPT ![p] = Narrowed(type[p], v)]
  /\ meant' = [meant EXCEPT ![p] = v]
  /\ UNCHANGED <<type, field, zero, null, making, held, fresh, shown>>

Read(p) == body[p]

-----------------------------------------------------------------------------
(* NanoVM_mem_put_field, NanoVM_mem_get_field *)

\* A class and the classes above it: the least set that has the class, and
\* the parents of its members.
Above(c) ==
  LET Closed(S) == \A d \in S : Parent[d] \in S \cup {None} IN
  {d \in Classes : \A S \in SUBSET Classes : c \in S /\ Closed(S) => d \in S}

FieldsOf(c) == UNION {Own[d] : d \in Above(c)}

\* The program puts a value of the field's type, or of a class below it.
FitsIn(v, ty) ==
  \/ v = Null /\ ty \in Classes
  \/ v \in Places /\ type[v] = ty
  \/ v \in Places /\ type[v] \in Classes /\ ty \in Above(type[v])

PutField(o, f, v) ==
  /\ making = Idle /\ {o, v} \ {Null} \subseteq held
  /\ type[o] \in Classes /\ f \in FieldsOf(type[o]) /\ FitsIn(v, FieldType[f])
  /\ field' = [field EXCEPT ![o][f] = v]
  /\ shown' = [shown EXCEPT ![o][f] =
                 IF FieldType[f] \in PrmTypes THEN Read(v) ELSE 0]
  /\ fresh' = fresh \ {v}
  /\ UNCHANGED <<type, body, zero, null, making, held, meant>>

GetField(o, f) ==
  /\ making = Idle /\ o \in held
  /\ type[o] \in Classes /\ f \in FieldsOf(type[o])
  /\ held' = held \cup ({field[o][f]} \cap Places)
  /\ UNCHANGED <<type, body, field, zero, null, making, fresh, meant, shown>>

Drop(p) ==
  /\ making = Idle /\ p \in held
  /\ held' = held \ {p} /\ fresh' = fresh \ {p}
  /\ UNCHANGED <<type, body, field, zero, null, making, meant, shown>>

\* Mutant: a zero is counted like any other value.
KeptNoZero(p) ==
  \/ p \in held \cup {making.at}
  \/ \E o \in Places : \E f \in Fields : type[o] \in Classes /\ field[o][f] = p

Kept(p) ==
  \/ p \in held \cup {making.at}
  \/ \E ty \in PrmTypes : zero[ty] = p
  \/ \E o \in Places : \E f \in Fields : type[o] \in Classes /\ field[o][f] = p

Free(p) ==
  /\ type[p] # None /\ ~Kept(p)
  /\ type' = [type EXCEPT ![p] = None]
  /\ field' = [field EXCEPT ![p] = [f \in Fields |-> None]]
  /\ meant' = [meant EXCEPT ![p] = 0]
  /\ shown' = [shown EXCEPT ![p] = [f \in Fields |-> 0]]
  /\ UNCHANGED <<body, zero, null, making, held, fresh>>

-----------------------------------------------------------------------------
Next ==
  \/ MakeNull \/ NextClass \/ Allocated \/ AllocFails
  \/ \E p \in Places, ty \in PrmTypes : AllocPrm(p, ty) \/ MakeZero(p, ty)
  \/ \E p \in Places, c \in Classes : AllocRef(p, c)
  \/ \E f \in Fields : InitField(f)
  \/ \E p \in Places, v \in Ints : SetPrm(p, v)
  \/ \E o \in Places, f \in Fields, v \in Places \cup {Null} : PutField(o, f, v)
  \/ \E o \in Places, f \in Fields : GetField(o, f)
  \/ \E p \in Places : Drop(p) \/ Free(p)

Spec == Init /\ [][Next]_vars

-----------------------------------------------------------------------------
(* Properties *)

\* Every variable has its type.
TypeOK ==
  /\ type \in [Places -> PrmTypes \cup Classes \cup {None}]
  /\ body \in [Places -> Nat]
  /\ field \in [Places -> [Fields -> Places \cup {Null, None}]]
  /\ zero \in [PrmTypes -> Places \cup {None}]
  /\ null \in {Null, None}
  /\ making \in [at : Places \cup {None}, class : Classes \cup {None},
                 rest : SUBSET Fields]
  /\ held \subseteq Places /\ fresh \subseteq Places
  /\ meant \in [Places -> Int]
  /\ shown \in [Places -> [Fields -> Nat]]

\* Objects that are allocated and initialised.
Objects == {p \in Places : type[p] \in Classes /\ making.at # p}

\* Each field of an object, inherited ones too, holds what fits its type, so
\* a primitive field is never null nor a value of another type: also after
\* an allocation that failed half-way, and at a place that was used before.
FieldsTyped ==
  \A o \in Objects : \A f \in FieldsOf(type[o]) :
    FitsIn(field[o][f], FieldType[f])

\* A primitive field reads as the value last put in it, and as 0 before, as
\* test.memory.c:110 and 162 expect: no other field that shares the zero, and
\* no other use of the place, changes it.  It holds from when the field is set.
ReadsAsPut ==
  \A o \in Places, f \in Fields :
    /\ type[o] \in Classes /\ field[o][f] \in Places
    /\ FieldType[f] \in PrmTypes
    => Read(field[o][f]) = shown[o][f]

\* A number in the range of the type it is set in can be read back from it.
ValuesKept ==
  \A p \in Places :
    type[p] \in PrmTypes =>
      LET max == Numbers[type[p]]
          signed == IF 2 * body[p] >= max THEN body[p] - max ELSE body[p]
      IN IF type[p] \in {"CHAR", "BOOLEAN"}
         THEN meant[p] \in 0 .. max - 1 => body[p] = meant[p]
         ELSE 2 * meant[p] \in -max .. max - 1 => signed = meant[p]
=============================================================================
