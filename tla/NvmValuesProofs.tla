-------------------------- MODULE NvmValuesProofs --------------------------
(***************************************************************************)
(* Proofs about NvmValues, for any classes, fields, places and numbers:    *)
(* type correctness, fields that hold what fits their type and read as     *)
(* what was put in them, and numbers that are read back as they were set.  *)
(***************************************************************************)
EXTENDS NvmValues, TLAPS

\* A zero is a zero, and nobody's to set.
ZerosShared ==
  \A ty \in PrmTypes :
    zero[ty] \in Places =>
      /\ type[zero[ty]] = ty /\ body[zero[ty]] = 0
      /\ zero[ty] \notin fresh

\* A field points to an object that was put there, and that is not being made.
FieldsAlive ==
  \A o \in Places, f \in Fields :
    type[o] \in Classes /\ field[o][f] \in Places =>
      /\ type[field[o][f]] # None
      /\ field[o][f] \notin fresh /\ field[o][f] # making.at

\* So does the stack.
HeldAlive ==
  /\ \A p \in held : type[p] # None /\ p # making.at
  /\ fresh \subseteq held
  /\ \A p \in fresh : type[p] \in PrmTypes

\* The object that is made has the type of a class.
MakingTyped ==
  \/ making = Idle
  \/ /\ making.at \in Places /\ type[making.at] \in Classes
     /\ making.class \in Classes

\* What is no object has no fields.
Cleared ==
  \A p \in Places, f \in Fields : type[p] \notin Classes => field[p][f] = None

IInv ==
  /\ TypeOK /\ ReadsAsPut
  /\ ZerosShared /\ FieldsAlive /\ HeldAlive /\ MakingTyped /\ Cleared

\* A type can hold a number at least.
LEMMA NumbersNat == \A ty \in PrmTypes : Numbers[ty] \in Nat \ {0}
<1> SUFFICES ASSUME NEW ty \in PrmTypes PROVE Numbers[ty] \in Nat \ {0}
  OBVIOUS
<1> DEFINE half == Byte * Byte
           word == half * half
           long == word * word
<1>1. \A m, n \in Nat \ {0} : m * n \in Nat \ {0}
  OBVIOUS
<1>2. Byte \in Nat \ {0} /\ half \in Nat \ {0}
  BY <1>1, TypesAssumption
<1>3. word \in Nat \ {0}
  <2> HIDE DEF half
  <2> QED
    BY <1>1, <1>2
<1>4. long \in Nat \ {0}
  <2> HIDE DEF word
  <2> QED
    BY <1>1, <1>3
<1>5. Numbers[ty] \in {Byte, half, word, long}
  BY TypesAssumption DEF Numbers
<1> QED
  BY <1>2, <1>3, <1>4, <1>5

\* A number is narrowed to one that is not negative.
LEMMA NarrowedNat ==
  ASSUME NEW ty \in PrmTypes, NEW v \in Ints
  PROVE  Narrowed(ty, v) \in Nat
BY NumbersNat, TypesAssumption DEF Narrowed

LEMMA InitIInv == Init => IInv
<1> SUFFICES ASSUME Init PROVE IInv
  OBVIOUS
<1>1. TypeOK
  BY DEF Init, TypeOK, Idle
<1> QED
  BY <1>1, NamesAssumption DEF Init, IInv, ReadsAsPut, ZerosShared, FieldsAlive,
                               HeldAlive, MakingTyped, Cleared

\* What a step that makes an object at p can count on.
PlacedAlone(p, ty) ==
  /\ type' \in [Places -> PrmTypes \cup Classes \cup {None}]
  /\ body' \in [Places -> Nat] /\ meant' \in [Places -> Int]
  /\ p \notin held /\ p # making.at
  /\ \A o \in Places, f \in Fields :
       type[o] \in Classes => field[o][f] # p
  /\ \A t \in PrmTypes : zero[t] # p
  /\ type'[p] = ty /\ (ty \in PrmTypes => body'[p] = 0)
  /\ \A q \in Places \ {p} : type'[q] = type[q] /\ body'[q] = body[q]
  /\ \A f \in Fields : field[p][f] = None

LEMMA PlacedIInv ==
  ASSUME IInv, NEW p \in Places, NEW ty \in PrmTypes \cup Classes, Placed(p, ty)
  PROVE  PlacedAlone(p, ty)
<1>1. type[p] = None /\ None \notin PrmTypes \cup Classes
  BY NamesAssumption DEF Placed
<1>2. making.at # p
  BY <1>1, NamesAssumption DEF IInv, MakingTyped, Idle
<1> QED
  BY <1>1, <1>2 DEF Placed, IInv, TypeOK, ZerosShared, FieldsAlive, HeldAlive,
                    Cleared, PlacedAlone

LEMMA NextIInv == IInv /\ [Next]_vars => IInv'
<1> SUFFICES ASSUME IInv, [Next]_vars PROVE IInv'
  OBVIOUS
<1> USE DEF IInv
<1>0. Null \notin Places /\ None \notin Places \cup PrmTypes \cup Classes
  BY NamesAssumption
<1>h. held \subseteq Places /\ fresh \subseteq Places
  BY DEF TypeOK
<1>1. CASE MakeNull
  BY <1>1 DEF MakeNull, TypeOK, ReadsAsPut, Read, ZerosShared, FieldsAlive,
              HeldAlive, MakingTyped, Cleared
<1>2. CASE NextClass
  <2>1. making.class \in Classes /\ Parent[making.class] \in Classes
    BY <1>2, <1>0, TypesAssumption DEF NextClass, ToParent, MakingTyped
  <2>2. TypeOK' /\ making'.at = making.at
    BY <1>2, <2>1, TypesAssumption DEF NextClass, ToParent, TypeOK
  <2> QED
    BY <1>2, <2>1, <2>2 DEF NextClass, ToParent, TypeOK, ReadsAsPut, Read,
                            ZerosShared, FieldsAlive,
                      HeldAlive, MakingTyped, Cleared, Idle
<1>3. CASE Allocated
  <2>1. making.at \in Places /\ type[making.at] \in Classes
    BY <1>3 DEF Allocated, MakingTyped
  <2>2. TypeOK'
    BY <1>3, <2>1 DEF Allocated, TypeOK, Idle
  <2> QED
    BY <1>3, <1>0, <2>1, <2>2 DEF Allocated, TypeOK, ReadsAsPut, Read,
         ZerosShared, FieldsAlive, HeldAlive, MakingTyped, Cleared, Idle
<1>4. CASE AllocFails
  <2>1. making.at \in Places /\ type[making.at] \in Classes
    BY <1>4 DEF AllocFails, MakingTyped
  <2>2. TypeOK'
    BY <1>4, <2>1 DEF AllocFails, TypeOK, Idle
  <2>3. \A ty \in PrmTypes : zero[ty] # making.at
    BY <2>1, TypesAssumption DEF ZerosShared
  <2> QED
    BY <1>4, <1>0, <2>1, <2>2, <2>3 DEF AllocFails, TypeOK, ReadsAsPut, Read,
         ZerosShared, FieldsAlive, HeldAlive, MakingTyped, Cleared, Idle
<1>5. ASSUME NEW p \in Places, NEW ty \in PrmTypes, AllocPrm(p, ty)
      PROVE  IInv'
  <2>1. PlacedAlone(p, ty)
    BY <1>5, PlacedIInv DEF AllocPrm
  <2>2. TypeOK'
    BY <1>5, <2>1, TypesAssumption DEF AllocPrm, PlacedAlone, TypeOK
  <2>3. ReadsAsPut'
    BY <1>5, <1>0, <2>1, TypesAssumption
       DEF AllocPrm, PlacedAlone, ReadsAsPut, FieldsAlive, Read
  <2>4. ZerosShared'
    BY <1>5, <1>0, <2>1, TypesAssumption
       DEF AllocPrm, PlacedAlone, TypeOK, ZerosShared, HeldAlive
  <2>5. FieldsAlive'
    <3> SUFFICES ASSUME NEW o \in Places, NEW f \in Fields,
                        type'[o] \in Classes, field[o][f] \in Places
                 PROVE  /\ type'[field[o][f]] # None
                        /\ field[o][f] \notin fresh'
                        /\ field[o][f] # making'.at
      BY <1>5 DEF AllocPrm, FieldsAlive
    <3>1. o # p
      BY <1>0, <2>1, TypesAssumption DEF PlacedAlone
    <3>2. type[o] \in Classes /\ field[o][f] # p
      BY <2>1, <3>1 DEF PlacedAlone
    <3> QED
      BY <1>5, <2>1, <3>2 DEF AllocPrm, PlacedAlone, FieldsAlive
  <2>6. HeldAlive'
    BY <1>5, <1>0, <1>h, <2>1, TypesAssumption
       DEF AllocPrm, PlacedAlone, HeldAlive
  <2>7. MakingTyped'
    BY <1>5, <2>1 DEF AllocPrm, PlacedAlone, MakingTyped
  <2>8. Cleared'
    BY <1>5, <2>1 DEF AllocPrm, PlacedAlone, Cleared
  <2> QED
    BY <2>2, <2>3, <2>4, <2>5, <2>6, <2>7, <2>8
<1>6. ASSUME NEW p \in Places, NEW ty \in PrmTypes, MakeZero(p, ty)
      PROVE  IInv'
  <2>1. PlacedAlone(p, ty)
    BY <1>6, PlacedIInv DEF MakeZero
  <2>2. TypeOK'
    BY <1>6, <2>1, TypesAssumption DEF MakeZero, PlacedAlone, TypeOK
  <2>3. ReadsAsPut'
    BY <1>6, <1>0, <2>1, TypesAssumption
       DEF MakeZero, PlacedAlone, ReadsAsPut, FieldsAlive, Read
  <2>4. ZerosShared'
    BY <1>6, <1>0, <2>1, TypesAssumption
       DEF MakeZero, PlacedAlone, TypeOK, ZerosShared, HeldAlive
  <2>5. FieldsAlive'
    <3> SUFFICES ASSUME NEW o \in Places, NEW f \in Fields,
                        type'[o] \in Classes, field[o][f] \in Places
                 PROVE  /\ type'[field[o][f]] # None
                        /\ field[o][f] \notin fresh'
                        /\ field[o][f] # making'.at
      BY <1>6 DEF MakeZero, FieldsAlive
    <3>1. o # p
      BY <1>0, <2>1, TypesAssumption DEF PlacedAlone
    <3>2. type[o] \in Classes /\ field[o][f] # p
      BY <2>1, <3>1 DEF PlacedAlone
    <3> QED
      BY <1>6, <2>1, <3>2 DEF MakeZero, PlacedAlone, FieldsAlive
  <2>6. HeldAlive'
    BY <1>6, <1>0, <1>h, <2>1, TypesAssumption
       DEF MakeZero, PlacedAlone, HeldAlive
  <2>7. MakingTyped'
    BY <1>6, <2>1 DEF MakeZero, PlacedAlone, MakingTyped
  <2>8. Cleared'
    BY <1>6, <2>1 DEF MakeZero, PlacedAlone, Cleared
  <2> QED
    BY <2>2, <2>3, <2>4, <2>5, <2>6, <2>7, <2>8
<1>7. ASSUME NEW p \in Places, NEW c \in Classes, AllocRef(p, c)
      PROVE  IInv'
  <2>1. PlacedAlone(p, c)
    BY <1>7, PlacedIInv DEF AllocRef
  <2>2. TypeOK'
    BY <1>7, <2>1, TypesAssumption DEF AllocRef, PlacedAlone, TypeOK
  <2>3. ReadsAsPut'
    BY <1>7, <1>0, <2>1, TypesAssumption
       DEF AllocRef, PlacedAlone, ReadsAsPut, FieldsAlive, Read
  <2>4. ZerosShared'
    BY <1>7, <1>0, <2>1, TypesAssumption
       DEF AllocRef, PlacedAlone, TypeOK, ZerosShared, HeldAlive
  <2>5. FieldsAlive'
    <3> SUFFICES ASSUME NEW o \in Places, NEW f \in Fields,
                        type'[o] \in Classes, field[o][f] \in Places
                 PROVE  /\ type'[field[o][f]] # None
                        /\ field[o][f] \notin fresh'
                        /\ field[o][f] # making'.at
      BY <1>7 DEF AllocRef, FieldsAlive
    <3>1. o # p
      BY <1>0, <2>1, TypesAssumption DEF PlacedAlone
    <3>2. type[o] \in Classes /\ field[o][f] # p
      BY <2>1, <3>1 DEF PlacedAlone
    <3> QED
      BY <1>7, <2>1, <3>2 DEF AllocRef, PlacedAlone, FieldsAlive
  <2>6. HeldAlive'
    BY <1>7, <1>0, <1>h, <2>1, TypesAssumption
       DEF AllocRef, PlacedAlone, HeldAlive
  <2>7. MakingTyped'
    BY <1>7, <2>1 DEF AllocRef, PlacedAlone, MakingTyped
  <2>8. Cleared'
    BY <1>7, <2>1 DEF AllocRef, PlacedAlone, Cleared
  <2> QED
    BY <2>2, <2>3, <2>4, <2>5, <2>6, <2>7, <2>8
<1>8. ASSUME NEW f \in Fields, InitField(f)
      PROVE  IInv'
  <2> DEFINE v == Default(FieldType[f])
  <2>1. /\ making.at \in Places /\ type[making.at] \in Classes
        /\ making.class \in Classes
    BY <1>8 DEF InitField, MakingTyped, Idle
  <2>2. v \in Places \cup {Null} /\ v # None
    BY <1>8, TypesAssumption DEF InitField, Default, TypeOK
  <2>3. v \in Places => /\ type[v] \in PrmTypes /\ body[v] = 0
                        /\ v \notin fresh /\ v # making.at
    BY <1>0, <2>1, <2>2, TypesAssumption DEF Default, ZerosShared, TypeOK
  <2> HIDE DEF v
  <2>4. TypeOK' /\ making'.at = making.at /\ making'.class = making.class
    BY <1>8, <2>1, <2>2 DEF InitField, TypeOK, v
  <2>5. /\ \A o \in Places, g \in Fields :
             \/ o = making.at /\ g = f /\ field'[o][g] = v /\ shown'[o][g] = 0
             \/ field'[o][g] = field[o][g] /\ shown'[o][g] = shown[o][g]
        /\ UNCHANGED <<type, body, zero, null, held, fresh, meant>>
    BY <1>8, <2>1 DEF InitField, TypeOK, v
  <2>6. ReadsAsPut'
    BY <2>1, <2>3, <2>5 DEF ReadsAsPut, Read
  <2>7. FieldsAlive'
    BY <1>0, <2>1, <2>3, <2>4, <2>5 DEF FieldsAlive
  <2>8. Cleared'
    BY <2>1, <2>5 DEF Cleared
  <2> QED
    BY <2>1, <2>4, <2>5, <2>6, <2>7, <2>8 DEF ZerosShared, HeldAlive,
                                              MakingTyped
<1>9. ASSUME NEW p \in Places, NEW v \in Ints, SetPrm(p, v)
      PROVE  IInv'
  <2>1. type[p] \in PrmTypes
    BY <1>9 DEF SetPrm, HeldAlive
  <2>2. Narrowed(type[p], v) \in Nat /\ v \in Int
    BY <2>1, NarrowedNat, TypesAssumption
  <2>3. TypeOK'
    BY <1>9, <2>2 DEF SetPrm, TypeOK
  <2> QED
    BY <1>9, <2>3 DEF SetPrm, TypeOK, ReadsAsPut, Read, ZerosShared,
                      FieldsAlive, HeldAlive, MakingTyped, Cleared
<1>10. ASSUME NEW o \in Places, NEW f \in Fields, NEW v \in Places \cup {Null},
              PutField(o, f, v)
       PROVE  IInv'
  <2>1. TypeOK'
    <3>1. FieldType[f] \in PrmTypes => v \in Places
      BY <1>10, TypesAssumption DEF PutField, FitsIn
    <3> QED
      BY <1>10, <3>1 DEF PutField, TypeOK, Read
  <2>2. v \in Places => type[v] # None /\ v # making.at
    BY <1>10, <1>0 DEF PutField, HeldAlive
  <2>3. /\ \A q \in Places, g \in Fields :
             \/ q = o /\ g = f /\ field'[q][g] = v
                /\ (FieldType[f] \in PrmTypes => shown'[q][g] = body[v])
             \/ field'[q][g] = field[q][g] /\ shown'[q][g] = shown[q][g]
        /\ fresh' = fresh \ {v} /\ type[o] \in Classes
        /\ UNCHANGED <<type, body, zero, null, making, held, meant>>
    BY <1>10 DEF PutField, TypeOK, Read
  <2>4. ReadsAsPut'
    BY <2>3 DEF ReadsAsPut, Read
  <2>5. FieldsAlive'
    BY <2>2, <2>3 DEF FieldsAlive
  <2>6. Cleared'
    BY <2>3 DEF Cleared
  <2> QED
    BY <2>1, <2>3, <2>4, <2>5, <2>6 DEF ZerosShared, HeldAlive, MakingTyped
<1>11. ASSUME NEW o \in Places, NEW f \in Fields, GetField(o, f)
       PROVE  IInv'
  <2>1. TypeOK'
    BY <1>11 DEF GetField, TypeOK
  <2> QED
    BY <1>11, <2>1 DEF GetField, TypeOK, ReadsAsPut, Read, ZerosShared,
                       FieldsAlive, HeldAlive, MakingTyped, Cleared
<1>12. ASSUME NEW p \in Places, Drop(p)
       PROVE  IInv'
  <2>1. TypeOK'
    BY <1>12 DEF Drop, TypeOK
  <2> QED
    BY <1>12, <2>1 DEF Drop, ReadsAsPut, Read, ZerosShared, FieldsAlive,
                       HeldAlive, MakingTyped, Cleared
<1>13. ASSUME NEW p \in Places, Free(p)
       PROVE  IInv'
  <2>1. TypeOK'
    BY <1>13 DEF Free, TypeOK
  <2>2. /\ p \notin held /\ p # making.at
        /\ \A ty \in PrmTypes : zero[ty] # p
        /\ \A o \in Places, f \in Fields :
             type[o] \in Classes => field[o][f] # p
    BY <1>13 DEF Free, Kept
  <2>3. /\ type'[p] = None /\ \A f \in Fields : field'[p][f] = None
        /\ \A q \in Places \ {p} : /\ type'[q] = type[q]
                                   /\ field'[q] = field[q] /\ shown'[q] = shown[q]
        /\ UNCHANGED <<body, zero, null, making, held, fresh>>
    BY <1>13 DEF Free, TypeOK
  <2>4. ReadsAsPut'
    BY <1>0, <2>2, <2>3 DEF ReadsAsPut, Read
  <2>5. FieldsAlive'
    BY <1>0, <2>2, <2>3 DEF FieldsAlive
  <2>6. HeldAlive'
    BY <2>2, <2>3 DEF HeldAlive, TypeOK
  <2>7. ZerosShared' /\ MakingTyped' /\ Cleared'
    BY <1>0, <2>2, <2>3 DEF ZerosShared, MakingTyped, Cleared
  <2> QED
    BY <2>1, <2>4, <2>5, <2>6, <2>7
<1>14. CASE UNCHANGED vars
  BY <1>14 DEF vars, TypeOK, ReadsAsPut, Read, ZerosShared, FieldsAlive,
               HeldAlive, MakingTyped, Cleared
<1> QED
  BY <1>1, <1>2, <1>3, <1>4, <1>5, <1>6, <1>7, <1>8, <1>9, <1>10, <1>11, <1>12,
     <1>13, <1>14 DEF Next

LEMMA AlwaysIInv == Spec => []IInv
BY InitIInv, NextIInv, PTL DEF Spec

-----------------------------------------------------------------------------
\* Types, fields, zeros and values keep their type.
THEOREM ValuesTypeOK == Spec => []TypeOK
<1>1. IInv => TypeOK
  BY DEF IInv
<1> QED
  BY <1>1, AlwaysIInv, PTL

\* A primitive field reads as what was put in it, or 0, however many classes,
\* fields and places there are, and whatever happens to other objects.
THEOREM ValuesReadsAsPut == Spec => []ReadsAsPut
<1>1. IInv => ReadsAsPut
  BY DEF IInv
<1> QED
  BY <1>1, AlwaysIInv, PTL

-----------------------------------------------------------------------------
(* Numbers are kept.                                                       *)

\* A number in the range of n numbers is its remainder, or n below it.
LEMMA Remainder ==
  ASSUME NEW n \in Nat \ {0}, NEW m \in Int
  PROVE  /\ m \in 0 .. n - 1 => m % n = m
         /\ m \in -n .. -1 => m % n = m + n
OBVIOUS

\* What is read from bits b of a value of type ty is m, if m is in its range.
ReadBack(ty, b, m) ==
  LET max == Numbers[ty]
      signed == IF 2 * b >= max THEN b - max ELSE b
  IN IF ty \in {"CHAR", "BOOLEAN"}
     THEN m \in 0 .. max - 1 => b = m
     ELSE 2 * m \in -max .. max - 1 => signed = m

LEMMA NarrowedKept ==
  ASSUME NEW ty \in PrmTypes, NEW v \in Int
  PROVE  ReadBack(ty, Narrowed(ty, v), v) /\ ReadBack(ty, 0, 0)
<1> DEFINE n == Numbers[ty]
           b == v % n
<1>1. n \in Nat \ {0}
  BY NumbersNat
<1>2. /\ v \in 0 .. n - 1 => b = v
      /\ v \in -n .. -1 => b = v + n
  BY <1>1, Remainder
<1>3. Narrowed(ty, v) = b
  BY DEF Narrowed
<1> HIDE DEF n, b
<1>4. v \in 0 .. n - 1 => b = v
  BY <1>2
<1>5. 2 * v \in -n .. n - 1 => (IF 2 * b >= n THEN b - n ELSE b) = v
  <2>1. CASE v >= 0
    BY <1>1, <1>2, <2>1
  <2>2. CASE v < 0
    BY <1>1, <1>2, <2>2
  <2> QED
    BY <2>1, <2>2
<1>6. (IF 2 * 0 >= n THEN 0 - n ELSE 0) = 0
  BY <1>1
<1> QED
  BY <1>3, <1>4, <1>5, <1>6 DEF ReadBack, n

LEMMA ValuesKeptIs ==
  ValuesKept <=>
    \A p \in Places : type[p] \in PrmTypes => ReadBack(type[p], body[p], meant[p])
BY DEF ValuesKept, ReadBack

LEMMA InitValuesKept == Init => ValuesKept
BY NamesAssumption DEF Init, ValuesKept

\* A value changes when it is made, which is with zero, and when it is set.
LEMMA NextValuesKept ==
  ASSUME IInv, ValuesKept, [Next]_vars
  PROVE  ValuesKept'
<1>0. \A p \in Places : type[p] \in PrmTypes => ReadBack(type[p], body[p], meant[p])
  BY ValuesKeptIs
<1> SUFFICES ASSUME NEW p \in Places, type'[p] \in PrmTypes
             PROVE  ReadBack(type'[p], body'[p], meant'[p])
  BY DEF ValuesKept, ReadBack
<1>1. None \notin PrmTypes \cup Classes /\ TypeOK
  BY NamesAssumption DEF IInv
<1>2. CASE type'[p] = type[p] /\ body'[p] = body[p] /\ meant'[p] = meant[p]
  BY <1>0, <1>2
<1>3. ASSUME NEW q \in Places, NEW ty \in PrmTypes \cup Classes, Placed(q, ty)
      PROVE  ReadBack(type'[p], body'[p], meant'[p])
  <2>1. CASE p = q
    <3>1. type'[p] = ty /\ meant'[p] = 0 /\ body'[p] = 0
      BY <1>1, <1>3, <2>1 DEF Placed, TypeOK
    <3> QED
      BY <3>1, NarrowedKept
  <2>2. CASE p # q
    BY <1>1, <1>2, <1>3, <2>2 DEF Placed, TypeOK
  <2> QED
    BY <2>1, <2>2
<1>4. ASSUME NEW q \in Places, NEW v \in Ints, SetPrm(q, v)
      PROVE  ReadBack(type'[p], body'[p], meant'[p])
  <2>1. CASE p = q
    <3>1. /\ type'[p] = type[p] /\ meant'[p] = v
          /\ body'[p] = Narrowed(type[p], v)
      BY <1>1, <1>4, <2>1 DEF SetPrm, TypeOK
    <3> QED
      BY <3>1, NarrowedKept, TypesAssumption
  <2>2. CASE p # q
    BY <1>1, <1>2, <1>4, <2>2 DEF SetPrm, TypeOK
  <2> QED
    BY <2>1, <2>2
<1>5. ASSUME NEW q \in Places, Free(q)
      PROVE  ReadBack(type'[p], body'[p], meant'[p])
  BY <1>1, <1>2, <1>5 DEF Free, TypeOK
<1>6. CASE AllocFails
  BY <1>1, <1>2, <1>6 DEF AllocFails, TypeOK, IInv, MakingTyped
<1>7. CASE \/ \E q \in Places, ty \in PrmTypes : AllocPrm(q, ty) \/ MakeZero(q, ty)
           \/ \E q \in Places, c \in Classes : AllocRef(q, c)
  BY <1>3, <1>7 DEF AllocPrm, MakeZero, AllocRef
<1>8. CASE UNCHANGED <<type, body, meant>>
  BY <1>2, <1>8
<1> QED
  BY <1>4, <1>5, <1>6, <1>7, <1>8
  DEF Next, vars, MakeNull, NextClass, Allocated, InitField, PutField, GetField,
      Drop

\* A number that is set in a value of its range can be read back from it, for
\* any width of a byte, whatever is made, freed and made again at its place.
THEOREM ValuesAreKept == Spec => []ValuesKept
<1>1. Init => IInv /\ ValuesKept
  BY InitIInv, InitValuesKept
<1>2. (IInv /\ ValuesKept) /\ [Next]_vars => (IInv /\ ValuesKept)'
  BY NextIInv, NextValuesKept
<1> QED
  BY <1>1, <1>2, PTL DEF Spec

-----------------------------------------------------------------------------
(* Fields hold what fits their types.                                      *)

Closed(S) == \A d \in S : Parent[d] \in S \cup {None}

LEMMA AboveIs ==
  ASSUME NEW c
  PROVE  Above(c) = {d \in Classes : \A S \in SUBSET Classes :
                                       c \in S /\ Closed(S) => d \in S}
BY DEF Above, Closed

LEMMA AboveSelf ==
  ASSUME NEW c \in Classes
  PROVE  c \in Above(c) /\ Above(c) \subseteq Classes
BY AboveIs

\* The class is all there is above one that has no parent.
LEMMA AboveTop ==
  ASSUME NEW c \in Classes, Parent[c] = None
  PROVE  Above(c) \subseteq {c}
<1>1. c \in {c} /\ Closed({c}) /\ {c} \in SUBSET Classes
  BY DEF Closed
<1> QED
  BY <1>1, AboveIs

\* What is above a class is the class and what is above its parent.
LEMMA AboveParent ==
  ASSUME NEW c \in Classes, Parent[c] # None
  PROVE  Above(c) \subseteq {c} \cup Above(Parent[c])
<1> DEFINE d == Parent[c]
           S == {c} \cup Above(d)
<1>1. d \in Classes
  BY TypesAssumption
<1>2. d \in Above(d) /\ Above(d) \subseteq Classes
  BY <1>1, AboveSelf
<1>3. Closed(Above(d))
  <2> SUFFICES ASSUME NEW e \in Above(d), Parent[e] # None
               PROVE  Parent[e] \in Above(d)
    BY DEF Closed
  <2>1. e \in Classes /\ Parent[e] \in Classes
    BY <1>2, TypesAssumption
  <2>2. ASSUME NEW T \in SUBSET Classes, d \in T, Closed(T)
        PROVE  Parent[e] \in T
    <3>1. e \in T
      BY <2>2, AboveIs
    <3> QED
      BY <2>2, <3>1 DEF Closed
  <2> QED
    BY <2>1, <2>2, AboveIs
<1>4. Closed(S)
  BY <1>2, <1>3 DEF Closed
<1>5. S \in SUBSET Classes /\ c \in S
  BY <1>2
<1> QED
  BY <1>4, <1>5, AboveIs

\* The fields that the object that is made has yet to get: those that are
\* left of a class, and those of the classes above it.
Pending ==
  LET c == making.class IN
  making.rest \cup IF Parent[c] = None THEN {} ELSE FieldsOf(Parent[c])

\* The fields of an object that are not pending hold what fits.
FieldsFit ==
  \A o \in Places :
    type[o] \in Classes =>
      \A f \in FieldsOf(type[o]) :
        \/ making.at = o /\ f \in Pending
        \/ FitsIn(field[o][f], FieldType[f])

\* A value still fits when its object has the type it had.
LEMMA FitsKept ==
  ASSUME NEW v, NEW ty, FitsIn(v, ty), v \in Places => type'[v] = type[v]
  PROVE  FitsIn(v, ty)'
BY DEF FitsIn

\* A step that leaves an object's fields alone, and does not free what they
\* hold, leaves it well typed.
LEMMA FitKept ==
  ASSUME IInv, NEW o \in Places, type[o] \in Classes, type'[o] = type[o],
         NEW f \in Fields, field'[o][f] = field[o][f],
         FitsIn(field[o][f], FieldType[f]),
         \A p \in Places : type[p] # None => type'[p] \in {type[p], None},
         \A p \in Places : field[o][f] = p => type'[p] # None
  PROVE  FitsIn(field[o][f], FieldType[f])'
<1>1. PICK v : v = field[o][f]
  OBVIOUS
<1>2. v \in Places => type'[v] = type[v]
  BY <1>1 DEF IInv, FieldsAlive
<1>3. FitsIn(v, FieldType[f])'
  BY <1>1, <1>2, FitsKept
<1> QED
  BY <1>1, <1>3

LEMMA FieldsOfAre ==
  ASSUME NEW c \in Classes
  PROVE  /\ FieldsOf(c) \subseteq Fields
         /\ FieldsOf(c) \subseteq
              Own[c] \cup IF Parent[c] = None THEN {} ELSE FieldsOf(Parent[c])
<1>1. FieldsOf(c) \subseteq Fields
  BY AboveSelf, TypesAssumption DEF FieldsOf
<1>2. CASE Parent[c] = None
  BY <1>1, <1>2, AboveTop DEF FieldsOf
<1>3. CASE Parent[c] # None
  BY <1>1, <1>3, AboveParent DEF FieldsOf
<1> QED
  BY <1>1, <1>2, <1>3

\* A new object at p leaves the others alone.
LEMMA PlacedFit ==
  ASSUME IInv, FieldsFit, NEW p \in Places, NEW ty \in PrmTypes \cup Classes,
         Placed(p, ty), field' = field,
         \A o \in Places \ {p} : making.at = o => making' = making,
         ty \in Classes => making'.at = p /\ FieldsOf(ty) \subseteq Pending'
  PROVE  FieldsFit'
<1>1. PlacedAlone(p, ty)
  BY PlacedIInv
<1> SUFFICES ASSUME NEW o \in Places, type'[o] \in Classes,
                    NEW f \in FieldsOf(type'[o])
             PROVE  \/ making'.at = o /\ f \in Pending'
                    \/ FitsIn(field[o][f], FieldType[f])'
  BY DEF FieldsFit
<1>2. CASE o = p
  BY <1>1, <1>2, TypesAssumption DEF PlacedAlone
<1>3. CASE o # p
  <2>1. type'[o] = type[o] /\ f \in Fields /\ f \in FieldsOf(type[o])
    BY <1>1, <1>3, FieldsOfAre DEF PlacedAlone
  <2>2. CASE making.at = o /\ f \in Pending
    BY <1>3, <2>2 DEF Pending
  <2>3. CASE FitsIn(field[o][f], FieldType[f])
    <3>1. field[o][f] # p
      BY <1>1, <2>1 DEF PlacedAlone
    <3>2. \A q \in Places : type[q] # None => type'[q] \in {type[q], None}
      BY <1>1 DEF PlacedAlone, Placed
    <3>3. \A q \in Places : field[o][f] = q => type'[q] # None
      BY <1>1, <2>1, <3>1 DEF PlacedAlone, IInv, FieldsAlive
    <3>4. field'[o][f] = field[o][f]
      OBVIOUS
    <3> QED
      BY <2>1, <2>3, <3>2, <3>3, <3>4, FitKept
  <2> QED
    BY <2>1, <2>2, <2>3 DEF FieldsFit
<1> QED
  BY <1>2, <1>3

\* An object that goes leaves the others alone.
LEMMA GoneFit ==
  ASSUME IInv, FieldsFit, NEW p \in Places, type' = [type EXCEPT ![p] = None],
         \A o \in Places \ {p} : field'[o] = field[o],
         \A o \in Places \ {p}, f \in Fields :
           type[o] \in Classes => field[o][f] # p,
         making' = making \/ making.at = p
  PROVE  FieldsFit'
<1>1. /\ type'[p] = None /\ None \notin Classes
      /\ \A q \in Places \ {p} : type'[q] = type[q]
  BY NamesAssumption DEF IInv, TypeOK
<1> SUFFICES ASSUME NEW o \in Places, type'[o] \in Classes,
                    NEW f \in FieldsOf(type'[o])
             PROVE  \/ making'.at = o /\ f \in Pending'
                    \/ FitsIn(field[o][f], FieldType[f])'
  BY DEF FieldsFit
<1>2. o # p /\ type'[o] = type[o] /\ f \in Fields /\ f \in FieldsOf(type[o])
  BY <1>1, FieldsOfAre
<1>3. CASE making.at = o /\ f \in Pending
  BY <1>2, <1>3 DEF Pending
<1>4. CASE FitsIn(field[o][f], FieldType[f])
  <2>1. \A q \in Places : type[q] # None => type'[q] \in {type[q], None}
    BY <1>1
  <2>2. \A q \in Places : field[o][f] = q => type'[q] # None
    BY <1>1, <1>2 DEF IInv, FieldsAlive
  <2>3. field'[o][f] = field[o][f]
    BY <1>2
  <2> QED
    BY <1>2, <1>4, <2>1, <2>2, <2>3, FitKept
<1> QED
  BY <1>2, <1>3, <1>4 DEF FieldsFit

\* A field that is set to what fits leaves the others alone.
LEMMA SetFit ==
  ASSUME IInv, FieldsFit, NEW p \in Places, NEW g \in Fields, NEW v,
         FitsIn(v, FieldType[g]), type' = type,
         field' = [field EXCEPT ![p][g] = v], making'.at = making.at,
         \A f \in Pending : f \in Pending' \/ (f = g /\ making.at = p)
  PROVE  FieldsFit'
<1>1. \A o \in Places, f \in Fields :
        field'[o][f] = IF o = p /\ f = g THEN v ELSE field[o][f]
  BY DEF IInv, TypeOK
<1>2. \A w, ty : FitsIn(w, ty)' <=> FitsIn(w, ty)
  BY DEF FitsIn
<1> SUFFICES ASSUME NEW o \in Places, type[o] \in Classes,
                    NEW f \in FieldsOf(type[o])
             PROVE  \/ making'.at = o /\ f \in Pending'
                    \/ FitsIn(field[o][f], FieldType[f])'
  BY DEF FieldsFit
<1>3. f \in Fields
  BY FieldsOfAre
<1>4. PICK w : w = field'[o][f]
  OBVIOUS
<1>5. \/ making'.at = o /\ f \in Pending'
      \/ FitsIn(w, FieldType[f])
  BY <1>1, <1>3, <1>4 DEF FieldsFit
<1>6. FitsIn(w, FieldType[f]) => FitsIn(field[o][f], FieldType[f])'
  BY <1>2, <1>4
<1> QED
  BY <1>5, <1>6

\* Nothing is stored.
LEMMA SameFit ==
  ASSUME FieldsFit, UNCHANGED <<type, field>>,
         \A o \in Places : making.at = o /\ Pending # {} =>
           making'.at = o /\ Pending \subseteq Pending'
  PROVE  FieldsFit'
<1>1. \A w, ty : FitsIn(w, ty)' <=> FitsIn(w, ty)
  BY DEF FitsIn
<1> SUFFICES ASSUME NEW o \in Places, type[o] \in Classes,
                    NEW f \in FieldsOf(type[o])
             PROVE  \/ making'.at = o /\ f \in Pending'
                    \/ FitsIn(field[o][f], FieldType[f])'
  BY DEF FieldsFit
<1>2. PICK w : w = field[o][f]
  OBVIOUS
<1>3. (making.at = o /\ f \in Pending) \/ FitsIn(w, FieldType[f])
  BY <1>2 DEF FieldsFit
<1>4. FitsIn(w, FieldType[f]) => FitsIn(field[o][f], FieldType[f])'
  BY <1>1, <1>2
<1> QED
  BY <1>3, <1>4

\* What a field starts with fits it.
LEMMA DefaultFits ==
  ASSUME IInv, NEW f \in Fields, Default(FieldType[f]) # None
  PROVE  FitsIn(Default(FieldType[f]), FieldType[f])
BY TypesAssumption DEF IInv, TypeOK, ZerosShared, Default, FitsIn

LEMMA NextFieldsFit ==
  ASSUME IInv, FieldsFit, [Next]_vars
  PROVE  FieldsFit'
<1>0. /\ TypeOK /\ making.rest \subseteq Fields
      /\ None \notin Places \cup PrmTypes \cup Classes
      /\ PrmTypes \cap Classes = {}
  BY NamesAssumption, TypesAssumption DEF IInv, TypeOK
<1>1. CASE \/ MakeNull \/ UNCHANGED vars
           \/ \E p \in Places : Drop(p) \/ \E v \in Ints : SetPrm(p, v)
           \/ \E o \in Places, f \in Fields : GetField(o, f)
  <2>1. UNCHANGED <<type, field, making>>
    BY <1>1 DEF MakeNull, vars, Drop, SetPrm, GetField
  <2>2. Pending' = Pending
    BY <2>1 DEF Pending
  <2> QED
    BY <2>1, <2>2, SameFit
<1>2. CASE NextClass
  <2>1. /\ making.rest = {} /\ making.class \in Classes
        /\ Parent[making.class] \in Classes
        /\ UNCHANGED <<type, field>>
        /\ making' = [making EXCEPT !.class = Parent[making.class],
                                    !.rest = Own[Parent[making.class]]]
    BY <1>0, <1>2, TypesAssumption DEF NextClass, ToParent, IInv, MakingTyped
  <2>2. /\ making'.at = making.at /\ making'.class = Parent[making.class]
        /\ making'.rest = Own[Parent[making.class]]
    BY <1>0, <2>1 DEF TypeOK
  <2>3. Pending = FieldsOf(Parent[making.class])
    BY <1>0, <2>1 DEF Pending
  <2>4. Pending' = Own[Parent[making.class]] \cup
                     IF Parent[Parent[making.class]] = None THEN {}
                       ELSE FieldsOf(Parent[Parent[making.class]])
    BY <2>2 DEF Pending
  <2>5. Pending \subseteq Pending'
    BY <2>1, <2>3, <2>4, FieldsOfAre
  <2> QED
    BY <2>1, <2>2, <2>5, SameFit
<1>3. CASE Allocated
  <2>1. Pending = {} /\ UNCHANGED <<type, field>>
    BY <1>3 DEF Allocated, ToParent, Pending
  <2> QED
    BY <2>1, SameFit
<1>4. CASE AllocFails
  <2> DEFINE p == making.at
  <2>1. /\ p \in Places /\ type' = [type EXCEPT ![p] = None]
        /\ field' = [field EXCEPT ![p] = [f \in Fields |-> None]]
    BY <1>4 DEF AllocFails, IInv, MakingTyped
  <2>2. \A o \in Places \ {p} : field'[o] = field[o]
    BY <1>0, <2>1 DEF TypeOK
  <2>3. \A o \in Places \ {p}, f \in Fields :
          type[o] \in Classes => field[o][f] # p
    BY <2>1 DEF IInv, FieldsAlive
  <2> QED
    BY <2>1, <2>2, <2>3, GoneFit
<1>5. ASSUME NEW p \in Places, NEW ty \in PrmTypes,
             AllocPrm(p, ty) \/ MakeZero(p, ty)
      PROVE  FieldsFit'
  <2>1. Placed(p, ty) /\ UNCHANGED <<field, making>>
    BY <1>5 DEF AllocPrm, MakeZero
  <2> QED
    BY <1>0, <2>1, PlacedFit
<1>6. ASSUME NEW p \in Places, NEW c \in Classes, AllocRef(p, c)
      PROVE  FieldsFit'
  <2>1. /\ Placed(p, c) /\ field' = field /\ making.at = None
        /\ making'.at = p /\ making'.class = c /\ making'.rest = Own[c]
    BY <1>6 DEF AllocRef, Idle
  <2>2. FieldsOf(c) \subseteq Pending'
    BY <2>1, FieldsOfAre DEF Pending
  <2> QED
    BY <1>0, <2>1, <2>2, PlacedFit
<1>7. ASSUME NEW f \in Fields, InitField(f)
      PROVE  FieldsFit'
  <2>0. PICK p, v : p = making.at /\ v = Default(FieldType[f])
    OBVIOUS
  <2>1. /\ p \in Places /\ type' = type
        /\ field' = [field EXCEPT ![p][f] = v] /\ v # None
        /\ making' = [making EXCEPT !.rest = @ \ {f}]
    BY <1>7, <2>0 DEF InitField, IInv, MakingTyped, Idle
  <2>2. /\ making'.at = making.at /\ making'.class = making.class
        /\ making'.rest = making.rest \ {f}
    BY <1>0, <2>1 DEF TypeOK
  <2>3. \A g \in Pending : g \in Pending' \/ (g = f /\ making.at = p)
    BY <2>0, <2>2 DEF Pending
  <2>4. FitsIn(v, FieldType[f])
    BY <2>0, <2>1, DefaultFits
  <2> QED
    BY <2>1, <2>2, <2>3, <2>4, SetFit
<1>8. ASSUME NEW o \in Places, NEW f \in Fields, NEW v \in Places \cup {Null},
             PutField(o, f, v)
      PROVE  FieldsFit'
  <2>1. /\ FitsIn(v, FieldType[f]) /\ type' = type
        /\ field' = [field EXCEPT ![o][f] = v]
    BY <1>8 DEF PutField
  <2>2. making'.at = making.at
    BY <1>8 DEF PutField
  <2>3. \A g \in Pending : g \in Pending' \/ (g = f /\ making.at = o)
    BY <1>8 DEF PutField, Pending
  <2> QED
    BY <2>1, <2>2, <2>3, SetFit
<1>9. ASSUME NEW p \in Places, Free(p)
      PROVE  FieldsFit'
  <2>1. /\ type' = [type EXCEPT ![p] = None] /\ making' = making
        /\ field' = [field EXCEPT ![p] = [f \in Fields |-> None]]
    BY <1>9 DEF Free
  <2>2. \A o \in Places \ {p} : field'[o] = field[o]
    BY <1>0, <2>1 DEF TypeOK
  <2>3. \A o \in Places \ {p}, f \in Fields :
          type[o] \in Classes => field[o][f] # p
    BY <1>9 DEF Free, Kept
  <2> QED
    BY <2>1, <2>2, <2>3, GoneFit
<1> QED
  BY <1>1, <1>2, <1>3, <1>4, <1>5, <1>6, <1>7, <1>8, <1>9 DEF Next

\* A field of an object always holds a value of its type, or of a class below
\* it: no allocation that fails half-way and no place that is used again lets
\* the program see another.
THEOREM ValuesFieldsTyped == Spec => []FieldsTyped
<1>1. Init => IInv /\ FieldsFit
  BY InitIInv, NamesAssumption DEF Init, FieldsFit
<1>2. (IInv /\ FieldsFit) /\ [Next]_vars => (IInv /\ FieldsFit)'
  BY NextIInv, NextFieldsFit
<1>3. FieldsFit => FieldsTyped
  BY DEF FieldsFit, FieldsTyped, Objects
<1> QED
  BY <1>1, <1>2, <1>3, PTL DEF Spec
=============================================================================
