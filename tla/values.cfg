\* Objects of a class and of one below it, in four places.
SPECIFICATION Spec
CONSTANTS
  p1 = p1
  p2 = p2
  p3 = p3
  p4 = p4
  base = base
  sub = sub
  x = x
  y = y
  z = z
  Null = Null
  None = None
  Places = {p1, p2, p3, p4}
  PrmTypes = {"BYTE", "SHORT", "CHAR"}
  Byte = 4
  Classes = {base, sub}
  Parent <- MCParent
  Fields = {x, y, z}
  Own <- MCOwn
  FieldType <- MCFieldType
  Ints <- MCInts
SYMMETRY Symmetry
INVARIANTS TypeOK FieldsTyped ReadsAsPut ValuesKept
CHECK_DEADLOCK FALSE
