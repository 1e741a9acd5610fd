\* Twelve lines, four configuration files, two alerts at most on a line.
CONSTANTS
  NUL = "NUL"
  Invalid = {"("}
  Numeral <- MCNumeral
  Lines <- MCLines
  Inis <- MCInis

SPECIFICATION Spec

INVARIANTS
  TypeOK
  OrderIrrelevant
  ValuesKept
  FiltersAgree
  EncryptedFirst
  SessionsClosed
  CopiesAgree

PROPERTIES
  IsDelivery
