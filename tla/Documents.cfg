SPECIFICATION Spec
CONSTANTS
  MaxTypes = 4
  MaxNamed = 3
  MaxListed = 4
  Absent = Absent
  Safe = 2
  MaxEdits = 2
INVARIANTS
  AcceptedIsSound
  AcceptedValuesBelong
  DocumentReadersAgree
  DeclarationsAgree
  SubtypesSubstitute
  NarrowingIsSeen
  ClassifiersClassAlike
CHECK_DEADLOCK FALSE
