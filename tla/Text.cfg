SPECIFICATION Spec
CONSTANTS
  StepBound = 1000
  MaxProgram = 60
  StructureLength = 5
  BoundsLength = 4
  ClassLength = 6
  PathLength = 5
  ScalarLength = 5
  BytesLength = 4
  DurationLength = 6
  CalendarYears = {0, 1, 1899, 1900, 1969, 1970, 1999, 2000, 2100, 2400}
  MaxInteger = 1700
  SubjectLength = 2
  Plain = 4
  Leading = 3
  MaxCopies = 3
  TokensLength = 7
  NumberLength = 6
  DigitsLength = 4
  StringLength = 5
  PointerLength = 5
  PatchSteps = 2
  Numbers = {0, 1}
  UnitValues = {1, 2}
  MaxIdentifiers = 2
  MaxNodes = 3
  MaxTypes = 3
  MaxDeclarations = 3
  MaxDefinitions = 2
  Unbounded = Unbounded
  None = None
  Width = 4
  Reserved = {"class", "ValidationError"}
  FixedSurface = {"ValidationError", "TYPE_KIND"}
  Internals = {"fail"}
  Unspellable = " "
  EscapedAs = "_u0020"
  Digit = "2"
INVARIANTS
  PatternsMeanTheSame
  ScalarsAgree
  JsonIsReadAndWritten
  PatchesAgree
  AlgorithmsReturnTheirMeaning
  UnitsConvert
CHECK_DEADLOCK FALSE
