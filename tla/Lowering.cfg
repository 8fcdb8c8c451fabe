SPECIFICATION Spec
CONSTANTS
  NameLength = 5
  ProgramLength = 2
  ObjectTypes <- MCObjectTypes
  EdgeTypes <- MCEdgeTypes
  KernelScalars <- MCScalars
  MaxDocuments = 3
  MaxFields = 2
  a = a
  b = b
  c = c
  Decimal = Decimal
  Clock = Clock
  Quantity = Quantity
  NoLimit = NoLimit
  Unasked = Unasked
  NoAnswer = NoAnswer
  Identity <- ThreeIdentities
  NativeRef <- OneNative
  Contracts <- EveryDocument
  Limits = {NoLimit, 1}
  Mistyped = Mistyped
SYMMETRY Interchangeable
INVARIANTS
  IdentitiesAreMintedAlike
  ProgramsAreKept
  BundlesAreClosed
  AnswersAreFresh
  SchemasKeepTheirMeaning
CHECK_DEADLOCK FALSE
