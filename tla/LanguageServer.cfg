SPECIFICATION Spec
CONSTANTS
  a = a
  b = b
  P = P
  Q = Q
  E = E
  Keyword = Keyword
  Nothing = Nothing
  Files <- MCFiles
  Project <- MCProject
  Names <- MCNames
  Classes <- MCClasses
  Texts <- MCTexts
  Disks <- MCDisks
  MaxSent = 4
  MaxRequests = 2
  MaxQueue = 2
INVARIANTS
  TypeOK
  DiagnosticsShown
PROPERTIES
  RequestsAnswered
  AnswersComplete
CHECK_DEADLOCK FALSE
