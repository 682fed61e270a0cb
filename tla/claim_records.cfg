SPECIFICATION FairSpec
CONSTANTS
  a = a
  b = b
  lan = lan
  san = san
  NoName = NoName
  Claims = {a, b}
  Results <- TwoClaims
  Configured <- SomeNames
  Annotations <- SomeAnnotations
  ValidNames = {1, 2, 3, lan, san}
  NetLimit = 4
  MaxReports = 1
  MaxFaults = 2
INVARIANTS
  TypeOK
  NamesDistinct
  ReportBacked
  StartedComplete
  CleanWhenDone
PROPERTIES
  OtherReportsKept
  StartsInTheEnd
  UnpreparedInTheEnd
CHECK_DEADLOCK FALSE
