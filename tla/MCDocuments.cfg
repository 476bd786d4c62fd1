CONSTANTS
  c1 = c1
  c2 = c2
  NoDoc = NoDoc
  Conversions = {c1, c2}
  Stem <- MCStem
  Routes = {"dwg2dxf", "dxf2dwg", "pdf", "office"}
  Megabytes <- MCMegabytes
  Deadline = 0
  UnitCount = 3
  BatchSize = 3
  GapBatchSize = 2
  GapRounds = 1
  MaxSplitDepth = 2
  MaxStray = 1
  MaxPieces = 3
  MaxSize = 2
  MaxWords = 3
  Labels <- MCLabels
  Prefix <- MCPrefix
  Translated = {"x", "y", "b"}
  MaxNumbers = 2
  Kinds = {"docx", "doc", "pdf", "xlsx", "xls", "dxf", "dwg"}
  j1 = j1
  j2 = j2
  SweepJobs = {j1, j2}
  XlsxJobs = {j2}
  JobTTL = 1
  KeepTTL = 2
  RetainAge = 1
  RetainCap = 1
  ListLimit = 1
  LastTick = 2
SPECIFICATION DocumentsSpec
INVARIANTS DocumentsTypeOK ConversionsKeptApart UnitsAccountedFor TranslationArrives
  DirsReclaimed 
PROPERTIES SweepSparesTheLiving RetentionIsBounded ConversionsEnd TranslationEnds
CHECK_DEADLOCK FALSE
