SPECIFICATION Spec
CONSTANTS
  t1 = t1
  t2 = t2
  NULL = NULL
  Task = {t1, t2}
  Half = 4
  BufLen = 2
  MaxSrc = 4
  MaxOps = 2
INVARIANTS TypeOK CopyFaithful CatFaithful
PROPERTIES OffsetNeverPosition AppendNeverOverwrites ProgramEnds
CHECK_DEADLOCK FALSE
