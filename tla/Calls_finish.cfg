SPECIFICATION Spec
CONSTANTS
  watch = watch
  write = write
  Stream = {watch, write}
  Polite = {write}
  Nothing = Nothing
  MaxWrites = 1
  MaxReads = 1
  MaxEvents = 3
CHECK_DEADLOCK FALSE
INVARIANT FinishIsLast
