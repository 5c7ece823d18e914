SPECIFICATION Spec
CONSTANTS
  q1 = q1
  q2 = q2
  d1 = d1
  d2 = d2
  Query = {q1}
  Doc = {d1, d2}
  Matches <- OneQuery
  DocumentQuery = {}
  MaxChanges = 3
  MaxListens = 2
  MaxFaults = 1
CHECK_DEADLOCK FALSE
INVARIANT SyncedIsAlwaysConsistent
