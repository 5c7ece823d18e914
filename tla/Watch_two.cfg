SPECIFICATION Spec
CONSTANTS
  q1 = q1
  q2 = q2
  d1 = d1
  d2 = d2
  Query = {q1, q2}
  Doc = {d1, d2}
  Matches <- SharedQueries
  DocumentQuery = {q2}
  MaxChanges = 3
  MaxListens = 2
  MaxFaults = 0
CHECK_DEADLOCK FALSE
INVARIANT SyncedTogether
