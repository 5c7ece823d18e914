SPECIFICATION Spec
CONSTANTS
  ann = ann
  bob = bob
  Email = {ann}
  Nobody = Nobody
  Unset = Unset
  MaxReturns = 1
  MaxSheets = 1
  MaxFaults = 0
INVARIANTS PageOffersSignIn
CHECK_DEADLOCK FALSE
