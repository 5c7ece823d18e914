SPECIFICATION FairSpec
CONSTANTS
  ann = ann
  bob = bob
  Email = {ann, bob}
  Nobody = Nobody
  Unset = Unset
  MaxReturns = 2
  MaxSheets = 2
  MaxFaults = 1
INVARIANTS TypeOK DocumentNeedsAccount AccountHasDocument PageAgreesUnlessRaced
PROPERTIES PromotionStands PageIsPainted
CHECK_DEADLOCK FALSE
