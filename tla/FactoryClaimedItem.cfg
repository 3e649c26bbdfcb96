CONSTANTS
  MaxInst = 2
  MaxRuns = 2
  Items = {w1, w2}
  Levels = {"guided"}
  Meddled = {}
SPECIFICATION Spec
PROPERTY ClaimedItemsSkipped
