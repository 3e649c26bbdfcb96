CONSTANTS
  MaxInst = 2
  MaxRuns = 2
  Items = {w1}
  Levels = {"supervised", "dark"}
  Meddled = {1}
SPECIFICATION Spec
INVARIANT TypeOK OneRunPerInstance PlanGateHeld StageExclusive
PROPERTY TerminatedStaysOut ImplementsStageLine
