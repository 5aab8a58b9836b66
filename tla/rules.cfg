CONSTANTS
  None = None
  Bad = Bad
  MAX_OPTION_INT = 3
  DefaultPriority = 2
  Setups <- SmallSetups
  MaxFaults = 1
SPECIFICATION Spec
INVARIANTS TypeOK ReportBalances EveryRuleLineReported FirstValidActive VerdictSound
CHECK_DEADLOCK FALSE
