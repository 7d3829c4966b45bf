SPECIFICATION Spec
CHECK_DEADLOCK FALSE
CONSTANTS
  Null = Null
  Rank <- MCRank
  Inputs <- MCInputs
  Alterations <- MCAlterations
  Altered <- MCAltered
  Reportable <- MCReportable
INVARIANTS
  DirectionsAreMirrored
  EarliestExactTriggerWins
  
  HonestReportIsAccepted
  TradedEntryIsAuthoritative
  ExitReasonIsDetermined
