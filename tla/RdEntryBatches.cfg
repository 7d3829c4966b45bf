SPECIFICATION BatchesSpec
CONSTANTS
  Null = Null
  Handlers = {1, 2}
  Rank <- MCRank
  Observation <- Validated
  Load <- MCLoad
  LoadCount <- MCLoadCount
INVARIANTS
  CanonicalEntryIsProvenFirst
  AttemptsMakeVectors
  SelectionsSeeEarlierCommits
  CanonicalEntryIsKept
  AssembledIsCompleted
  PaperNeedsAgreement
  
