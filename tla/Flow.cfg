SPECIFICATION FairFlow
CONSTANTS
  Task = {t1, t2}
  NRuns = 2
  NBatches = 6
  HasReviewer = TRUE
  MaxBatches = 2
  Ready = {{t1}, {t1, t2}}
  MaxPairs = 2
  MaxCrash = 1
  MaxFault = 1
  MaxUser = 1
  MaxMishaps = 1

    
PROPERTIES
    FinishedNotRedone
    RunsEnd
CHECK_DEADLOCK FALSE
