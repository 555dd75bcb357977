SPECIFICATION MCSpec
CONSTANTS
  None = None
  MaxEdits = 2
  MaxMishaps = 3
  MaxRecoveries = 4
  CanaryMishaps = 2
  CanaryRecoveries = 2
  Inputs <- PackInputs
  MaxFileBytes = 2
  MaxPackBytes = 8
  MaxGeneration = 3
  MaxJobs = 2
  MaxAlterings = 2
INVARIANTS
  BaselineIsLasting
  RecoveryIsExact
  VerifiedIsOnePack
  DownloadIsOfShown
PROPERTIES
  PublishedIsUndone
CHECK_DEADLOCK FALSE
