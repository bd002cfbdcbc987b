SPECIFICATION SiteSpec
CONSTANTS
  UserFiles <- MCFiles
  MaxAttempts = 3
  MaxStarts = 3
  MaxRetries = 3
INVARIANTS OneStream
PROPERTIES RestartAgrees MainProgresses RecoveryReported StreamResumes
