\* A bucket of three objects, pages of two, up to three attempts, every fault.
SPECIFICATION FairSpec
CONSTANTS
  NumObjects = 3
  PageSize = 2
  MaxAttempts = 3
  HasTimeout = TRUE
  FailureModes = {"fail-fast", "best-effort"}
  Skippable <- MCSkippable
  IncludeManifest = TRUE
  ManifestMax = 2
  Faults = {"name", "append", "save", "upload"}
INVARIANTS
  UploadIsWhole
PROPERTIES
  AbortEndsRetries
  JobSettles
CHECK_DEADLOCK FALSE
