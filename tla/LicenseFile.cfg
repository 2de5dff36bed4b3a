SPECIFICATION FairFileSpec
CONSTANTS
  LastMonth = 2
  LastIssue = 2
INVARIANTS
  FileTypeOK
  EmptyOnlyWhileWriting
  KilledOnlyWithCause
PROPERTIES
  OlderReplacesNewerOnlyInRace
  NewestLicenseInstalled
