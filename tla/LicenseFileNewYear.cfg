SPECIFICATION FileSpec
CONSTANTS
  LastMonth = 2
  LastIssue = 3
PROPERTY NewerLicenseIsWritten
