SPECIFICATION Spec
CONSTANTS
  v1 = v1
  v2 = v2
  c1 = c1
  c2 = c2
  None = None
  Versions = {v1, v2}
  Commits = {c1, c2}
  Runs <- OneRun
  VersionOf <- MCVersionOf
  Merged = {c1, c2}
  ServerOf <- MCServerOf
  FilesOf <- MCFilesOf
  ExceptionsOf <- MCExceptionsOf
  PackageBuilds <- MCPackageBuilds
  Sboms <- MCSboms
  Reports <- MCReports
  Retention = 0
  InspectReliable = FALSE
  MaxImageBuilds = 2
  MaxDay = 0
  MaxWindow = 1
  MaxMembers = 5
PROPERTY TagsImmutable
CHECK_DEADLOCK FALSE
