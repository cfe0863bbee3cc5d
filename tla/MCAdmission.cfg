SPECIFICATION Spec
CONSTANTS
  Absent = Absent
  Paths <- AllPaths
  Outside <- OutsidePaths
  UnderRoot <- Roots
  Packages <- AllPackages
  ImportsOf <- Imports
  PolicyOf <- Policies
  LockOf <- Locks
  BundlerRuntime <- Runtime
  ScopeTiming <- Timing
  Warmups = 1
  MAX_SAFE = 4
  SAFETY_REGION = "us-east-1"
  VERDICT_CHANGING_RULES <- Rules
  FunctionsOf <- Functions
  Ignored <- IgnoredPaths
  Worlds <- AllWorlds
  AssetEntryPoints <- EntryPoints
  INFRA_PATH = "infra.ts"
  TemplateOf <- Templates
INVARIANTS AdmittedIsQualified OnlyDriftIsRefused AdmittedIsCommitted ManifestIsLast DeployedIsAdmitted TargetsAreEarned
CHECK_DEADLOCK FALSE
