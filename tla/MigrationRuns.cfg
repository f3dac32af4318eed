CONSTANTS
  Workspaces = {1, 2}
  Docs = {1, 2}
  Sources <- SomeSources
  MaxRuns = 2
  MaxServed = 1
SPECIFICATION Spec
INVARIANT SuccessMeansMigrated
PROPERTY ReportAccounts
