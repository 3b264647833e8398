SPECIFICATION Spec
CONSTANTS
  Caller = {c1, c2}
  Folder = {0, 1, 4}
  File = {2, 3}
  Top = 0
  Parent <- MCParent
  Hidden = {4}
  Excluded <- MCExcluded
  Included <- MCIncluded
  Content = {"match", "other", "binary", "large"}
  Sensitive = {2}
  Limit <- MCLimit
  MaxResults = 1
  MaxDepth = 2
  CacheSize = 1
  MaxCalls = 2
  MaxEdits = 2
SYMMETRY Callers
CHECK_DEADLOCK FALSE
INVARIANTS ReadsWhatWasThere ListsWhatStays
