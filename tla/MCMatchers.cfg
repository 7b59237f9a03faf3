CONSTANTS
  a = a
  b = b
  c = c
  d = d
  k1 = k1
  k2 = k2
  Names <- MCNames
  Paths <- MCPaths
  Policies <- MCPolicies
  Styles <- MCStyles
  RootStyle <- MCRootStyle
  Bytes <- MCBytes
  Categories <- MCCategories
  Cases <- MCCases
SPECIFICATION TaskSpec
INVARIANTS OnlyMeant NoneLost NarrowerWins OnlyConfigured EachWordReported FirstBits
\* the task ends
CHECK_DEADLOCK FALSE
