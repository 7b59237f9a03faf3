CONSTANTS
  a = a
  b = b
  c = c
  d = d
  k1 = k1
  k2 = k2
  Names <- MCNames
  Paths <- MCPaths
  Policies <- MCPolicies
  Styles <- MCStyles
  RootStyle <- MCRootStyle
SPECIFICATION Spec
INVARIANT AllMeant
\* the call returns
CHECK_DEADLOCK FALSE
