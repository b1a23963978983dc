SPECIFICATION PolicySpec
CONSTANTS
  Pods <- MCPods
  Objects <- MCObjects
  MaxPolicyChanges = 2
INVARIANTS SilenceIsDeclared OnlyAdmittedNamed
