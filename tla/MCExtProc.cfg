\* One stream, with reloads between its messages.
SPECIFICATION Spec
CONSTANTS
  Policies <- MCPolicies
  Reloads <- MCReloads
  Nil = Nil
  MaxBody = 3
CHECK_DEADLOCK FALSE
INVARIANTS ShadowInert FirstDirectWins UninspectedUntouched LastWriteWins ContentLengthFits VariablesSet
