\* One request under every combination of groups, flags and outcomes, while the policy
\* is replaced.
SPECIFICATION FairSpec
CONSTANTS
  Requests = {r1}
  Policies <- CheckedPolicies
  Reloads <- SwapPolicies
  Nil = Nil
  MaxBody = 3
  Half = 8
CHECK_DEADLOCK FALSE
INVARIANTS DecisionIsVerdict AdmittedInspected DryRunNeverBlocks DeniedByOnePolicy CountedOnce
PROPERTY EveryRequestAnswered
