\* One file, two URLs; two overlapping Stop calls.
SPECIFICATION FairSpec
CONSTANTS
  ValueFacts = {}
  FileFacts = {f}
  URLFacts = {u, w}
  Stoppers = {reload, main}
  Readers = {e}
  MaxSource = 2
CHECK_DEADLOCK FALSE
INVARIANTS FactsPresent StoppedIsSilent
PROPERTIES SnapshotsForward StopReturnsEventually
