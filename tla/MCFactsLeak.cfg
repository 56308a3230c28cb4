\* Fetchers of a registry whose Start failed.
SPECIFICATION FairSpec
CONSTANTS
  ValueFacts = {}
  FileFacts = {f}
  URLFacts = {u, w}
  Stoppers = {reload, main}
  Readers = {}
  MaxSource = 2
CHECK_DEADLOCK FALSE
PROPERTY FailedStartDrains
