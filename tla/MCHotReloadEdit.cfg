\* An edit while the process boots.
SPECIFICATION FairSpec
CONSTANTS
  Policies = {p1, p2, p3, p4}
  Nil = Nil
  Sighup = Sighup
  Callbacks = {c1}
  Requests = {}
  Streams = {}
  MaxVersion = 2
  Invalid = {}
  BadLevel = {}
  BadFormat = {}
CHECK_DEADLOCK FALSE
PROPERTY EditObserved
