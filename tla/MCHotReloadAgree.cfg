\* Overlapping reloads and the two pointers.
SPECIFICATION Spec
CONSTANTS
  Policies = {p1, p2, p3, p4}
  Nil = Nil
  Sighup = Sighup
  Callbacks = {c1}
  Requests = {}
  Streams = {}
  MaxVersion = 2
  Invalid = {}
  BadLevel = {}
  BadFormat = {}
CHECK_DEADLOCK FALSE
INVARIANT ServersAgree
