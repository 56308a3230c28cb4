\* Both triggers: three reloads overlap, beside shutdown; the last version is invalid.
SPECIFICATION Spec
CONSTANTS
  Policies = {p1, p2, p3, p4}
  Nil = Nil
  Sighup = Sighup
  Callbacks = {c1, c2}
  Requests = {}
  Streams = {}
  MaxVersion = 3
  Invalid = {3}
  BadLevel = {1, 2, 3}
  BadFormat = {}
ACTION_CONSTRAINT FirstFresh
CHECK_DEADLOCK FALSE
INVARIANTS HTTPServesLive DisplacedAreStopped
