\* --watch=false: one reload at a time; the logging format of one version is rejected.
SPECIFICATION FairSpec
CONSTANTS
  Policies = {p1, p2, p3, p4}
  Nil = Nil
  Sighup = Sighup
  Callbacks = {}
  Requests = {r1}
  Streams = {s1}
  MaxVersion = 3
  Invalid = {}
  BadLevel = {}
  BadFormat = {2}
ACTION_CONSTRAINT FirstFresh
CHECK_DEADLOCK FALSE
INVARIANTS ServedReady ServersAgree GRPCServesLive LoggingFollows StreamsForward
PROPERTIES SwitchSpec SignalObserved ShutdownCompletes
