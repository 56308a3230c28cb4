----------------------------- MODULE HotReload -----------------------------
(***************************************************************************)
(* The life of a policy in one process: booting, serving, replacing it on  *)
(* SIGHUP or when the file changes, and shutting down (cmd/main.go, with   *)
(* the policy pointers of the two servers and the watcher's debounce).     *)
(*                                                                         *)
(* Goroutines.  Reloads run on the SIGHUP goroutine and on one goroutine   *)
(* per expired debounce timer (time.AfterFunc); nothing serialises them.   *)
(* Requests and ext_proc streams read the pointers at any time; the main   *)
(* goroutine shuts down.  Callbacks = {} is the program run with           *)
(* --watch=false.                                                          *)
(*                                                                         *)
(* Abstractions.  A policy is a pointer with the version of the file it    *)
(* was read from and the state of its facts registry (module Facts has the *)
(* inside of a registry).  A pointer nobody holds may be reused: garbage   *)
(* collection.  An inotify event is counted, not described.                *)
(***************************************************************************)
EXTENDS Naturals

CONSTANTS
  Policies,    \* addresses of *policy.Config objects
  Nil,         \* the nil pointer
  Sighup,      \* the SIGHUP goroutine
  Callbacks,   \* goroutines that can run an expired debounce timer
  Requests,    \* HTTP requests (ext-authz checks)
  Streams,     \* ext_proc gRPC streams
  MaxVersion,  \* bound: the last version of the policy file
  Invalid,     \* versions of the file that policy.LoadFile rejects
  BadLevel,    \* versions whose logging level log.Configure rejects
  BadFormat    \* versions whose logging format it rejects

Reloaders == Callbacks \cup {Sighup}
Versions  == 1..MaxVersion

ASSUME NilAssumption     == Nil \notin Policies
ASSUME SighupAssumption  == Sighup \notin Callbacks
ASSUME VersionAssumption ==
  /\ MaxVersion \in Nat \ {0} /\ Invalid \subseteq Versions
  /\ BadLevel \subseteq Versions /\ BadFormat \subseteq Versions

VARIABLES
  disk,      \* version of the policy file on disk
  events,    \* file events the watcher has not read yet
  timer,     \* the debounce timer is armed
  hup,       \* the buffered SIGHUP channel holds a signal
  phase,     \* where the main goroutine is
  pc,        \* where each reloader is in reload()
  newCfg,    \* reload()'s newCfg
  old,       \* reload()'s old
  version,   \* version[p]: what p was loaded from
  reg,       \* reg[p]: the state of p's facts registry; "abandoned" if Start() failed
  http,      \* httpserver.Server.policy
  grpc,      \* grpcserver.Server.policy
  level,     \* version whose logging block set the log level
  logging,   \* version whose logging block built the log handler
  mainCfg,   \* main()'s cfg while booting, its p while shutting down
  req,       \* req[r]: the policy request r captured
  seen,      \* seen[s]: versions the messages of open stream s were handled under
  open,      \* the open streams
  lastRead   \* history: version read by the latest policy.LoadFile

trig    == <<disk, events, timer, hup>>
local   == <<pc, newCfg, old>>
heap    == <<version, reg>>
logger  == <<level, logging>>
served  == <<http, grpc, logger>>
clients == <<req, seen, open>>
main    == <<phase, mainCfg>>
vars    == <<trig, local, heap, served, clients, main, lastRead>>

Phases == {"boot", "bootStart", "serving", "stopHTTP", "stopGRPC", "stopPolicy",
           "stopFinal", "exited"}
Up     == phase \in Phases \ {"boot", "bootStart", "exited"}  \* main()'s goroutines run

TypeOK ==
  /\ disk \in Versions /\ lastRead \in 0..MaxVersion
  /\ level \in 0..MaxVersion /\ logging \in 0..MaxVersion
  /\ events \in Nat /\ timer \in BOOLEAN /\ hup \in BOOLEAN
  /\ phase \in Phases
  /\ pc \in [Reloaders -> {"idle", "load", "start", "log", "swapHTTP", "swapGRPC",
                           "stop"}]
  /\ newCfg \in [Reloaders -> Policies \cup {Nil}]
  /\ old \in [Reloaders -> Policies \cup {Nil}]
  /\ version \in [Policies -> 0..MaxVersion]
  /\ reg \in [Policies -> {"none", "built", "running", "stopped", "abandoned"}]
  /\ {http, grpc, mainCfg} \subseteq Policies \cup {Nil}
  /\ req \in [Requests -> Policies \cup {Nil}]
  /\ open \subseteq Streams /\ seen \in [Streams -> SUBSET (0..MaxVersion)]

Init ==
  /\ disk = 1 /\ lastRead = 0 /\ level = 0 /\ logging = 0
  /\ events = 0 /\ timer = FALSE /\ hup = FALSE
  /\ phase = "boot"
  /\ pc = [t \in Reloaders |-> "idle"]
  /\ newCfg = [t \in Reloaders |-> Nil] /\ old = [t \in Reloaders |-> Nil]
  /\ version = [p \in Policies |-> 0] /\ reg = [p \in Policies |-> "none"]
  /\ http = Nil /\ grpc = Nil /\ mainCfg = Nil
  /\ req = [r \in Requests |-> Nil]
  /\ open = {} /\ seen = [s \in Streams |-> {}]

-----------------------------------------------------------------------------
(* The environment: someone edits the file or sends a signal.              *)

\* The file gets new content; a running watcher is sent an event.
Edit ==
  /\ phase # "exited" /\ disk < MaxVersion
  /\ disk' = disk + 1
  /\ events' = IF Up /\ Callbacks # {} THEN events + 1 ELSE events
  /\ UNCHANGED <<timer, hup, local, heap, served, clients, main, lastRead>>

\* os/signal drops a SIGHUP when the channel's one slot is taken.
Signal ==
  /\ Up
  /\ hup' = TRUE
  /\ UNCHANGED <<disk, events, timer, local, heap, served, clients, main, lastRead>>

-----------------------------------------------------------------------------
(* The triggers.                                                           *)

\* Slip: signals are drained while a reload runs.
TakeSignalDraining ==
  /\ Up /\ hup
  /\ hup' = FALSE
  /\ pc' = IF pc[Sighup] = "idle" THEN [pc EXCEPT ![Sighup] = "load"] ELSE pc
  /\ UNCHANGED <<disk, events, timer, newCfg, old, heap, served, clients, main,
                 lastRead>>

\* The SIGHUP goroutine takes the signal and calls reload.
TakeSignal ==
  /\ Up /\ hup /\ pc[Sighup] = "idle"
  /\ hup' = FALSE
  /\ pc' = [pc EXCEPT ![Sighup] = "load"]
  /\ UNCHANGED <<disk, events, timer, newCfg, old, heap, served, clients, main,
                 lastRead>>

\* The watcher reads an event and fires: it stops the timer and arms a new one.
\* A timer that already expired is past stopping: its callback runs on.
WatchEvent ==
  /\ Up /\ events > 0
  /\ events' = events - 1
  /\ timer' = TRUE
  /\ UNCHANGED <<disk, hup, local, heap, served, clients, main, lastRead>>

\* The timer expires: the runtime runs the callback on a goroutine of its own.
TimerExpires(t) ==
  /\ Up /\ timer /\ pc[t] = "idle"
  /\ timer' = FALSE
  /\ pc' = [pc EXCEPT ![t] = "load"]
  /\ UNCHANGED <<disk, events, hup, newCfg, old, heap, served, clients, main,
                 lastRead>>

-----------------------------------------------------------------------------
(* reload(), one action per effect another goroutine can observe.          *)

Referenced(p) ==
  \/ p \in {http, grpc, mainCfg}
  \/ \E t \in Reloaders : p \in {newCfg[t], old[t]}
  \/ \E r \in Requests : p = req[r]

\* An address new(policy.Config) can return.
Fresh(p) == reg[p] # "running" /\ ~Referenced(p)

\* reload() returns: its locals go out of scope.
Return(t) ==
  /\ pc' = [pc EXCEPT ![t] = "idle"]
  /\ newCfg' = [newCfg EXCEPT ![t] = Nil]
  /\ old' = [old EXCEPT ![t] = Nil]

\* Slip: the content comes from a stale copy of the file.
LoadFileStale(t) ==
  /\ Up /\ pc[t] = "load" /\ disk \notin Invalid
  /\ lastRead' = disk
  /\ \E p \in Policies, v \in (1..disk) \ Invalid :
       /\ Fresh(p)
       /\ version' = [version EXCEPT ![p] = v]
       /\ reg' = [reg EXCEPT ![p] = "built"]
       /\ newCfg' = [newCfg EXCEPT ![t] = p]
  /\ pc' = [pc EXCEPT ![t] = "start"]
  /\ UNCHANGED <<trig, old, served, clients, main>>

LoadFile(t) ==
  /\ Up /\ pc[t] = "load" /\ disk \notin Invalid
  /\ lastRead' = disk
  /\ \E p \in Policies :
       /\ Fresh(p)
       /\ version' = [version EXCEPT ![p] = disk]
       /\ reg' = [reg EXCEPT ![p] = "built"]
       /\ newCfg' = [newCfg EXCEPT ![t] = p]
  /\ pc' = [pc EXCEPT ![t] = "start"]
  /\ UNCHANGED <<trig, old, served, clients, main>>

LoadFails(t) ==
  /\ Up /\ pc[t] = "load" /\ disk \in Invalid
  /\ lastRead' = disk
  /\ Return(t)
  /\ UNCHANGED <<trig, heap, served, clients, main>>

Start(t) ==
  /\ Up /\ pc[t] = "start"
  /\ reg' = [reg EXCEPT ![newCfg[t]] = "running"]
  /\ pc' = [pc EXCEPT ![t] = "log"]
  /\ UNCHANGED <<trig, newCfg, old, version, served, clients, main, lastRead>>

\* Slip: no return after the error.
StartFailsIgnored(t) ==
  /\ Up /\ pc[t] = "start"
  /\ reg' = [reg EXCEPT ![newCfg[t]] = "abandoned"]
  /\ pc' = [pc EXCEPT ![t] = "log"]
  /\ UNCHANGED <<trig, newCfg, old, version, served, clients, main, lastRead>>

\* A fact has no first value: reload gives the new policy up, without Stop().
StartFails(t) ==
  /\ Up /\ pc[t] = "start"
  /\ reg' = [reg EXCEPT ![newCfg[t]] = "abandoned"]
  /\ Return(t)
  /\ UNCHANGED <<trig, version, served, clients, main, lastRead>>

\* log.Configure sets the level, then finds the format unknown: an error keeps what is
\* not reached.
Configure(v) ==
  /\ level' = IF v \in BadLevel THEN level ELSE v
  /\ logging' = IF v \in BadLevel \cup BadFormat THEN logging ELSE v

\* Slip: the logger keeps its boot configuration.
ApplyLoggingSkipped(t) ==
  /\ Up /\ pc[t] = "log"
  /\ pc' = [pc EXCEPT ![t] = "swapHTTP"]
  /\ UNCHANGED <<trig, newCfg, old, heap, served, clients, main, lastRead>>

ApplyLogging(t) ==
  /\ Up /\ pc[t] = "log"
  /\ Configure(version[newCfg[t]])
  /\ pc' = [pc EXCEPT ![t] = "swapHTTP"]
  /\ UNCHANGED <<trig, newCfg, old, heap, http, grpc, clients, main, lastRead>>

\* Slip: old is taken from the other server.
SwapHTTPWrongOld(t) ==
  /\ Up /\ pc[t] = "swapHTTP"
  /\ old' = [old EXCEPT ![t] = grpc]
  /\ http' = newCfg[t]
  /\ pc' = [pc EXCEPT ![t] = "swapGRPC"]
  /\ UNCHANGED <<trig, newCfg, heap, grpc, logger, clients, main, lastRead>>

SwapHTTP(t) ==
  /\ Up /\ pc[t] = "swapHTTP"
  /\ old' = [old EXCEPT ![t] = http]
  /\ http' = newCfg[t]
  /\ pc' = [pc EXCEPT ![t] = "swapGRPC"]
  /\ UNCHANGED <<trig, newCfg, heap, grpc, logger, clients, main, lastRead>>

\* Slip: only one server is given the new policy.
SwapGRPCSkipped(t) ==
  /\ Up /\ pc[t] = "swapGRPC"
  /\ pc' = [pc EXCEPT ![t] = "stop"]
  /\ UNCHANGED <<trig, newCfg, old, heap, served, clients, main, lastRead>>

SwapGRPC(t) ==
  /\ Up /\ pc[t] = "swapGRPC"
  /\ grpc' = newCfg[t]
  /\ pc' = [pc EXCEPT ![t] = "stop"]
  /\ UNCHANGED <<trig, newCfg, old, heap, http, logger, clients, main, lastRead>>

\* Slip: the displaced policy is forgotten.
StopOldSkipped(t) ==
  /\ Up /\ pc[t] = "stop"
  /\ Return(t)
  /\ UNCHANGED <<trig, heap, served, clients, main, lastRead>>

StopOld(t) ==
  /\ Up /\ pc[t] = "stop"
  /\ reg' = [reg EXCEPT ![old[t]] = "stopped"]
  /\ Return(t)
  /\ UNCHANGED <<trig, version, served, clients, main, lastRead>>

-----------------------------------------------------------------------------
(* Clients.  An HTTP request loads the pointer once; the loop of Process   *)
(* loads it again for every message of a stream.                           *)

\* srv.Stop() closes listeners and idle connections; one just accepted is still served.
BeginRequest(r) ==
  /\ phase \in {"serving", "stopHTTP"} /\ req[r] = Nil
  /\ req' = [req EXCEPT ![r] = http]
  /\ UNCHANGED <<trig, local, heap, served, seen, open, main, lastRead>>

EndRequest(r) ==
  /\ Up /\ req[r] # Nil
  /\ req' = [req EXCEPT ![r] = Nil]
  /\ UNCHANGED <<trig, local, heap, served, seen, open, main, lastRead>>

\* GracefulStop refuses new streams and lets the open ones run.
OpenStream(s) ==
  /\ phase \in {"serving", "stopHTTP"} /\ s \notin open
  /\ open' = open \cup {s}
  /\ UNCHANGED <<trig, local, heap, served, req, seen, main, lastRead>>

StreamMessage(s) ==
  /\ Up /\ s \in open
  /\ seen' = [seen EXCEPT ![s] = @ \cup {version[grpc]}]
  /\ UNCHANGED <<trig, local, heap, served, req, open, main, lastRead>>

CloseStream(s) ==
  /\ Up /\ s \in open
  /\ open' = open \ {s}
  /\ seen' = [seen EXCEPT ![s] = {}]
  /\ UNCHANGED <<trig, local, heap, served, req, main, lastRead>>

-----------------------------------------------------------------------------
(* The main goroutine.                                                     *)

\* Reading the file and applying its logging block; then the facts get their
\* first values, and only then the servers and the watcher exist.
BootLoad ==
  /\ phase = "boot" /\ disk \notin Invalid
  /\ lastRead' = disk /\ Configure(disk)
  /\ \E p \in Policies :
       /\ version' = [version EXCEPT ![p] = disk]
       /\ reg' = [reg EXCEPT ![p] = "built"]
       /\ mainCfg' = p
  /\ phase' = "bootStart"
  /\ UNCHANGED <<trig, local, http, grpc, clients>>

BootStart ==
  /\ phase = "bootStart"
  /\ reg' = [reg EXCEPT ![mainCfg] = "running"]
  /\ http' = mainCfg /\ grpc' = mainCfg /\ mainCfg' = Nil
  /\ phase' = "serving"
  /\ UNCHANGED <<trig, local, version, logger, clients, lastRead>>

\* log.Fatalf: the file is invalid, or a fact has no first value.
BootFails ==
  /\ (phase = "boot" /\ disk \in Invalid) \/ phase = "bootStart"
  /\ phase' = "exited"
  /\ UNCHANGED <<trig, local, heap, served, clients, mainCfg, lastRead>>

\* SIGINT or SIGTERM.
StopSignal ==
  /\ phase = "serving"
  /\ phase' = "stopHTTP"
  /\ UNCHANGED <<trig, local, heap, served, clients, mainCfg, lastRead>>

\* srv.Stop() returns: no request is left, or its 5 s deadline has passed.
HTTPStopped ==
  /\ phase = "stopHTTP"
  /\ phase' = "stopGRPC"
  /\ UNCHANGED <<trig, local, heap, served, clients, mainCfg, lastRead>>

\* gsrv.Stop() returns: GracefulStop waits for every stream, with no deadline.
GRPCStopped ==
  /\ phase = "stopGRPC" /\ open = {}
  /\ phase' = "stopPolicy"
  /\ UNCHANGED <<trig, local, heap, served, clients, mainCfg, lastRead>>

\* Slip: shutdown waits for a moment without a reload.
TakePolicyWaiting ==
  /\ phase = "stopPolicy" /\ \A t \in Reloaders : pc[t] = "idle" /\ ~hup
  /\ mainCfg' = http
  /\ phase' = "stopFinal"
  /\ UNCHANGED <<trig, local, heap, served, clients, lastRead>>

TakePolicy ==
  /\ phase = "stopPolicy"
  /\ mainCfg' = http
  /\ phase' = "stopFinal"
  /\ UNCHANGED <<trig, local, heap, served, clients, lastRead>>

\* p.Stop() and the return from main, which ends every other goroutine.
StopPolicy ==
  /\ phase = "stopFinal"
  /\ reg' = [reg EXCEPT ![mainCfg] = "stopped"]
  /\ phase' = "exited"
  /\ UNCHANGED <<trig, local, version, served, clients, mainCfg, lastRead>>

\* A listener fails: os.Exit(1).
ServerCrash ==
  /\ phase = "serving"
  /\ phase' = "exited"
  /\ UNCHANGED <<trig, local, heap, served, clients, mainCfg, lastRead>>

-----------------------------------------------------------------------------
ReloadStep(t) ==
  \/ LoadFile(t) \/ LoadFails(t) \/ Start(t) \/ StartFails(t)
  \/ ApplyLogging(t) \/ SwapHTTP(t) \/ SwapGRPC(t) \/ StopOld(t)

Shutdown == HTTPStopped \/ GRPCStopped \/ TakePolicy \/ StopPolicy

Next ==
  \/ Edit \/ Signal \/ TakeSignal \/ WatchEvent
  \/ \E t \in Callbacks : TimerExpires(t)
  \/ \E t \in Reloaders : ReloadStep(t)
  \/ \E r \in Requests : BeginRequest(r) \/ EndRequest(r)
  \/ \E s \in Streams : OpenStream(s) \/ StreamMessage(s) \/ CloseStream(s)
  \/ BootLoad \/ BootStart \/ BootFails
  \/ StopSignal \/ Shutdown \/ ServerCrash

Spec == Init /\ [][Next]_vars

\* The Go scheduler runs every goroutine that can run; LoadFile and Start end
\* (every fetch has a timeout), an armed timer expires, srv.Stop has a deadline.
\* Nothing is assumed of editors, signals, requests or streams.
Fairness ==
  /\ WF_vars(TakeSignal \/ ReloadStep(Sighup))
  /\ WF_vars(WatchEvent) /\ WF_vars(\E t \in Callbacks : TimerExpires(t))
  /\ \A t \in Callbacks : WF_vars(ReloadStep(t))
  /\ WF_vars(Shutdown)

FairSpec == Spec /\ Fairness

-----------------------------------------------------------------------------
(* What holds with both triggers on.                                       *)

Ready(p) == reg[p] \in {"running", "stopped"}
Quiet    == \A t \in Reloaders : pc[t] = "idle"

\* The policy only reload() on t can stop: the one it built, until it is served;
\* then the one it displaced.
Own(t) == IF pc[t] \in {"start", "log", "swapHTTP"} THEN newCfg[t] ELSE old[t]

\* reload()'s locals are set exactly between their assignment and the return.
Locals ==
  \A t \in Reloaders :
    /\ newCfg[t] = Nil <=> pc[t] \in {"idle", "load"}
    /\ old[t] = Nil <=> pc[t] \notin {"swapGRPC", "stop"}

\* Which pointers main() has set in each phase.
Pointers ==
  /\ Up => http # Nil /\ grpc # Nil
  /\ phase \in {"bootStart", "stopFinal"} => mainCfg # Nil
  /\ phase \in {"boot", "bootStart"} =>
       /\ http = Nil /\ grpc = Nil
       /\ \A t \in Reloaders : pc[t] = "idle"
       /\ \A r \in Requests : req[r] = Nil
       /\ \A p \in Policies : reg[p] # "running"

\* Every registry with running fetchers has exactly one goroutine that will stop it,
\* or is the current policy's; an unserved policy is reachable from its reload only.
Ownership ==
  Up =>
    /\ reg[http] = "running"
    /\ \A p \in Policies : reg[p] = "running" => p = http \/ \E t \in Reloaders : p = Own(t)
    /\ \A t \in Reloaders : Own(t) # http
    /\ \A t, u \in Reloaders : t # u /\ Own(t) # Nil => Own(t) # Own(u)
    /\ \A t \in Reloaders : pc[t] = "start" => reg[newCfg[t]] = "built"
    /\ \A t \in Reloaders : Own(t) # Nil /\ pc[t] # "start" => reg[Own(t)] = "running"
    /\ \A t \in Reloaders : pc[t] \in {"start", "log", "swapHTTP"} =>
         /\ newCfg[t] # grpc
         /\ \A u \in Reloaders \ {t} : newCfg[u] # newCfg[t]
         /\ \A r \in Requests : req[r] # newCfg[t]
    /\ \A t \in Reloaders : pc[t] \in {"swapGRPC", "stop"} => Ready(newCfg[t])
    /\ Ready(grpc)
    /\ \A r \in Requests : req[r] # Nil => Ready(req[r])

IInv == TypeOK /\ Locals /\ Pointers /\ Ownership

\* A policy whose facts lack a first value is never served: neither pointer, nor
\* a request that captured one, ever reaches a policy that Start() has not
\* accepted, however reloads, requests and shutdown interleave.
ServedReady ==
  Up => /\ Ready(http) /\ Ready(grpc)
        /\ \A r \in Requests : req[r] # Nil => Ready(req[r])

\* Until the process ends the fetchers of the policy that answers ext-authz checks
\* run: no reload, of any number that overlap, stops the registry of the policy
\* that is current, and none is stopped twice by two reloads.
HTTPServesLive ==
  Up => /\ reg[http] = "running"
        /\ \A t \in Reloaders : pc[t] \in {"swapGRPC", "stop"} => reg[old[t]] = "running"

\* Every policy that reloads displaced is stopped: once all of them have returned, the
\* current policy is the only one whose Start() returned nil and whose fetchers run.  It
\* does not speak of a policy that was given up because Start() failed ("abandoned"):
\* FailedStartDrains, of module Facts, is about what that one leaves behind.
DisplacedAreStopped ==
  Up /\ Quiet => {p \in Policies : reg[p] = "running"} = {http}

-----------------------------------------------------------------------------
(* What holds when reloads cannot overlap (--watch=false).                 *)

\* The logger is configured by p, if log.Configure takes p's logging block.
LoggedBy(p) ==
  version[p] \notin BadLevel \cup BadFormat => level = version[p] /\ logging = version[p]

\* With one reloader: how far the ext_proc server and the logger lag in each step,
\* and that versions on the way to being served are no older than the served one.
Sequential ==
  Up =>
    LET at(pcs) == pc[Sighup] \in pcs
        new     == newCfg[Sighup]
    IN  /\ ~at({"swapGRPC"}) => grpc = http
        /\ at({"swapGRPC"}) => grpc = old[Sighup]
        /\ at({"swapGRPC", "stop"}) => http = new
        /\ version[http] \in 1..disk /\ version[grpc] \in 1..version[http]
        /\ at({"start", "log", "swapHTTP"}) => version[new] \in version[http]..disk
        /\ at({"idle", "load", "start", "log"}) => LoggedBy(http)
        /\ at({"swapHTTP", "swapGRPC", "stop"}) => LoggedBy(new)

\* Booting: the logger is configured by the policy about to be served.
Booting ==
  phase = "bootStart" => LoggedBy(mainCfg) /\ version[mainCfg] \in 1..disk

SeqInv == IInv /\ Sequential /\ Booting

\* Once a reload has returned both servers use the same policy object.
ServersAgree == Up /\ Quiet => http = grpc

\* The fetchers of the policy that answers ext_proc messages run too: the old
\* registry is stopped only after both pointers moved on.
GRPCServesLive == Up => reg[grpc] = "running"

\* Level and handler are those of the policy in use, if log.Configure took its logging
\* block: a reload that fails does not touch the logger, and nothing is left of a block
\* that was rejected before.  What a rejected block leaves meanwhile is not stated.
LoggingFollows == Up /\ Quiet => LoggedBy(http)

\* A swap never brings back older file content.
NeverBackwards == [][Up => version'[http'] >= version[http]]_http

\* The messages of one ext_proc stream are handled under versions that only go forward,
\* although Process loads the pointer again for every message.
StreamsForward == \A s \in Streams : \A v \in seen[s] : v <= version[grpc]

ServedVersion(p) == IF p = Nil THEN 0 ELSE version[p]

Switch == INSTANCE PolicySwitch WITH current   <- ServedVersion(http),
                                     following <- ServedVersion(grpc)

\* The reload implements PolicySwitch: both engines move together, forwards only.
SwitchSpec == Switch!Spec

-----------------------------------------------------------------------------
(* Liveness, under FairSpec.                                               *)

\* A SIGHUP is not lost, although the channel holds one: the file is read again
\* after it, at least in the version it had when the signal arrived.
SignalObserved ==
  \A v \in Versions : (Up /\ hup /\ disk = v) ~> (lastRead >= v \/ ~Up)

\* Every edit is noticed, by an event or because boot reads it.
EditObserved ==
  \A v \in Versions : (Up /\ disk = v) ~> (lastRead >= v \/ ~Up)

\* Shutdown reaches the end of main if the open streams end: reloads in flight do
\* not hold it up.
ShutdownCompletes ==
  <>[](open = {}) => (phase = "stopHTTP" ~> phase = "exited")
=============================================================================
