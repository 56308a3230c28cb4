------------------------------- MODULE Facts -------------------------------
(***************************************************************************)
(* One facts registry (internal/facts): Start fills the entries in map     *)
(* order and spawns a fetcher goroutine per URL entry, fetchers refresh    *)
(* them, Stop cancels and drains the fetchers, and evaluations take        *)
(* snapshots, all at the same time.                                        *)
(*                                                                         *)
(* Abstractions.  A body is the version of the source it was read from, 0  *)
(* is the nil pointer.  The parent context ends only with the process.     *)
(* Start, Stop and Snapshot are called as HotReload shows the program      *)
(* calls them: Stop and Snapshot on a registry whose Start returned nil.   *)
(***************************************************************************)
EXTENDS Naturals

CONSTANTS
  ValueFacts, FileFacts, URLFacts,   \* the entries, by method
  Stoppers,    \* goroutines that may call Stop (a reload, and main at shutdown)
  Readers,     \* goroutines that evaluate policies
  MaxSource    \* bound: the last version of a file or of a URL's body

Names == ValueFacts \cup FileFacts \cup URLFacts

ASSUME DisjointMethods ==
  /\ ValueFacts \cap FileFacts = {} /\ ValueFacts \cap URLFacts = {}
  /\ FileFacts \cap URLFacts = {}
ASSUME SourceAssumption == MaxSource \in Nat \ {0}

VARIABLES
  source,     \* source[n]: what reading entry n's source returns now
  life,       \* where Start is
  todo,       \* entries Start's loop has not finished
  first,      \* first[n]: the body Start fetched for n and has not stored
  value,      \* value[n]: entry n's atomic pointer
  fetcher,    \* fetcher[n]: where n's goroutine is
  body,       \* body[n]: what it fetched and has not stored
  cancels,    \* the registry's cancel functions, by entry
  cancelled,  \* the contexts that are cancelled
  stop,       \* stop[s]: where the Stop call of s is
  taken,      \* taken[s]: the cancel functions it took and has not called
  left,       \* left[r]: the entries r's Snapshot loop has not loaded
  out,        \* out[r]: the map it is building
  snap        \* snap[r]: the last snapshot r finished

starting == <<life, todo, first>>
fetching == <<fetcher, body>>
stopping == <<cancelled, stop, taken>>
reading  == <<left, out, snap>>
vars     == <<source, starting, value, fetching, cancels, stopping, reading>>

Versions == 0..MaxSource

TypeOK ==
  /\ source \in [Names -> 1..MaxSource]
  /\ life \in {"built", "starting", "started", "failed"}
  /\ todo \subseteq Names \ ValueFacts
  /\ first \in [Names -> Versions] /\ value \in [Names -> Versions]
  /\ fetcher \in [Names -> {"none", "waiting", "fetching", "storing", "done"}]
  /\ body \in [Names -> Versions]
  /\ cancels \subseteq URLFacts /\ cancelled \subseteq URLFacts
  /\ stop \in [Stoppers -> {"idle", "cancel", "returned"}]
  /\ taken \in [Stoppers -> SUBSET URLFacts]
  /\ left \in [Readers -> SUBSET Names]
  /\ out \in [Readers -> [Names -> Versions]]
  /\ snap \in [Readers -> [Names -> Versions]]

\* New: inline values are in place, nothing is fetched.
Init ==
  /\ source = [n \in Names |-> 1]
  /\ life = "built" /\ todo = FileFacts \cup URLFacts
  /\ first = [n \in Names |-> 0]
  /\ value = [n \in Names |-> IF n \in ValueFacts THEN 1 ELSE 0]
  /\ fetcher = [n \in Names |-> "none"] /\ body = [n \in Names |-> 0]
  /\ cancels = {} /\ cancelled = {}
  /\ stop = [s \in Stoppers |-> "idle"] /\ taken = [s \in Stoppers |-> {}]
  /\ left = [r \in Readers |-> {}]
  /\ out = [r \in Readers |-> [n \in Names |-> 0]]
  /\ snap = [r \in Readers |-> [n \in Names |-> 0]]

\* Someone publishes a new body.
Publish(n) ==
  /\ n \notin ValueFacts /\ source[n] < MaxSource
  /\ source' = [source EXCEPT ![n] = @ + 1]
  /\ UNCHANGED <<starting, value, fetching, cancels, stopping, reading>>

-----------------------------------------------------------------------------
(* Start.                                                                  *)

StartBegin ==
  /\ life = "built"
  /\ life' = "starting"
  /\ UNCHANGED <<source, todo, first, value, fetching, cancels, stopping, reading>>

\* The loop is at one entry at a time.
AtEntry(n) == life = "starting" /\ n \in todo /\ \A m \in Names : first[m] = 0

StartFile(n) ==
  /\ AtEntry(n) /\ n \in FileFacts
  /\ value' = [value EXCEPT ![n] = source[n]]
  /\ todo' = todo \ {n}
  /\ UNCHANGED <<source, life, first, fetching, cancels, stopping, reading>>

StartFetch(n) ==
  /\ AtEntry(n) /\ n \in URLFacts
  /\ first' = [first EXCEPT ![n] = source[n]]
  /\ UNCHANGED <<source, life, todo, value, fetching, cancels, stopping, reading>>

\* Slip: the cancel function is not recorded.
StartStoreUncancellable(n) ==
  /\ life = "starting" /\ first[n] # 0
  /\ value' = [value EXCEPT ![n] = first[n]]
  /\ first' = [first EXCEPT ![n] = 0] /\ todo' = todo \ {n}
  /\ fetcher' = [fetcher EXCEPT ![n] = "waiting"]
  /\ UNCHANGED <<source, life, body, cancels, stopping, reading>>

\* The first body is stored and the fetcher spawned.
StartStore(n) ==
  /\ life = "starting" /\ first[n] # 0
  /\ value' = [value EXCEPT ![n] = first[n]]
  /\ first' = [first EXCEPT ![n] = 0] /\ todo' = todo \ {n}
  /\ cancels' = cancels \cup {n}
  /\ fetcher' = [fetcher EXCEPT ![n] = "waiting"]
  /\ UNCHANGED <<source, life, body, stopping, reading>>

\* Slip: an unreachable source is skipped.
StartFailsSkipping(n) ==
  /\ AtEntry(n)
  /\ todo' = todo \ {n}
  /\ UNCHANGED <<source, life, first, value, fetching, cancels, stopping, reading>>

\* The read or the fetch fails: Start returns and leaves the earlier fetchers be.
StartFails(n) ==
  /\ AtEntry(n)
  /\ life' = "failed"
  /\ UNCHANGED <<source, todo, first, value, fetching, cancels, stopping, reading>>

StartReturns ==
  /\ life = "starting" /\ todo = {}
  /\ life' = "started"
  /\ UNCHANGED <<source, todo, first, value, fetching, cancels, stopping, reading>>

-----------------------------------------------------------------------------
(* The fetcher of one URL entry.                                           *)

\* A tick is taken; a fetch under a cancelled context fails at once, which leaves
\* everything as it was.
Tick(n) ==
  /\ fetcher[n] = "waiting" /\ n \notin cancelled
  /\ fetcher' = [fetcher EXCEPT ![n] = "fetching"]
  /\ UNCHANGED <<source, starting, value, body, cancels, stopping, reading>>

\* Slip: the answer may come from a cache.
FetchOKCached(n) ==
  /\ fetcher[n] = "fetching"
  /\ \E v \in 1..source[n] : body' = [body EXCEPT ![n] = v]
  /\ fetcher' = [fetcher EXCEPT ![n] = "storing"]
  /\ UNCHANGED <<source, starting, value, cancels, stopping, reading>>

FetchOK(n) ==
  /\ fetcher[n] = "fetching"
  /\ body' = [body EXCEPT ![n] = source[n]]
  /\ fetcher' = [fetcher EXCEPT ![n] = "storing"]
  /\ UNCHANGED <<source, starting, value, cancels, stopping, reading>>

\* A timeout, a non-2xx answer, a cancelled context.
FetchFails(n) ==
  /\ fetcher[n] = "fetching"
  /\ fetcher' = [fetcher EXCEPT ![n] = "waiting"]
  /\ UNCHANGED <<source, starting, value, body, cancels, stopping, reading>>

Store(n) ==
  /\ fetcher[n] = "storing"
  /\ value' = [value EXCEPT ![n] = body[n]]
  /\ fetcher' = [fetcher EXCEPT ![n] = "waiting"]
  /\ UNCHANGED <<source, starting, body, cancels, stopping, reading>>

Exit(n) ==
  /\ fetcher[n] = "waiting" /\ n \in cancelled
  /\ fetcher' = [fetcher EXCEPT ![n] = "done"]
  /\ UNCHANGED <<source, starting, value, body, cancels, stopping, reading>>

-----------------------------------------------------------------------------
(* Stop.                                                                   *)

StopTake(s) ==
  /\ life = "started" /\ stop[s] = "idle"
  /\ taken' = [taken EXCEPT ![s] = cancels]
  /\ cancels' = {}
  /\ stop' = [stop EXCEPT ![s] = "cancel"]
  /\ UNCHANGED <<source, starting, value, fetching, cancelled, reading>>

StopCancel(s) ==
  \E n \in taken[s] :
    /\ cancelled' = cancelled \cup {n}
    /\ taken' = [taken EXCEPT ![s] = @ \ {n}]
    /\ UNCHANGED <<source, starting, value, fetching, cancels, stop, reading>>

\* Slip: Stop does not wait for a store under way.
StopReturnsEarly(s) ==
  /\ stop[s] = "cancel" /\ taken[s] = {}
  /\ \A n \in URLFacts : fetcher[n] # "fetching"
  /\ stop' = [stop EXCEPT ![s] = "returned"]
  /\ UNCHANGED <<source, starting, value, fetching, cancels, cancelled, taken, reading>>

\* wg.Wait.
StopReturns(s) ==
  /\ stop[s] = "cancel" /\ taken[s] = {}
  /\ \A n \in URLFacts : fetcher[n] \in {"none", "done"}
  /\ stop' = [stop EXCEPT ![s] = "returned"]
  /\ UNCHANGED <<source, starting, value, fetching, cancels, cancelled, taken, reading>>

-----------------------------------------------------------------------------
(* Snapshot: one atomic load per entry.                                    *)

SnapshotBegin(r) ==
  /\ life = "started" /\ left[r] = {}
  /\ left' = [left EXCEPT ![r] = Names]
  /\ UNCHANGED <<source, starting, value, fetching, cancels, stopping, out, snap>>

SnapshotLoad(r) ==
  \E n \in left[r] :
    /\ out' = [out EXCEPT ![r][n] = value[n]]
    /\ left' = [left EXCEPT ![r] = @ \ {n}]
    /\ snap' = IF left[r] = {n} THEN [snap EXCEPT ![r] = out'[r]] ELSE snap
    /\ UNCHANGED <<source, starting, value, fetching, cancels, stopping>>

-----------------------------------------------------------------------------
StartStep == \/ StartBegin \/ StartReturns
             \/ \E n \in Names : StartFile(n) \/ StartFetch(n) \/ StartStore(n) \/ StartFails(n)

FetcherStep(n) == Tick(n) \/ FetchOK(n) \/ FetchFails(n) \/ Store(n) \/ Exit(n)

StopStep(s) == StopCancel(s) \/ StopReturns(s)

Next ==
  \/ \E n \in Names : Publish(n)
  \/ StartStep
  \/ \E n \in URLFacts : FetcherStep(n)
  \/ \E s \in Stoppers : StopTake(s) \/ StopStep(s)
  \/ \E r \in Readers : SnapshotBegin(r) \/ SnapshotLoad(r)

Spec == Init /\ [][Next]_vars

\* Every fetch has a timeout and the scheduler runs what can run.
FairSpec ==
  /\ Spec
  /\ \A n \in URLFacts : WF_vars(FetchOK(n) \/ FetchFails(n) \/ Store(n) \/ Exit(n))
  /\ \A s \in Stoppers : WF_vars(StopStep(s))

-----------------------------------------------------------------------------
Started == life = "started"

\* Start's loop: what is done has a value, what is not has none and no fetcher.
Starting ==
  /\ Started => todo = {}
  /\ \A n \in Names : n \notin todo => value[n] # 0
  /\ \A n \in todo : value[n] = 0 /\ fetcher[n] = "none"
  /\ \A n \in Names : first[n] # 0 => n \in todo \cap URLFacts /\ life = "starting"

\* Values only get newer: a fetcher stores what it fetched after its last store.
Ordered ==
  \A n \in Names :
    /\ value[n] <= source[n] /\ first[n] <= source[n] /\ body[n] <= source[n]
    /\ fetcher[n] = "storing" => body[n] # 0 /\ value[n] <= body[n]

\* Who calls what: Stop and Snapshot follow a Start that returned nil.
Callers ==
  /\ \A s \in Stoppers : stop[s] # "idle" => Started
  /\ \A r \in Readers : left[r] # {} => Started

\* A Snapshot under way: what it loaded is no newer than the entries, and no older
\* than the snapshot before.
Snapshots ==
  \A r \in Readers : \A n \in Names :
    /\ snap[r][n] <= value[n] /\ out[r][n] <= value[n]
    /\ left[r] # {} /\ n \notin left[r] => out[r][n] # 0 /\ snap[r][n] <= out[r][n]

\* A policy serves no empty fact: after Start returned nil, every entry has a value
\* for good, and so has every entry of every snapshot, torn or not.
FactsPresent ==
  Started => /\ \A n \in Names : value[n] # 0
             /\ \A r \in Readers : \A n \in Names \ left[r] : left[r] # {} => out[r][n] # 0

\* Once any Stop call has returned, also one that overlapped another call, no
\* fetcher is left and none will store: the facts are frozen.
StoppedIsSilent ==
  (\E s \in Stoppers : stop[s] = "returned") =>
    \A n \in URLFacts : fetcher[n] \in {"none", "done"}

\* The inductive invariant behind the three properties.
IInv == TypeOK /\ Starting /\ Ordered /\ Callers /\ Snapshots /\ StoppedIsSilent

\* A goroutine that evaluates twice never sees a fact go back to an older body.
SnapshotsForward == [][\A r \in Readers, n \in Names : snap'[r][n] >= snap[r][n]]_snap

\* Stop returns, whatever its fetchers were doing.
StopReturnsEventually ==
  \A s \in Stoppers : stop[s] = "cancel" ~> stop[s] = "returned"

\* The fetchers a failed Start had already spawned come to their end.
FailedStartDrains ==
  life = "failed" ~> \A n \in URLFacts : fetcher[n] \in {"none", "done"}
=============================================================================
