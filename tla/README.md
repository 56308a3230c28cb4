# TLA+ models of request-validator

request-validator decides on HTTP requests from a declarative YAML policy. One
process runs two servers over one policy: an **ext-authz** HTTP server that admits
or denies a request, and an **ext_proc** gRPC server that Envoy streams the parts of
a request and its response to, and that mutates or answers them. The policy is
replaced while both serve. Paths below are relative to the repository's root.

## The system

| Part | State | Operations that change it | Source | Module |
|---|---|---|---|---|
| Process life cycle, hot reload | the policy pointers of both servers, the locals of every `reload()`, the logger, the SIGHUP channel | boot, `reload()` on the SIGHUP goroutine and on debounce callbacks, shutdown, crash of a listener | `cmd/main.go`, `internal/log/log.go` | HotReload, PolicySwitch |
| Config watcher | the kernel's event queue, the debounce timer, callbacks | `Run`'s loop, `fire`, `relevant` | `internal/configwatch/watch.go` | Watch |
| Facts registry | one atomic value per fact, cancel functions, a wait group, a goroutine per URL fact | `New`, `Start`, `spawnURL`, `Stop`, `Snapshot` | `internal/facts/facts.go` | Facts |
| Policy loading | the document, the program cache | `UnmarshalYAML`, `applyDefaults`, `validate`, `compile`, `Env.Compile` | `internal/policy/policy.go`, `internal/celenv/env.go` | PolicyConfig, PolicyLoad |
| ext-authz server and evaluation | the policy pointer, the positions of two loops | `SetPolicy`, `handle`, `Evaluate`, `evalGroup` | `internal/httpserver/server.go`, `internal/policy/policy.go` | ExtAuthz |
| ext_proc server and evaluation | per stream: request, response, collected bodies | `Process`, `EvaluateProc`, `resolveMutations`, `handleProcResult`, `buildMutations` | `internal/grpcserver/server.go`, `internal/policy/extproc.go` | ExtProc |
| Decision metrics | three totals, a map of counters | `record`, the scrape handler | `internal/httpserver/metrics.go` | Metrics |
| Request and response variables | none | `parseRequestHeaders`, `buildRequestVar`, ... | `httpserver`, `grpcserver`, `policy`, `celenv/http.go` | Requests |
| Access log | none | `RequestAttrs`, `ResponseAttrs`, `mask`, `redactedQuery` | `internal/accesslog/accesslog.go` | AccessLog |
| jsonPath, glob | none | `Compile`, `Eval`; `globRE2` | `internal/jsonpath`, `celenv/strings.go` | PathSyntax, JSONPath, Glob |

What makes it hard: nothing serialises reloads (SIGHUP and each expired debounce
timer run `reload()` on a goroutine of their own); a reload publishes to two
pointers in two steps and then stops the facts of the policy it displaced, while
requests use them; the file is read while editors write it, on the word of a queue
that merges and drops events; a registry is started, refreshed, stopped and read by
different goroutines; an ext_proc stream loads the policy anew for every message;
body limits are compared with buffers that grow in chunks; one cache of programs serves
two scopes and four types; and shadow mode (`dryRun`) has to be honoured on every exit
of every handler. `PROJECT.json` lists these hazards at the lines where they bite, with
the properties that cover them.

## The modules

**HotReload** is the core. A policy is an address with the file version it was read
from and the state of its registry: `built`, `running`, `stopped`, or `abandoned` when
`Start` failed. Each action of `reload()` is one effect another goroutine can observe:
`LoadFile`, `Start`, `ApplyLogging`, `SwapHTTP`, `SwapGRPC`, `StopOld`, with the early
returns `LoadFails` and `StartFails`. `ApplyLogging` is `log.Configure`, which sets the
level before it looks at the format, so that a rejected block may change half of the
logger. `Reloaders` is the SIGHUP goroutine with the debounce callbacks: `Callbacks = {}`
is the program run with `--watch=false`. Addresses nobody refers to may be reused, as
the garbage collector allows. Streams open under a policy, load the current one with
every message, and hold `GracefulStop` up while they are open. The main goroutine boots,
waits, and shuts down. A signal that arrives before `signal.Notify` ends the process by
default and is left out. `disk` is the version of the file; an edit during boot changes
it without an event, since the watcher does not exist yet.

**PolicySwitch** is the abstract promise: two servers, each on one version; the first
moves forwards only, and only when the second has caught up.

**Watch** has the watcher's inside, which HotReload abstracts to events and callbacks.
The file has a version and is whole, torn by a write in progress, or gone; it is written
in place, replaced by rename or symlink, deleted, touched, with noise about other files.
The kernel's queue merges an event with an equal last one and has a limit, after which
one overflow mark stands for what is lost; `Run` logs that mark and goes on. Every
relevant event replaces the debounce timer; an expired timer starts a callback on a
goroutine of its own, which reads the file some time later.

**Facts** is one registry. A body is the version of its source. `Start` walks the
entries in any order (a Go map); `StartFetch` and `StartStore` are apart because
sources and other fetchers move in between; `Snapshot` loads the entries one by one.
`Stop` takes the cancel functions under the lock, calls them, and waits. HotReload
shows that the program calls `Stop` and `Snapshot` only after a `Start` that returned
nil, which is when Facts lets them be called; its `running`, `stopped` and
`abandoned` are `started`, `returned` and `failed` here.

**PolicyConfig** is the document up to `validate`: sizes with int64's wrap-round,
defaults, every check. **PolicyLoad** is `LoadFile` step by step around it, ending in
`compile()`: one expression per action, taken from the program cache or compiled in the
environment of its scope. **PolicyShape** states what the engines take for granted of a
policy. ExtAuthz and ExtProc assume it (`PolicyAssumption`), and everything PolicyLoad
loads has it (`LoadedFitsEngines`): what the engines' proofs assume is a theorem about the
loader.

**ExtAuthz** is `handle()` with every exit (`NoPolicy`, `ReadFails`, `Overflow`,
`SlicePanics`, `Enforce`), the loops of `Evaluate` and `evalGroup` one iteration per
action, and `SetPolicy` between any two steps. A CEL expression is its outcome on
this request, true, false or an error, fixed when the facts snapshot is taken.
`WriteHeader` is what net/http makes of a status: a panic outside 100..999, and 200
after one that is not final. Sizes are int64 with the width scaled down to `2 * Half`.
`Verdict` is the reference: the decision README.md describes, with sets in place of loops.

**ExtProc** is one stream: the loop of `Process`, with `EvaluateProc`, `resolveMutations`,
`handleProcResult` and `buildMutations` as operators over the set of expressions that
hold; `<<g, i, m>>` is the expression of mutation `m` of rule `i` of group `g`, with zeros
for that of a rule or a group. Every loop is a `Flatten` (module `Loops`) of what its turns append. Envoy
(external) keeps the order of the request's messages and of the response's, leaves out the
kinds it is not configured to send, cuts bodies into chunks and ends the stream after an
immediate response; `EnvoyMakes` is what it does with a header mutation, removals first,
and `Wanted` what the mutations in declaration order mean. Both are `Edited`, a sequence of
edits that keep or drop the values of a header and add some.

**Metrics** is `record()`, with its lookup under the read lock and its second lookup
under the write lock, beside a scrape that collects keys and then reads counters.

**Requests** builds a `policy.Request` from the same client's request the way each
engine does, and the CEL variables from it; **AccessLog** the log record; **PathSyntax**
compiles lexemes and **JSONPath** evaluates over decoded bodies, giving the set of answers
Go's random map order allows; a key is a Go value with the text `fmt.Sprint` gives it, since
`normaliseDecoded` makes one key of two with one text; **Glob** translates a pattern and matches the translation.
Their loops are recursive functions over the positions of a list: `Flatten` for what the
turns append and `Gather` for a map of lists (module `Loops`), `Split`, `CompileFrom`, and
`PrefixEnds` for a regular expression that is matched piece by piece.
**TextFunctions** calls them one at a time on the inputs it is given and compares with
definitions that do not follow the code: an expression is read by a grammar, a pattern
matches by splitting the string, a variable has what was sent, a log record hides every
occurrence of a listed name. **PureFunctions** adds the evaluation of a path, which is
compared with where the path leads.

`MC*` modules hold the instances. A definition marked `Slip` is a plausible mistake in
the definition after it; `PROJECT.json` names the property that catches it.

## What TLC checks

| Run | Shows | Bounds |
|---|---|---|
| `reload` | beside shutdown, no reload stops the facts of the current policy, nor a registry another reload will stop (`HTTPServesLive`), and every policy one displaces is stopped (`DisplacedAreStopped`; those whose `Start` failed are the subject of `facts_leak`) | SIGHUP and 2 callbacks overlap; 4 addresses, one for each reload in flight besides the current one; 3 versions, the last one invalid; every log level rejected, so that the logger stands still |
| `reload_sighup` | `--watch=false`: no policy without facts is served, captured ones included (`ServedReady`); the servers, and the logger where it accepts the block, follow one version (`ServersAgree`, `GRPCServesLive`, `LoggingFollows`); a stream's messages move forwards (`StreamsForward`); the reload implements PolicySwitch (`SwitchSpec`); no signal is lost (`SignalObserved`); shutdown completes (`ShutdownCompletes`) | 3 versions (two switches in a row), one with a rejected log format; 1 request, 1 stream |
| `watch` | no change of the file is forgotten (`Covered`), except one whose event the overflow of the queue swallowed (`missed`); nothing starts after `Run` returned (`NoLateCallback`); the file is read as it is once events settle (`ChangeNoticed`) | 3 versions, a queue of 2 events, so that it overflows, 2 callbacks at once |
| `facts` | no empty fact, in torn snapshots too (`FactsPresent`); nothing is stored after any `Stop` returned (`StoppedIsSilent`); no reader goes back (`SnapshotsForward`); `Stop` returns (`StopReturnsEventually`) | 1 file, 2 URLs (one cancelled, one not yet), 2 overlapping `Stop`, 1 reader, 2 versions |
| `load` | every program the evaluators dereference exists (`ProgramsPresent`), in the scope and type they evaluate it with (`ProgramsFit`); what loads is what the engines assume (`LoadedFitsEngines`); a size that loads means what it says (`SizesExact`) | documents that vary every field a check reads: each mutation with each mix of fields, pairs of mutations, rules and groups that share texts, sizes around the ends of an int64 of 8 bits |
| `authz` | the loops compute the reference verdict (`DecisionIsVerdict`); what is admitted was read in full and allowed (`AdmittedInspected`); shadow mode on every exit (`DryRunNeverBlocks`); one policy per answer (`DeniedByOnePolicy`); one count, at most one log record and exactly one where there is a verdict (`CountedOnce`); an answer, once the body ends or fails (`EveryRequestAnswered`) | every pair of 4 groups, defaults, error modes and outcomes; bodies around the limit; limits and statuses at the edges; 2 policies swapped in |
| `proc` | shadowed rules change nothing (`ShadowInert`); the first direct response due is served (`FirstDirectWins`); what no rule has seen passes untouched or fails (`UninspectedUntouched`); header writes keep their order (`LastWriteWins`); a replaced body has its length (`ContentLengthFits`); no expression reads a variable nobody set (`VariablesSet`) | bodies up to 3 in any chunks, limits 1 and 2, reloads in mid-stream, any subset of the messages |
| `metrics` | totals and per-rule counters agree at every moment (`NothingLost`); pages never go down (`PagesForward`) | 3 goroutines, 3 keys, 4 calls |
| `functions` | jsonPath finds what it should, in one order without `..`, and parses what it should (`PathsFound`, `PathsParsed`); glob means what the pattern says (`GlobMatches`); both engines see the same request (`VariablesFaithful`); the log hides what is listed (`LogRedacted`) | documents of depth 2 over 3 keys, two of which print alike, short expressions, patterns, strings, requests and logging sections over letters chosen for every case of the code |

`FirstFresh` lets the allocator return one of the free addresses instead of any;
addresses are interchangeable and, unlike TLC's SYMMETRY, this is sound for liveness.
Deadlock is checked in `metrics`, where the scraper goes on for ever, and in
`functions`; the others end in states where the program may stop (`exited`, a closed
stream, an answered request, a drained registry, a loaded document).

Some properties are conditional, because the code does less than a sentence of its
documents: `AdmittedInspected` holds for limits below the largest int64 (`limit+1` wraps,
where README.md:254 promises a deny) and for final deny statuses other than 200;
`LastWriteWins` does not speak of a header that is removed after it was written (Envoy
removes first, so the write survives: `grpcserver/server.go:503` against README.md:300);
`ContentLengthFits` does not speak of a body whose content-length a rule sets itself, with
no `setBody` after it; `EveryRequestAnswered` holds for bodies that are not stalled (the
server sets no `ReadTimeout`), positive limits and statuses that net/http takes;
`LoggingFollows` says nothing of a policy whose logging block is rejected, `CountedOnce` does
not say whether a failed read is logged, `GlobMatches` not whether `?` takes a slash and `**`
a newline, `PathsFound` not which of two keys of a map that print alike is kept, nor in which
order `..` finds its values, and `LogRedacted` not what `body.content_type` shows of a listed
header, nor how much of one of several values is masked beyond the first `redactReveal`
characters of all: in these the code and a document differ, as listed below;
`StreamsForward` and `UninspectedUntouched` allow the messages of one stream to be handled
under several policies (`grpcserver/server.go:96` against `.agents/ARCHITECTURE.md:219`).

`violation` runs show where the code does not do what a document of the repository
says. `PROJECT.json` quotes the sentence.

| Run | Property | What happens |
|---|---|---|
| `reload_agree` | `ServersAgree` | A swaps HTTP, B swaps HTTP and gRPC, A swaps gRPC: the servers stay on different policies with no reload running |
| `reload_edit` | `EditObserved` | an edit after the boot's read and before the watch exists is never noticed |
| `facts_leak` | `FailedStartDrains` | the fetchers a failed `Start` had spawned run until the process ends |

Smaller divergences met while modelling, without a run of their own:

- The overlap of `reload_agree` can also bring older content back until the next trigger,
  and leave the gRPC server with a policy whose facts are stopped.
- `Configure` changes the level before it rejects the format, where `cmd/main.go:174` logs
  that the previous logging is kept. `configwatch/watch.go:39` says that the callback runs
  on the watcher's goroutine; `time.AfterFunc` gives it one of its own.
- A negative `maxBodyBytes` passes validation and makes `body[:limit]` panic. A `denyStatus`
  outside 100..999 makes `WriteHeader` panic, one below 200 is sent as 200, and 200
  itself is an admission.
- A failed body read writes no access-log record although `.agents/ARCHITECTURE.md`
  promises one per request. A stalled body holds `handle()` for ever: the server sets
  `ReadHeaderTimeout` only (`httpserver/server.go:89`). Trailers are answered with a
  `RequestHeaders` reply. A shadowed direct response is not logged when another
  one is served.
- The `?` of glob does not match a slash and `.*` no newline (`celenv/strings.go:28`,
  README.md:693). The order of `..` over maps is random (`jsonpath.go:113` promises document
  order). Keys of a YAML map that differ for the decoder and print alike (`1` and `1.0`,
  `True` and `"true"`) become one key, with the value the random order leaves
  (`policy.go:715`).
- `redactReveal: 0` means the default of 6 (`.agents/POLICY_DSL.md:91` says that everything
  is masked); the threshold applies to the joined values of a header, where README.md:798
  speaks of values; `2*redactReveal` wraps from 2^62 on. `body.content_type` is logged even
  when the header is excluded (README.md:747: "never appear") or redacted.
- One malformed query parameter hides all of them from the policy (`policy.go:598`).
  `firstOr` gives the default for an empty first value, where `has` may hold for a later one.
- The engines differ: ext_proc keeps the port in `host`, has no `remoteIp` without a
  forwarding header and does not percent-decode the path; ext-authz does otherwise.

### Fairness

HotReload: the SIGHUP goroutine, the watcher, armed timers, every running `reload()`
and the shutdown sequence are weakly fair: the Go scheduler runs what can run, every
fetch in `Start` has a timeout, a timer expires, `srv.Stop` has a 5 s deadline. Nothing is
assumed of edits, signals, requests and streams; `ShutdownCompletes` therefore assumes
that the streams end, as `GracefulStop` waits for them without a deadline.
Watch: `Run`, the callbacks, a timer that is not replaced, and the writer that began a
write. `ChangeNoticed` assumes `Settles`, that relevant events do not come for ever: each
one pushes the timer back. Facts: a fetcher inside a fetch finishes (timeout, or its
cancelled context), and `Stop` goes on. Ticks are not fair. ExtAuthz: a handler that
has its body goes on. Nothing is assumed of the read, which has no deadline:
`EveryRequestAnswered` is about requests whose read does not go on for ever.

## What is proved

TLAPS checks these for every value of the constants: any number of policies,
callbacks, requests, streams, versions, facts, `Stop` calls, readers, goroutines and
keys, documents and policies of any size, mutations in any number, and texts, patterns,
headers and parameters of any length. The assumptions are the named `ASSUME`s of the
component modules (nil is no address, the SIGHUP goroutine is no callback, bounds are
positive, the three kinds of facts are disjoint, every size suffix has a multiplier that
is an int64, policies have the shape `EnginesServed` proves, inputs have the types that
`IsClient`, `IsResponse` and the other assumptions of TextFunctions give them, `*`, `?`,
`[`, `[]` and `[^]` are not character classes, and a `[` that stands for itself has no `]`
after it) and, where stated, `Callbacks = {}`.

**HotReloadProofs.** `IInv == TypeOK /\ Locals /\ Pointers /\ Ownership` is inductive
(`Invariance`). None of the safety properties is by itself: that `StopOld` never
stops the current registry needs to know that what a reload is about to stop is not
`http` and is nobody else's. `Ownership` says so with `Own(t)`, the policy only
reload `t` can stop: the one it built until the swap, the one it displaced after it.
`SwapHTTP` exchanges the two, and every registry that runs is the current one or owned
by exactly one reload. From it follow `ServedPolicyIsReady`, `CurrentPolicyIsLive` and
`DisplacedStop`. With `Callbacks = {}` there is one reloader, and `SeqInv` adds
`Sequential` (how far the ext_proc server and the logger lag at each program counter, and
that versions on their way are no older than the served one) and `Booting`. From it follow
`Agreement`, `FollowerIsLive`, `LoggerFollows`, `StreamsOnlyForward`, `Forwards` and
`Refinement`: every step maps to a step of PolicySwitch or leaves both versions as they
were. Overlapping reloads break these properties, so the hypothesis is needed.

**BackgroundProofs** is about the goroutines behind the servers. `Covered` is not inductive
because it says nothing of the time before the watch. `Inv` strengthens it to `Tracked`, which
holds from the start of `Run`, and adds that only a `Run` that watches has a timer armed. Then
whatever removes one reason to expect a read adds another: an event that is taken arms the
timer, an expired timer becomes a callback, a callback reads the file. `NothingForgotten` and
`SilentAfterReturn` follow, for every length of the queue.

For the facts registry `IInv` joins `Starting` (what `Start`'s loop has finished has a value,
what it has not has no fetcher), `Ordered` (values are no newer than their source, and a
fetcher stores nothing older than the value in place), `Callers`, `Snapshots` (a map
being built is no newer than the entries and no older than the previous snapshot) and
`StoppedIsSilent`. From it follow `NoEmptyFact`, `StopSilences` and `ReadersForward`.
`ReadersForward` rests on an entry having one writer at a time: `Start` stores the first
value before the fetcher exists, and a fetcher stores one body before it fetches the next.

For the metrics, `CountersInv` is `MetricsTypeOK`, `CountersPrivate` (no two keys share a
counter, and a call holds the counter of its key) and `Printed` (what a page shows is no more
than the counter). `Forwards` follows. `Lossless` adds `Balance`: what a total has counted is a
set of pairs of a key and a number (`Counted`) and a set of calls between their two additions
(`OnTheWay`), both finite, and each step moves one element from nothing to the second or from
the second to the first. As sets the sums need no induction over keys.

**ExpressionProofs** is about the paths and the patterns of a policy's expressions.

- `PathsRead`: a turn of `Compile`'s loop takes the one run of lexemes at its position that
  stands for something, and appends what it stands for (`StepDenotes`). So the steps `Compile`
  finds and those the grammar derives solve one equation over the positions
  (`CompilesDerives`), and two solutions agree from the last position downwards
  (`DescendAgree`): no order of the tests hides an expression and none is read in two ways.
- `Globbed`: the loop of `globRE2` comes to every position but the second star of a pair
  (`VisitsIs`, where the stars before a position are counted), and the piece it writes for a
  character matches what the character stands for (`MovesIs`). Then what the pieces reach one
  after the other (`ReachedPlaces`) is where the cuts of the string into one part per
  character end (`PlacesAreCuts`). A malformed class fits no part and fails to compile
  (`MalformedFails`). What the documents leave open beyond that is `MayMatch`
  (`MatchesMay`).

**RequestProofs.** `Faithful` and `Redacted` are about one answer, so the invariant is only
that an answer is what the functions make of some input (`CallsAnswered`); the work is in the
loops. For `Faithful`, Envoy's list has four pseudo-headers and the client's headers, from which
`parseRequestHeaders` collects the same map of lists as net/http does (`WireRegular`) and finds
the path and the query again at the first `?` (`TargetCut`); the lists of that map are never empty
(`HeaderMap`), which is why the maps of first values agree with it (`BucketsSame`); and the
values under a name are those that were sent, in order (`SentUnder`, by induction over the
headers). For `Redacted`, `mask` shows at most the first `redactReveal` letters, and those only
of a text at least twice as long (`MaskIs`), for every width of an int; the logged type is the
one the policy reads (`TypeRight`); and a query that is split, redacted pair by pair and joined again splits into as many
pairs (`SplitJoin`), each with its name and with its value or three stars (`PairRedacted`).

**ExtAuthzProofs.** For each request `IInv` says where the loops are (`Position`: no group
and no rule they have passed decides), what `handle()` has done so far (`Stage`), what each
exit leaves (`Exited`), and that a decision is the verdict (`Decided`). The theorems are
`Verdicts` (the loops give the verdict of the first group that has one), `Shadow`,
`Admitted`, `Denied` and `Counting`. `Position` is what makes `Verdicts` provable without an
induction over sequences: when a loop stops, everything before it does not decide, so its
group is the least that does. `Admitted` is where the deny status 200 came to light: the
proof does not go through without excluding it.

**SequenceFacts.** The loader, ext_proc, the requests and the log are loops over lists, which
the model writes as `Flatten`. This module has what their proofs need of it: the
elements of a flattened sequence (`FlattenElements`), its first element (`FlattenHead`), and
`FlatMap(f, s)`, a loop over `s` whose turn on `x` appends `f[x]`, with what it makes of
`Append` and of `\o`, and that a loop over the output of a loop is one loop
(`FlatMapFlatten`); and for a loop that is not a `Flatten`, that the values of its turns exist
(`LoopExists`) and are the only ones (`LoopsAgree`). `GatherIs` and `UnderAppend` say what a map
of lists has under a key. The induction principles of the library take an operator, which the
provers cannot instantiate; `NatInduct` and `SeqInduct` take the *set* of the numbers or
sequences that have the property, and are proved from well-foundedness (`Least`).

**PolicyLoadProofs.** `IInv` is `Staged` (at each program counter, `c` is the document after
the steps so far, and past `validate` it is valid) and `Compiling` (the expressions before
`next` have a program; every program and every cache entry was compiled from the text and in
the scope of its address, and was accepted). `SitesAre` shows that `compile()`'s three nested
loops visit exactly the expressions of the document, and `SitesDiffer` that no two have one
address. From it follow `TypesCorrect`; `AllCompiled` (`DereferencedAreSites`: what the
evaluators read, loop by loop, is among what was compiled); `SharedProgramsFit`, where the
cache key carrying scope and type is what is needed; `EnginesServed`, that a document of any
size that loads satisfies the assumptions of ExtAuthz and ExtProc; and `SizesKept`
(`SuffixFound`: the order of the suffixes finds the longest, so that a text is read one way).

**ExtProcProofs.** `IInv` is `Collected` (what `Process` has collected is what was
sent, and headers come before the body they belong to), `Supplied` (a message that had a
policy found the variables of its phase), `UninspectedUntouched`, and `Answered` (a reply to
a message the policy ran on is what the evaluation of that policy gives). `Untouched` and
`Variables` follow, for all limits, reloads and cuttings into chunks. The other four are about
what the evaluation gives:

- `Shadowed`: `EvaluateMap` brings groups, rules and mutations under one `FlatMap`; the
  stripped policy yields the same mutations less the shadowed ones (`StripEvaluates`), and the
  reply does not depend on those (`HandleKept`).
- `FirstServed`: the first direct response of the output belongs to the first rule that yields
  one (`DirectFirst`, from `FlattenHead` once per loop), and that is the least of `Due`
  (`DueFirst`). It rests on a direct response being the only mutation of its rule, part of
  what `validate` ensures.
- `LastWrites` and `LengthsFit` are inductions over the enforced mutations (`BuiltMakes`,
  `BuiltLength`): one more mutation grows the settings and the removals of the reply
  (`BuildGrows`) and what Envoy makes of them (`MadeGrows`) just as it grows what is wanted.
  The step for a removal is where `RemovedLate` is needed, the step for a setting of
  `content-length` where `OwnLength` is.

Many leaves name the prover that finds them (`Zenon`): in modules of this size the
default order, SMT first, is slower and less predictable.

Only model-checked:

- `SignalObserved`, `ShutdownCompletes`, `ChangeNoticed`, `StopReturnsEventually` and
  `EveryRequestAnswered`: liveness under fairness is outside the prover's reach, as is ENABLED.
- `PathsFound`: `Eval` and `normaliseDecoded` descend into documents of any depth with
  RECURSIVE operators, which the prover does not handle, and what they find is an induction
  over trees. The run `functions` checks it in PureFunctions, which is TextFunctions with the
  one action `Select` more; the theorems on the other four properties of that run are stated
  for TextFunctions (`TextSpec`). An answer of `Select` is none of the kinds they speak of.

## Not modelled

- `os.ExpandEnv` and the YAML decoder: a document is what they leave. (An unset variable
  becomes an empty text, README.md:886.)
- CEL itself: an expression is its outcome in the engines, its variables and type in the
  loader. Of its functions, those on networks, times and encodings hand strings to the Go
  library. The cache of compiled globs has the pattern as its key and no other input.
  `globRE2` leaves braces as they are, which the regexp package reads as a repetition where
  they hold a number, and ends a bracket at the first `]`, which the regexp package does not
  where that is the first character of the class (`[]a]`), follows a backslash or belongs to
  a named class; such patterns are not among those of Glob.
- The listeners and health endpoints: a server is up while main serves. (`Stop` of
  `httpserver` may find no server yet when it runs before `Run`, `httpserver/server.go:104`.)
- `validate` of fact specs and the HTTP details of a fetch: facts.New and a fetch succeed
  or fail. A file fact is read once, in `Start`.
- What a rule makes of a prefix of a body: ExtProc evaluates each chunk as the code
  does, README.md asks for Envoy's BUFFERED mode, and no property speaks of prefixes.
- The headers and the body of a direct response, IPv6 hosts in brackets, log texts, the
  console encoding, and `SetLevel`, which nothing calls.
