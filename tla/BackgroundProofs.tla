-------------------------- MODULE BackgroundProofs --------------------------
(***************************************************************************)
(* Proofs about what runs beside the decisions.                            *)
(*                                                                         *)
(* Watch, for every bound on versions, queue and callbacks: no change is   *)
(* forgotten, and no callback starts after Run returned.  Covered says     *)
(* nothing of the time before the watch, so it is strengthened: Tracked    *)
(* holds from the start of Run, and only a Run that watches has a timer.   *)
(*                                                                         *)
(* Facts, for any entries, Stop calls and readers: no fact is empty, none  *)
(* goes back, and Stop silences the fetchers.                              *)
(*                                                                         *)
(* Metrics, for any number of goroutines, keys and calls: nothing counted  *)
(* is lost, and no page goes back.                                         *)
(***************************************************************************)
EXTENDS Watch, Facts, Metrics, FiniteSetTheorems, TLAPS

-----------------------------------------------------------------------------
(* The watcher.                                                            *)

USE BoundAssumption

Told(q) == \E i \in DOMAIN q : relevant(q[i])

Tracked ==
  run \in {"start", "watching"} =>
    seen = content \/ Underway \/ missed \/ content.state \in {"torn", "gone"}

Inv == WatchTypeOK /\ Tracked /\ (run # "watching" => timer = 0)

-----------------------------------------------------------------------------
\* A new event at the end of the queue hides none before it.
LEMMA AppendTold ==
  ASSUME NEW q \in Seq(Events), NEW e \in Events
  PROVE  /\ Told(q) => Told(Append(q, e))
         /\ relevant(e) => Told(Append(q, e))
<1>1. ASSUME NEW i \in DOMAIN q, relevant(q[i]) PROVE Told(Append(q, e))
  <2>1. i \in DOMAIN Append(q, e) /\ Append(q, e)[i] = q[i]
    OBVIOUS
  <2> QED
    BY <1>1, <2>1 DEF Told
<1>2. ASSUME relevant(e) PROVE Told(Append(q, e))
  <2>1. Len(q) + 1 \in DOMAIN Append(q, e) /\ Append(q, e)[Len(q) + 1] = e
    OBVIOUS
  <2> QED
    BY <1>2, <2>1 DEF Told
<1> QED
  BY <1>1, <1>2 DEF Told

\* An event of no interest can be taken off the queue.
LEMMA TailTold ==
  ASSUME NEW q \in Seq(Events), q # <<>>, ~relevant(Head(q)), Told(q)
  PROVE  Told(Tail(q))
<1>1. PICK i \in DOMAIN q : relevant(q[i])
  BY DEF Told
<1>2. i # 1
  BY <1>1
<1>3. i - 1 \in DOMAIN Tail(q) /\ Tail(q)[i - 1] = q[i]
  BY <1>2
<1> QED
  BY <1>1, <1>3 DEF Told

\* The kernel keeps the queue within its limit, and what the queue tells of.
LEMMA EnqueueKeeps ==
  ASSUME WatchTypeOK, NEW ev \in Events, Enqueue(ev)
  PROVE  /\ queue' \in Seq(Events) /\ Len(queue') <= MaxQueue + 1
         /\ Told(queue) => Told(queue')
<1>1. Overflow \in Events /\ queue \in Seq(Events) /\ MaxQueue \in Nat
  BY DEF Events, WatchTypeOK
<1> QED
  BY <1>1, AppendTold DEF Enqueue, WatchTypeOK

\* Whatever happens in the directory keeps the types, and one of: the queue tells of a
\* change, the timer or a callback is still there, or the change is marked as missed.
LEMMA PostKeeps ==
  ASSUME Inv, NEW ev \in Events, Post(ev)
  PROVE  /\ queue' \in Seq(Events) /\ Len(queue') <= MaxQueue + 1
         /\ missed' \in BOOLEAN
         /\ UNCHANGED <<run, done, timer, pending, seen>>
         /\ Underway => Underway'
         /\ missed => missed' \/ Underway'
         /\ relevant(ev) /\ content' # seen => Underway' \/ missed'
<1>1. UNCHANGED <<run, done, timer, pending, seen>>
  BY DEF Post
<1>2. /\ queue' \in Seq(Events) /\ Len(queue') <= MaxQueue + 1
      /\ Told(queue) => Told(queue')
  BY EnqueueKeeps DEF Post, Inv, WatchTypeOK
<1>3. missed' = (~Told(queue') /\ (missed \/ (relevant(ev) /\ content' # seen /\ ~Underway)))
  BY Zenon DEF Post, Told
<1>4. Underway <=> Told(queue) \/ timer # 0 \/ pending > 0
  BY DEF Underway, Told
<1>5. Underway' <=> Told(queue') \/ timer' # 0 \/ pending' > 0
  BY DEF Underway, Told
<1>6. Underway => Underway'
  BY <1>1, <1>2, <1>4, <1>5
<1>7. missed' \in BOOLEAN
  BY <1>3
<1> QED
  BY <1>1, <1>2, <1>3, <1>5, <1>6, <1>7, Zenon
-----------------------------------------------------------------------------
\* Run starts with the policy that was just read.
LEMMA InitInv == WatchInit => Inv
<1> SUFFICES ASSUME WatchInit PROVE Inv
  OBVIOUS
<1>1. content \in [ver : 1..MaxVersion, state : {"whole", "torn", "gone"}]
  BY DEF WatchInit, File
<1>2. queue \in Seq(Events) /\ Len(queue) <= MaxQueue + 1
  BY DEF WatchInit
<1>3. /\ run = "start" /\ done = FALSE /\ timer = 0 /\ pending = 0 /\ missed = FALSE
      /\ seen = content
  BY DEF WatchInit
<1>4. pending \in 0..MaxPending /\ timer \in 0..2
  BY <1>3
<1>5. WatchTypeOK
  BY <1>1, <1>2, <1>3, <1>4, Zenon DEF WatchTypeOK
<1>6. Tracked
  BY <1>3 DEF Tracked
<1> QED
  BY <1>3, <1>5, <1>6 DEF Inv

\* Every change of the directory keeps the invariant.
LEMMA DirectoryKeeps ==
  ASSUME Inv, BeginWrite \/ EndWrite \/ Replace \/ Vanish \/ Touch \/ Noise
  PROVE  Inv'
<1> USE DEF Inv
<1> DEFINE files == [ver : 1..MaxVersion, state : {"whole", "torn", "gone"}]
<1>0. content \in files /\ seen \in files
  BY DEF WatchTypeOK
<1>1. PICK ev \in Events :
        /\ Post(ev) /\ content' \in files
        /\ \/ relevant(ev)
           \/ content' = content
           \/ content'.state = "gone"
  <2>1. CASE BeginWrite \/ EndWrite
    <3>1. Event("file", "write") \in Events /\ relevant(Event("file", "write"))
      BY DEF Event, Events, relevant
    <3>2. content' \in files
      BY <2>1, <1>0 DEF BeginWrite, EndWrite, File
    <3> QED
      BY <2>1, <3>1, <3>2 DEF BeginWrite, EndWrite
  <2>2. CASE Replace
    <3>1. PICK base \in {"file", "..data"} : Post(Event(base, "create"))
      BY <2>2 DEF Replace
    <3>2. Event(base, "create") \in Events /\ relevant(Event(base, "create"))
      BY DEF Event, Events, relevant
    <3>3. content' \in files
      BY <2>2, <1>0 DEF Replace, File
    <3> QED
      BY <3>1, <3>2, <3>3
  <2>3. CASE Vanish
    <3>1. PICK op \in {"remove", "rename"} : Post(Event("file", op))
      BY <2>3 DEF Vanish
    <3>2. Event("file", op) \in Events
      BY DEF Event, Events
    <3>3. content' \in files /\ content'.state = "gone"
      BY <2>3, <1>0 DEF Vanish, File
    <3> QED
      BY <3>1, <3>2, <3>3
  <2>4. CASE Touch \/ Noise
    <3>1. Event("file", "chmod") \in Events /\ Event("other", "write") \in Events
      BY DEF Event, Events
    <3> QED
      BY <2>4, <3>1, <1>0 DEF Touch, Noise
  <2> QED
    BY <2>1, <2>2, <2>3, <2>4
<1>2. WatchTypeOK'
  BY <1>0, <1>1, PostKeeps DEF WatchTypeOK
<1>3. Tracked'
  BY <1>1, PostKeeps DEF Tracked
<1>4. run' # "watching" => timer' = 0
  BY <1>1, PostKeeps
<1> QED
  BY <1>2, <1>3, <1>4

\* Every step of Run, the timer and the callbacks keeps the invariant.
LEMMA StepInv == Inv /\ [WatchNext]_watchVars => Inv'
<1> SUFFICES ASSUME Inv, [WatchNext]_watchVars PROVE Inv'
  OBVIOUS
<1> USE DEF Inv
<1>1. CASE BeginWrite \/ EndWrite \/ Replace \/ Vanish \/ Touch \/ Noise
  BY <1>1, DirectoryKeeps
<1>2. CASE Subscribe
  <2>1. /\ run = "start" /\ run' \in {"watching", "failed"}
        /\ UNCHANGED <<content, queue, done, timer, pending, seen, missed>>
    BY <1>2 DEF Subscribe
  <2>2. WatchTypeOK'
    BY <2>1 DEF WatchTypeOK
  <2>3. Tracked'
    BY <2>1 DEF Tracked, Underway
  <2>4. timer = 0
    BY <2>1
  <2> QED
    BY <2>1, <2>2, <2>3, <2>4
<1>3. ASSUME NEW ev \in Events, Fire(ev) PROVE Inv'
  BY <1>3 DEF Fire, Receive, WatchTypeOK, Tracked, Underway
<1>4. ASSUME NEW ev \in Events, Ignore(ev) PROVE Inv'
  <2>1. WatchTypeOK'
    BY <1>4 DEF Ignore, Receive, WatchTypeOK
  <2>2. Told(queue) => Told(queue')
    BY <1>4, TailTold DEF Ignore, Receive, WatchTypeOK
  <2>3. Tracked'
    BY <1>4, <2>2 DEF Ignore, Tracked, Underway, Told
  <2> QED
    BY <1>4, <2>1, <2>3 DEF Ignore
<1>5. CASE Done
  BY <1>5 DEF Done, WatchTypeOK, Tracked
<1>6. CASE Cancel
  BY <1>6 DEF Cancel, WatchTypeOK, Tracked, Underway
<1>7. ASSUME NEW n \in 1..2, TimerExpires(n) PROVE Inv'
  BY <1>7 DEF TimerExpires, WatchTypeOK, Tracked, Underway
<1>8. CASE ReadFile
  <2>1. /\ pending > 0 /\ pending' = pending - 1 /\ seen' = content /\ missed' = FALSE
        /\ UNCHANGED <<content, queue, run, done, timer>>
    BY <1>8 DEF ReadFile
  <2>2. pending' \in 0..MaxPending
    BY <2>1 DEF WatchTypeOK
  <2>3. WatchTypeOK'
    BY <2>1, <2>2, Zenon DEF WatchTypeOK
  <2>4. Tracked'
    BY <2>1 DEF Tracked
  <2> QED
    BY <2>1, <2>3, <2>4
<1>9. CASE UNCHANGED watchVars
  BY <1>9 DEF watchVars, WatchTypeOK, Tracked, Underway
<1> QED
  BY <1>1, <1>2, <1>3, <1>4, <1>5, <1>6, <1>7, <1>8, <1>9 DEF WatchNext, Loop

\* The strengthened invariant holds for every queue limit.
THEOREM WatchInvariance == WatchSpec => []Inv
BY InitInv, StepInv, PTL DEF WatchSpec

\* The watcher forgets no change of the file that an event told of.
THEOREM NothingForgotten == WatchSpec => []Covered
<1>1. Inv => Covered
  BY DEF Inv, Tracked, Covered
<1> QED
  BY <1>1, WatchInvariance, PTL

\* Once Run has returned it starts no callback.
THEOREM SilentAfterReturn == WatchSpec => NoLateCallback
<1>1. Inv /\ [WatchNext]_watchVars => [run = "returned" => pending' <= pending]_watchVars
  <2> SUFFICES ASSUME Inv, [WatchNext]_watchVars, run = "returned" PROVE pending' <= pending
    OBVIOUS
  <2>1. timer = 0 /\ pending \in Nat
    BY DEF Inv, WatchTypeOK
  <2>2. CASE UNCHANGED watchVars
    BY <2>1, <2>2 DEF watchVars
  <2>3. ASSUME NEW ev \in Events, Fire(ev) \/ Ignore(ev) PROVE pending' = pending
    BY <2>3 DEF Fire, Ignore
  <2>4. ASSUME NEW n \in 1..2, TimerExpires(n) PROVE FALSE
    BY <2>1, <2>4 DEF TimerExpires
  <2>5. CASE BeginWrite \/ EndWrite \/ Replace \/ Vanish \/ Touch \/ Noise
    <3>1. \A ev : Post(ev) => pending' = pending
      BY DEF Post
    <3> QED
      BY <2>1, <2>5, <3>1 DEF BeginWrite, EndWrite, Replace, Vanish, Touch, Noise
  <2>6. CASE Subscribe \/ Done \/ Cancel \/ ReadFile
    BY <2>1, <2>6 DEF Subscribe, Done, Cancel, ReadFile
  <2> QED
    BY <2>1, <2>2, <2>3, <2>4, <2>5, <2>6 DEF WatchNext, Loop
<1> QED
  BY <1>1, WatchInvariance, PTL DEF WatchSpec, NoLateCallback

-----------------------------------------------------------------------------
(* The facts registry.                                                     *)

HIDE BoundAssumption
USE DisjointMethods, SourceAssumption DEF Names, Versions, Started

\* A registry as New returns it.
LEMMA InitIInv == Init => IInv
<1> SUFFICES ASSUME Init PROVE IInv
  OBVIOUS
<1>1. TypeOK
  BY DEF Init, TypeOK
<1>2. Starting /\ Ordered
  <2>1. Starting
    <3>1. \A n \in Names : n \in todo <=> n \notin ValueFacts
      BY DEF Init
    <3>2. \A n \in Names : value[n] = IF n \in ValueFacts THEN 1 ELSE 0
      BY DEF Init
    <3>3. \A n \in Names : first[n] = 0 /\ fetcher[n] = "none"
      BY DEF Init
    <3>4. life = "built" /\ todo \subseteq Names
      BY DEF Init
    <3> QED
      BY <3>1, <3>2, <3>3, <3>4 DEF Starting
  <2>2. Ordered
    BY <1>1 DEF Init, Ordered, TypeOK
  <2> QED
    BY <2>1, <2>2
<1>3. Callers /\ Snapshots /\ StoppedIsSilent
  <2>1. Callers /\ StoppedIsSilent
    BY DEF Init, Callers, StoppedIsSilent
  <2>2. \A n \in Names : value[n] >= 0
    BY <1>1 DEF TypeOK
  <2>3. \A r \in Readers : left[r] = {} /\ \A n \in Names : snap[r][n] = 0 /\ out[r][n] = 0
    BY DEF Init
  <2>4. Snapshots
    BY <2>2, <2>3 DEF Snapshots
  <2> QED
    BY <2>1, <2>4
<1> QED
  BY <1>1, <1>2, <1>3 DEF IInv

\* Every step of Start, of a fetcher, of Stop and of Snapshot keeps the invariant.
LEMMA StepIInv == IInv /\ [Next]_vars => IInv'
<1> SUFFICES ASSUME IInv, [Next]_vars PROVE IInv'
  OBVIOUS
<1>0. TypeOK /\ Starting /\ Ordered /\ Callers /\ Snapshots /\ StoppedIsSilent
  BY DEF IInv
<1> USE <1>0 DEF starting, fetching, stopping, reading
<1>1. ASSUME NEW n \in Names, Publish(n) PROVE IInv'
  <2>1. TypeOK'
    <3>1. source' \in [Names -> 1..MaxSource]
      BY <1>1 DEF Publish, TypeOK
    <3> QED
      BY <1>1, <3>1, Zenon DEF Publish, TypeOK
  <2>2. Starting'
    BY <1>1 DEF Publish, TypeOK, Starting
  <2>3. Ordered'
    BY <1>1 DEF Publish, TypeOK, Starting, Ordered
  <2>4. Callers' /\ StoppedIsSilent'
    BY <1>1 DEF Publish, TypeOK, Starting, Callers, StoppedIsSilent
  <2>5. Snapshots'
    BY <1>1, Zenon DEF Publish, Snapshots
  <2> QED
    BY <2>1, <2>2, <2>3, <2>4, <2>5 DEF IInv
<1>2. ASSUME StartBegin PROVE IInv'
  <2>1. TypeOK'
    BY <1>2, Zenon DEF StartBegin, TypeOK
  <2>2. Starting'
    BY <1>2 DEF StartBegin, TypeOK, Starting
  <2>3. Ordered'
    BY <1>2 DEF StartBegin, TypeOK, Starting, Ordered
  <2>4. Callers' /\ StoppedIsSilent'
    BY <1>2 DEF StartBegin, TypeOK, Starting, Callers, StoppedIsSilent
  <2>5. Snapshots'
    BY <1>2, Zenon DEF StartBegin, Snapshots
  <2> QED
    BY <2>1, <2>2, <2>3, <2>4, <2>5 DEF IInv
<1>3. ASSUME StartReturns PROVE IInv'
  <2>1. TypeOK'
    BY <1>3, Zenon DEF StartReturns, TypeOK
  <2>2. Starting'
    BY <1>3 DEF StartReturns, TypeOK, Starting
  <2>3. Ordered'
    BY <1>3 DEF StartReturns, TypeOK, Starting, Ordered
  <2>4. Callers' /\ StoppedIsSilent'
    BY <1>3 DEF StartReturns, TypeOK, Starting, Callers, StoppedIsSilent
  <2>5. Snapshots'
    BY <1>3, Zenon DEF StartReturns, Snapshots
  <2> QED
    BY <2>1, <2>2, <2>3, <2>4, <2>5 DEF IInv
<1>4. ASSUME NEW n \in Names, StartFile(n) PROVE IInv'
  <2>1. TypeOK'
    <3>1. value' \in [Names -> Versions]
      BY <1>4 DEF StartFile, AtEntry, TypeOK
    <3>2. todo' \subseteq Names \ ValueFacts
      BY <1>4 DEF StartFile, AtEntry, TypeOK
    <3> QED
      BY <1>4, <3>1, <3>2, Zenon DEF StartFile, AtEntry, TypeOK
  <2>2. Starting'
    BY <1>4 DEF StartFile, AtEntry, TypeOK, Starting
  <2>3. Ordered'
    BY <1>4 DEF StartFile, AtEntry, TypeOK, Starting, Ordered
  <2>4. Callers' /\ StoppedIsSilent'
    BY <1>4 DEF StartFile, AtEntry, TypeOK, Starting, Callers, StoppedIsSilent
  <2>5. Snapshots'
    BY <1>4 DEF StartFile, AtEntry, TypeOK, Starting, Ordered, Callers, Snapshots
  <2> QED
    BY <2>1, <2>2, <2>3, <2>4, <2>5 DEF IInv
<1>5. ASSUME NEW n \in Names, StartFetch(n) PROVE IInv'
  <2>1. TypeOK'
    <3>1. first' \in [Names -> Versions]
      BY <1>5 DEF StartFetch, AtEntry, TypeOK
    <3> QED
      BY <1>5, <3>1, Zenon DEF StartFetch, AtEntry, TypeOK
  <2>2. Starting'
    BY <1>5 DEF StartFetch, AtEntry, TypeOK, Starting
  <2>3. Ordered'
    BY <1>5 DEF StartFetch, AtEntry, TypeOK, Starting, Ordered
  <2>4. Callers' /\ StoppedIsSilent'
    BY <1>5 DEF StartFetch, AtEntry, TypeOK, Starting, Callers, StoppedIsSilent
  <2>5. Snapshots'
    BY <1>5 DEF StartFetch, AtEntry, TypeOK, Starting, Ordered, Callers, Snapshots
  <2> QED
    BY <2>1, <2>2, <2>3, <2>4, <2>5 DEF IInv
<1>6. ASSUME NEW n \in Names, StartStore(n) PROVE IInv'
  <2>1. TypeOK'
    <3>1. value' \in [Names -> Versions] /\ first' \in [Names -> Versions]
      BY <1>6 DEF StartStore, TypeOK
    <3>2. fetcher' \in [Names -> {"none", "waiting", "fetching", "storing", "done"}]
      BY <1>6 DEF StartStore, TypeOK
    <3>3. todo' \subseteq Names \ ValueFacts
      BY <1>6 DEF StartStore, TypeOK
    <3> QED
      BY <1>6, <3>1, <3>2, <3>3, ZenonT(30) DEF StartStore, TypeOK, Starting
  <2>2. Starting'
    BY <1>6 DEF StartStore, TypeOK, Starting
  <2>3. Ordered'
    BY <1>6 DEF StartStore, TypeOK, Starting, Ordered
  <2>4. Callers' /\ StoppedIsSilent'
    BY <1>6 DEF StartStore, TypeOK, Starting, Callers, StoppedIsSilent
  <2>5. Snapshots'
    BY <1>6, SMTT(30) DEF StartStore, TypeOK, Starting, Ordered, Callers, Snapshots
  <2> QED
    BY <2>1, <2>2, <2>3, <2>4, <2>5 DEF IInv
<1>7. ASSUME NEW n \in Names, StartFails(n) PROVE IInv'
  <2>1. TypeOK'
    BY <1>7, Zenon DEF StartFails, AtEntry, TypeOK
  <2>2. Starting'
    BY <1>7 DEF StartFails, AtEntry, TypeOK, Starting
  <2>3. Ordered'
    BY <1>7 DEF StartFails, AtEntry, TypeOK, Starting, Ordered
  <2>4. Callers' /\ StoppedIsSilent'
    BY <1>7 DEF StartFails, AtEntry, TypeOK, Starting, Callers, StoppedIsSilent
  <2>5. Snapshots'
    BY <1>7 DEF StartFails, AtEntry, TypeOK, Starting, Ordered, Callers, Snapshots
  <2> QED
    BY <2>1, <2>2, <2>3, <2>4, <2>5 DEF IInv
<1>8. ASSUME NEW n \in URLFacts, Tick(n) PROVE IInv'
  <2>1. TypeOK'
    BY <1>8, Zenon DEF Tick, TypeOK
  <2>2. Starting'
    BY <1>8 DEF Tick, TypeOK, Starting
  <2>3. Ordered'
    BY <1>8 DEF Tick, TypeOK, Starting, Ordered
  <2>4. Callers' /\ StoppedIsSilent'
    BY <1>8 DEF Tick, TypeOK, Starting, Callers, StoppedIsSilent
  <2>5. Snapshots'
    BY <1>8, Zenon DEF Tick, Snapshots
  <2> QED
    BY <2>1, <2>2, <2>3, <2>4, <2>5 DEF IInv
<1>9. ASSUME NEW n \in URLFacts, FetchOK(n) PROVE IInv'
  <2>1. TypeOK'
    <3>1. body' \in [Names -> Versions]
      BY <1>9 DEF FetchOK, TypeOK
    <3>2. fetcher' \in [Names -> {"none", "waiting", "fetching", "storing", "done"}]
      BY <1>9 DEF FetchOK, TypeOK
    <3> QED
      BY <1>9, <3>1, <3>2, Zenon DEF FetchOK, TypeOK
  <2>2. Starting'
    BY <1>9 DEF FetchOK, TypeOK, Starting
  <2>3. Ordered'
    BY <1>9, SMTT(30) DEF FetchOK, TypeOK, Starting, Ordered
  <2>4. Callers' /\ StoppedIsSilent'
    BY <1>9 DEF FetchOK, TypeOK, Starting, Callers, StoppedIsSilent
  <2>5. Snapshots'
    BY <1>9, Zenon DEF FetchOK, Snapshots
  <2> QED
    BY <2>1, <2>2, <2>3, <2>4, <2>5 DEF IInv
<1>10. ASSUME NEW n \in URLFacts, FetchFails(n) PROVE IInv'
  <2>1. TypeOK'
    BY <1>10, Zenon DEF FetchFails, TypeOK
  <2>2. Starting'
    BY <1>10 DEF FetchFails, TypeOK, Starting
  <2>3. Ordered'
    BY <1>10 DEF FetchFails, TypeOK, Starting, Ordered
  <2>4. Callers' /\ StoppedIsSilent'
    BY <1>10 DEF FetchFails, TypeOK, Starting, Callers, StoppedIsSilent
  <2>5. Snapshots'
    BY <1>10, Zenon DEF FetchFails, Snapshots
  <2> QED
    BY <2>1, <2>2, <2>3, <2>4, <2>5 DEF IInv
<1>11. ASSUME NEW n \in URLFacts, Store(n) PROVE IInv'
  <2>1. TypeOK'
    BY <1>11, Zenon DEF Store, TypeOK
  <2>2. Starting'
    BY <1>11 DEF Store, TypeOK, Starting, Ordered
  <2>3. Ordered'
    BY <1>11 DEF Store, TypeOK, Starting, Ordered
  <2>4. Callers' /\ StoppedIsSilent'
    BY <1>11 DEF Store, TypeOK, Starting, Callers, StoppedIsSilent
  <2>5. Snapshots'
    <3>1. \A k \in Names : value[k] \in Nat /\ value'[k] \in Nat /\ value[k] <= value'[k]
      BY <1>11 DEF Store, TypeOK, Ordered
    <3>2. left' = left /\ out' = out /\ snap' = snap
      BY <1>11, Zenon DEF Store
    <3>3. ASSUME NEW t \in Readers, NEW k \in Names
          PROVE  snap[t][k] <= value'[k] /\ out[t][k] <= value'[k]
      <4>1. snap[t][k] \in Nat /\ out[t][k] \in Nat
        BY DEF TypeOK
      <4>2. snap[t][k] <= value[k] /\ out[t][k] <= value[k]
        BY Zenon DEF Snapshots
      <4>3. \A x, y, z \in Nat : x <= y /\ y <= z => x <= z
        OBVIOUS
      <4> QED
        BY <3>1, <4>1, <4>2, <4>3, Zenon
    <3> QED
      BY <3>2, <3>3, Zenon DEF Snapshots
  <2> QED
    BY <2>1, <2>2, <2>3, <2>4, <2>5 DEF IInv
<1>12. ASSUME NEW n \in URLFacts, Exit(n) PROVE IInv'
  <2>1. TypeOK'
    BY <1>12, Zenon DEF Exit, TypeOK
  <2>2. Starting'
    BY <1>12 DEF Exit, TypeOK, Starting
  <2>3. Ordered'
    BY <1>12 DEF Exit, TypeOK, Starting, Ordered
  <2>4. Callers' /\ StoppedIsSilent'
    BY <1>12 DEF Exit, TypeOK, Starting, Callers, StoppedIsSilent
  <2>5. Snapshots'
    BY <1>12, Zenon DEF Exit, Snapshots
  <2> QED
    BY <2>1, <2>2, <2>3, <2>4, <2>5 DEF IInv
<1>13. ASSUME NEW s \in Stoppers, StopTake(s) PROVE IInv'
  <2>1. TypeOK'
    BY <1>13, Zenon DEF StopTake, TypeOK
  <2>2. Starting'
    BY <1>13 DEF StopTake, TypeOK, Starting
  <2>3. Ordered'
    BY <1>13 DEF StopTake, TypeOK, Starting, Ordered
  <2>4. Callers' /\ StoppedIsSilent'
    BY <1>13 DEF StopTake, TypeOK, Starting, Callers, StoppedIsSilent
  <2>5. Snapshots'
    BY <1>13, Zenon DEF StopTake, Snapshots
  <2> QED
    BY <2>1, <2>2, <2>3, <2>4, <2>5 DEF IInv
<1>14. ASSUME NEW s \in Stoppers, StopCancel(s) PROVE IInv'
  <2>1. TypeOK'
    <3>1. cancelled' \subseteq URLFacts
      BY <1>14 DEF StopCancel, TypeOK
    <3>2. taken' \in [Stoppers -> SUBSET URLFacts]
      BY <1>14 DEF StopCancel, TypeOK
    <3> QED
      BY <1>14, <3>1, <3>2, Zenon DEF StopCancel, TypeOK
  <2>2. Starting'
    BY <1>14 DEF StopCancel, TypeOK, Starting
  <2>3. Ordered'
    BY <1>14 DEF StopCancel, TypeOK, Starting, Ordered
  <2>4. Callers' /\ StoppedIsSilent'
    BY <1>14 DEF StopCancel, TypeOK, Starting, Callers, StoppedIsSilent
  <2>5. Snapshots'
    BY <1>14, Zenon DEF StopCancel, Snapshots
  <2> QED
    BY <2>1, <2>2, <2>3, <2>4, <2>5 DEF IInv
<1>15. ASSUME NEW s \in Stoppers, StopReturns(s) PROVE IInv'
  <2>1. TypeOK'
    BY <1>15, Zenon DEF StopReturns, TypeOK
  <2>2. Starting'
    BY <1>15 DEF StopReturns, TypeOK, Starting
  <2>3. Ordered'
    BY <1>15 DEF StopReturns, TypeOK, Starting, Ordered
  <2>4. Callers' /\ StoppedIsSilent'
    BY <1>15 DEF StopReturns, TypeOK, Starting, Callers, StoppedIsSilent
  <2>5. Snapshots'
    BY <1>15, Zenon DEF StopReturns, Snapshots
  <2> QED
    BY <2>1, <2>2, <2>3, <2>4, <2>5 DEF IInv
<1>16. ASSUME NEW r \in Readers, SnapshotBegin(r) PROVE IInv'
  <2>1. TypeOK'
    BY <1>16, Zenon DEF SnapshotBegin, TypeOK
  <2>2. Starting'
    BY <1>16 DEF SnapshotBegin, TypeOK, Starting
  <2>3. Ordered'
    BY <1>16 DEF SnapshotBegin, TypeOK, Starting, Ordered
  <2>4. Callers' /\ StoppedIsSilent'
    BY <1>16 DEF SnapshotBegin, TypeOK, Starting, Callers, StoppedIsSilent
  <2>5. Snapshots'
    <3>1. \A t \in Readers : \A n \in Names : n \notin left'[t] => left'[t] = left[t]
      BY <1>16 DEF SnapshotBegin, TypeOK
    <3>2. value' = value /\ out' = out /\ snap' = snap
      BY <1>16, Zenon DEF SnapshotBegin
    <3> QED
      BY <3>1, <3>2, Zenon DEF Snapshots
  <2> QED
    BY <2>1, <2>2, <2>3, <2>4, <2>5 DEF IInv
<1>17. ASSUME NEW r \in Readers, SnapshotLoad(r) PROVE IInv'
  <2>1. TypeOK'
    <3>1. left' \in [Readers -> SUBSET Names]
      BY <1>17 DEF SnapshotLoad, TypeOK
    <3>2. out' \in [Readers -> [Names -> Versions]]
      BY <1>17 DEF SnapshotLoad, TypeOK
    <3>3. snap' = snap \/ snap' = [snap EXCEPT ![r] = out'[r]]
      BY <1>17 DEF SnapshotLoad
    <3>4. out'[r] \in [Names -> Versions]
      BY <3>2, Zenon
    <3>5. snap \in [Readers -> [Names -> Versions]]
      BY DEF TypeOK
    <3>6. snap' \in [Readers -> [Names -> Versions]]
      BY <3>3, <3>4, <3>5
    <3> QED
      BY <1>17, <3>1, <3>2, <3>6, Zenon DEF SnapshotLoad, TypeOK
  <2>2. Starting'
    BY <1>17 DEF SnapshotLoad, TypeOK, Starting
  <2>3. Ordered'
    BY <1>17 DEF SnapshotLoad, TypeOK, Starting, Ordered
  <2>4. Callers' /\ StoppedIsSilent'
    BY <1>17 DEF SnapshotLoad, TypeOK, Starting, Callers, StoppedIsSilent
  <2>5. Snapshots'
    <3>1. PICK k \in left[r] :
            /\ out' = [out EXCEPT ![r][k] = value[k]]
            /\ left' = [left EXCEPT ![r] = left[r] \ {k}]
            /\ snap' = IF left[r] = {k} THEN [snap EXCEPT ![r] = out'[r]] ELSE snap
            /\ value' = value
      BY <1>17 DEF SnapshotLoad
    <3>2. value[k] # 0
      BY <3>1 DEF TypeOK, Starting, Callers
    <3>3. ASSUME NEW t \in Readers, NEW n \in Names
          PROVE  /\ snap'[t][n] <= value'[n] /\ out'[t][n] <= value'[n]
                 /\ left'[t] # {} /\ n \notin left'[t] => out'[t][n] # 0 /\ snap'[t][n] <= out'[t][n]
      <4>1. /\ snap[t][n] <= value[n] /\ out[t][n] <= value[n]
            /\ left[t] # {} /\ n \notin left[t] => out[t][n] # 0 /\ snap[t][n] <= out[t][n]
        BY Zenon DEF Snapshots
      <4>2. CASE t # r
        <5>1. out'[t] = out[t] /\ left'[t] = left[t] /\ snap'[t] = snap[t]
          BY <3>1, <4>2 DEF TypeOK
        <5> QED
          BY <3>1, <4>1, <5>1, Zenon
      <4>3. CASE t = r
        <5>1. /\ out'[r][n] = IF n = k THEN value[k] ELSE out[r][n]
              /\ left'[r] = left[r] \ {k}
              /\ snap'[r][n] = IF left[r] = {k} THEN out'[r][n] ELSE snap[r][n]
          BY <3>1 DEF TypeOK
        <5> QED
          BY <3>1, <3>2, <4>1, <4>3, <5>1, SMTT(30) DEF TypeOK
      <4> QED
        BY <4>2, <4>3, Zenon
    <3> QED
      BY <3>3, Zenon DEF Snapshots
  <2> QED
    BY <2>1, <2>2, <2>3, <2>4, <2>5 DEF IInv
<1>90. CASE UNCHANGED vars
  BY <1>90, Zenon DEF vars, IInv, TypeOK, Starting, Ordered, Callers, Snapshots, StoppedIsSilent
<1> QED
  BY <1>1, <1>2, <1>3, <1>4, <1>5, <1>6, <1>7, <1>8, <1>9,
     <1>10, <1>11, <1>12, <1>13, <1>14, <1>15, <1>16, <1>17, <1>90 DEF Next, StartStep, FetcherStep, StopStep

\* The inductive invariant, which includes type correctness.
THEOREM Invariance == Spec => []IInv
BY InitIInv, StepIInv, PTL DEF Spec

\* A policy whose Start returned nil serves no empty fact, torn snapshots included.
THEOREM NoEmptyFact == Spec => []FactsPresent
<1>1. IInv => FactsPresent
  BY DEF IInv, Starting, Snapshots, FactsPresent
<1> QED
  BY <1>1, Invariance, PTL

\* After any Stop returned no fetcher is left, so the facts are frozen.
THEOREM StopSilences == Spec => []StoppedIsSilent
<1>1. IInv => StoppedIsSilent
  BY DEF IInv
<1> QED
  BY <1>1, Invariance, PTL

\* No reader sees a fact go back to an older body, however refreshes and overlapping
\* snapshots interleave.
THEOREM ReadersForward == Spec => SnapshotsForward
<1>1. IInv /\ [Next]_vars
        => [\A r \in Readers, n \in Names : snap'[r][n] >= snap[r][n]]_snap
  <2> SUFFICES ASSUME IInv, [Next]_vars, snap' # snap, NEW r \in Readers, NEW n \in Names
               PROVE  snap'[r][n] >= snap[r][n]
    OBVIOUS
  <2>1. PICK u \in Readers : SnapshotLoad(u)
    BY DEF Next, StartStep, FetcherStep, StopStep, vars, starting, fetching, stopping,
       reading, Publish, StartBegin, StartReturns, StartFile, StartFetch, StartStore,
       StartFails, Tick, FetchOK, FetchFails, Store, Exit, StopTake, StopCancel,
       StopReturns, SnapshotBegin
  <2> QED
    BY <2>1, SMTT(30) DEF SnapshotLoad, IInv, TypeOK, Snapshots
<1> QED
  BY <1>1, Invariance, PTL DEF Spec, SnapshotsForward

-----------------------------------------------------------------------------
(* The counters.                                                           *)

\* No two keys share a counter object, and a call counts on the object its key maps to.
CountersPrivate ==
  /\ \A k, l \in Keys : k # l /\ perRule[k] # 0 => perRule[k] # perRule[l]
  /\ \A r \in Recorders : at[r] = "count" => c[r] = perRule[key[r]] /\ c[r] # 0

\* A scrape only prints rules that have a counter, and none has less than was printed.
Printed ==
  /\ \A k \in keys : perRule[k] # 0
  /\ \A k \in Keys : page[k] <= ValueOf(k)

\* Finitely many decisions have been counted, finitely many calls are on their way.
Finite == \A o \in OutcomesOf : IsFiniteSet(Counted(o)) /\ IsFiniteSet(OnTheWay(o))

\* The inductive invariant of record() and the scrapes.
CountersInv == MetricsTypeOK /\ CountersPrivate /\ Printed

\* What NothingLost needs besides.
Balance == NothingLost /\ Finite

HIDE DEF Names, Versions, Started
HIDE SourceAssumption
HIDE DisjointMethods
USE KeysAssumption, RecordAssumption

\* A call starts, or finds its counter.
LEMMA StepLookup ==
  ASSUME CountersInv, NEW r \in Recorders, AddTotal(r) \/ Lookup(r)
  PROVE  CountersInv' /\ UNCHANGED page
<1> USE DEF recording, scraping
<1>1. MetricsTypeOK /\ CountersPrivate /\ Printed
  BY DEF CountersInv
<1>2. CASE AddTotal(r)
  <2>1. PICK k \in Keys : /\ key' = [key EXCEPT ![r] = k]
                          /\ total' = [total EXCEPT ![k[2]] = @ + 1]
    BY <1>2, Zenon DEF AddTotal
  <2>2. /\ calls < MaxRecords /\ calls' = calls + 1 /\ at' = [at EXCEPT ![r] = "lookup"]
        /\ UNCHANGED <<perRule, count, c, scraping>>
    BY <1>2 DEF AddTotal
  <2>3. total' \in [OutcomesOf -> Nat]
    <3>1. total \in [OutcomesOf -> Nat] /\ k[2] \in OutcomesOf
      BY <1>1 DEF MetricsTypeOK
    <3> QED
      BY <2>1, <3>1
  <2>4. calls' \in 0..MaxRecords
    BY <1>1, <2>2 DEF MetricsTypeOK
  <2>5. MetricsTypeOK'
    BY <1>1, <2>1, <2>2, <2>3, <2>4 DEF MetricsTypeOK
  <2>6. CountersPrivate'
    BY <1>1, <2>1, <2>2 DEF MetricsTypeOK, CountersPrivate
  <2>7. Printed'
    BY <1>1, <2>2 DEF Printed, ValueOf
  <2> QED
    BY <2>2, <2>5, <2>6, <2>7 DEF CountersInv
<1>3. CASE Lookup(r)
  <2>1. /\ c' = [c EXCEPT ![r] = perRule[key[r]]]
        /\ at' = [at EXCEPT ![r] = IF perRule[key[r]] = 0 THEN "create" ELSE "count"]
        /\ UNCHANGED <<total, perRule, count, key, calls, scraping>>
    BY <1>3 DEF Lookup
  <2>2. MetricsTypeOK'
    BY <1>1, <2>1 DEF MetricsTypeOK
  <2>3. CountersPrivate'
    BY <1>1, <2>1 DEF MetricsTypeOK, CountersPrivate
  <2>4. Printed'
    BY <1>1, <2>1 DEF Printed, ValueOf
  <2> QED
    BY <2>1, <2>2, <2>3, <2>4 DEF CountersInv
<1> QED
  BY <1>2, <1>3

\* Under the write lock a key gets a counter, its own, or keeps the one it has.
LEMMA StepCreate ==
  ASSUME CountersInv, NEW r \in Recorders, Create(r)
  PROVE  CountersInv' /\ UNCHANGED page
<1> USE DEF recording, scraping
<1>1. MetricsTypeOK /\ CountersPrivate /\ Printed
  BY DEF CountersInv
<1> DEFINE k   == key[r]
           new == CHOOSE i \in Unused : TRUE
           ptr == IF perRule[k] # 0 THEN perRule[k] ELSE new
<1>2. /\ perRule' = [perRule EXCEPT ![k] = ptr] /\ c' = [c EXCEPT ![r] = ptr]
      /\ at' = [at EXCEPT ![r] = "count"] /\ UNCHANGED <<total, count, key, calls, scraping>>
  BY DEF Create
<1>3. new \in Counters /\ new # 0 /\ \A l \in Keys : perRule[l] # new
  <2>1. new \in Unused
    BY DEF Create
  <2> HIDE DEF new
  <2> QED
    BY <2>1 DEF Unused, Counters
<1> HIDE DEF new
<1>4. k \in Keys /\ ptr \in Counters /\ ptr # 0
  BY <1>1, <1>3 DEF MetricsTypeOK
<1>5. perRule[k] # 0 => ptr = perRule[k]
  OBVIOUS
<1>6. perRule[k] = 0 => \A l \in Keys : perRule[l] # ptr
  BY <1>3
<1> HIDE DEF ptr
<1>7. MetricsTypeOK'
  BY <1>1, <1>2, <1>4 DEF MetricsTypeOK
<1>8. /\ perRule'[k] = ptr /\ \A l \in Keys : l # k => perRule'[l] = perRule[l]
      /\ perRule[k] # 0 => perRule' = perRule
  BY <1>1, <1>2, <1>4, <1>5 DEF MetricsTypeOK
<1>9. CountersPrivate'
  <2>1. ASSUME NEW l \in Keys, NEW m \in Keys, l # m, perRule'[l] # 0
        PROVE  perRule'[l] # perRule'[m]
    <3>1. perRule[l] # 0 => perRule[l] # perRule[m]
      BY <1>1, <2>1, Zenon DEF CountersPrivate
    <3>2. CASE perRule[k] # 0
      BY <1>8, <2>1, <3>1, <3>2, Zenon
    <3>3. CASE perRule[k] = 0
      BY <1>6, <1>8, <2>1, <3>1, <3>3, Zenon
    <3> QED
      BY <3>2, <3>3, Zenon
  <2>2. ASSUME NEW s \in Recorders, at'[s] = "count"
        PROVE  c'[s] = perRule'[key'[s]] /\ c'[s] # 0
    <3>1. CASE s = r
      BY <1>1, <1>2, <1>4, <1>8, <3>1 DEF MetricsTypeOK
    <3>2. CASE s # r
      BY <1>1, <1>2, <1>5, <1>8, <2>2, <3>2, SMTT(30) DEF MetricsTypeOK, CountersPrivate
    <3> QED
      BY <3>1, <3>2
  <2> QED
    BY <2>1, <2>2 DEF CountersPrivate
<1>10. Printed'
  <2>1. \A l \in keys' : perRule'[l] # 0
    BY <1>1, <1>2, <1>4, <1>8 DEF Printed, MetricsTypeOK
  <2>2. ASSUME NEW l \in Keys
        PROVE  page'[l] <= ValueOf(l)'
    <3>1. CASE perRule'[l] = perRule[l]
      BY <1>1, <1>2, <3>1 DEF Printed, ValueOf
    <3>2. CASE perRule'[l] # perRule[l]
      <4>1. l = k /\ perRule[l] = 0
        BY <1>8, <3>2
      <4>2. page[l] \in Nat /\ page[l] <= 0 /\ count[ptr] \in Nat
        BY <1>1, <1>4, <4>1 DEF Printed, ValueOf, MetricsTypeOK
      <4>3. ValueOf(l)' = count[ptr]
        BY <1>2, <1>4, <1>8, <4>1 DEF ValueOf
      <4> QED
        BY <1>2, <4>2, <4>3, SMTT(30)
    <3> QED
      BY <3>1, <3>2
  <2> QED
    BY <2>1, <2>2 DEF Printed
<1> QED
  BY <1>2, <1>7, <1>9, <1>10 DEF CountersInv

\* The atomic increment.
LEMMA StepCount ==
  ASSUME CountersInv, NEW r \in Recorders, Count(r)
  PROVE  CountersInv' /\ UNCHANGED page
<1> USE DEF recording, scraping
<1>1. MetricsTypeOK /\ CountersPrivate /\ Printed
  BY DEF CountersInv
<1>2. /\ at[r] = "count" /\ count' = [count EXCEPT ![c[r]] = @ + 1]
      /\ c' = [c EXCEPT ![r] = 0] /\ at' = [at EXCEPT ![r] = "idle"]
      /\ UNCHANGED <<total, perRule, key, calls, scraping>>
  BY DEF Count
<1>3. count' \in [Counters -> Nat] /\ \A i \in Counters : count'[i] >= count[i]
  <2>1. count \in [Counters -> Nat]
    BY <1>1 DEF MetricsTypeOK
  <2>2. ASSUME NEW i \in Counters
        PROVE  count'[i] \in Nat /\ count'[i] >= count[i]
    <3>1. count[i] \in Nat
      BY <2>1
    <3>2. count'[i] = count[i] \/ count'[i] = count[i] + 1
      BY <1>2, <2>1
    <3> QED
      BY <3>1, <3>2
  <2>3. count' = [i \in Counters |-> count'[i]]
    BY <1>2, <2>1, Zenon
  <2> QED
    BY <2>2, <2>3
<1>4. MetricsTypeOK'
  BY <1>1, <1>2, <1>3 DEF MetricsTypeOK
<1>5. CountersPrivate'
  BY <1>1, <1>2 DEF CountersPrivate, MetricsTypeOK
<1>6. Printed'
  <2>1. ASSUME NEW k \in Keys
        PROVE  page'[k] <= ValueOf(k)'
    <3>1. CASE perRule[k] = 0
      BY <1>1, <1>2, <3>1 DEF Printed, ValueOf
    <3>2. CASE perRule[k] # 0
      <4>1. perRule[k] \in Counters /\ page[k] \in Nat /\ page[k] <= count[perRule[k]]
        BY <1>1, <3>2 DEF Printed, ValueOf, MetricsTypeOK
      <4>2. count[perRule[k]] \in Nat /\ count'[perRule[k]] \in Nat
        BY <1>1, <1>3, <4>1 DEF MetricsTypeOK
      <4>3. count'[perRule[k]] >= count[perRule[k]]
        BY <1>3, <4>1
      <4>4. ValueOf(k)' = count'[perRule[k]]
        BY <1>2, <3>2 DEF ValueOf
      <4>5. page' = page
        BY <1>2
      <4>6. \A x, y, z \in Nat : x <= y /\ z >= y => x <= z
        OBVIOUS
      <4> QED
        BY <4>1, <4>2, <4>3, <4>4, <4>5, <4>6, Zenon
    <3> QED
      BY <3>1, <3>2
  <2> QED
    BY <1>1, <1>2, <2>1 DEF Printed
<1> QED
  BY <1>2, <1>4, <1>5, <1>6 DEF CountersInv

\* A scrape.
LEMMA StepScrape ==
  ASSUME CountersInv, ScrapeKeys \/ ScrapeLine \/ ScrapeEnd
  PROVE  CountersInv' /\ \A k \in Keys : page'[k] >= page[k]
<1> USE DEF recording, scraping
<1>1. MetricsTypeOK /\ CountersPrivate /\ Printed
  BY DEF CountersInv
<1>2. UNCHANGED <<total, perRule, count, recording>>
  BY DEF ScrapeKeys, ScrapeLine, ScrapeEnd
<1>3. CountersPrivate'
  BY <1>1, <1>2 DEF CountersPrivate
<1>4. CASE ScrapeKeys \/ ScrapeEnd
  <2>1. /\ scrape' \in {"idle", "print"} /\ UNCHANGED page
        /\ keys' \subseteq Keys /\ \A k \in keys' : perRule[k] # 0
    BY <1>1, <1>4 DEF ScrapeKeys, ScrapeEnd, MetricsTypeOK, Printed
  <2>2. MetricsTypeOK' /\ Printed'
    BY <1>1, <1>2, <2>1 DEF MetricsTypeOK, Printed, ValueOf
  <2>3. \A k \in Keys : page[k] \in Nat
    BY <1>1 DEF MetricsTypeOK
  <2>4. \A k \in Keys : page'[k] >= page[k]
    BY <2>1, <2>3
  <2> QED
    BY <1>3, <2>2, <2>4, Zenon DEF CountersInv
<1>5. CASE ScrapeLine
  <2>1. PICK k \in keys : page' = [page EXCEPT ![k] = count[perRule[k]]] /\ keys' = keys \ {k}
    BY <1>5, Zenon DEF ScrapeLine
  <2>2. UNCHANGED scrape
    BY <1>5 DEF ScrapeLine
  <2>3. k \in Keys /\ perRule[k] \in Counters /\ perRule[k] # 0
    BY <1>1 DEF MetricsTypeOK, Printed
  <2>4. count[perRule[k]] \in Nat /\ ValueOf(k) = count[perRule[k]]
    BY <1>1, <2>3 DEF MetricsTypeOK, ValueOf
  <2>5. page \in [Keys -> Nat] /\ \A l \in Keys : page[l] <= ValueOf(l)
    BY <1>1 DEF MetricsTypeOK, Printed
  <2>6. MetricsTypeOK'
    BY <1>1, <1>2, <2>1, <2>2, <2>3, <2>4 DEF MetricsTypeOK
  <2>7. page'[k] = ValueOf(k) /\ \A l \in Keys : l # k => page'[l] = page[l]
    BY <2>1, <2>3, <2>4, <2>5
  <2>8. \A l \in Keys : page'[l] >= page[l]
    <3> SUFFICES ASSUME NEW l \in Keys
                 PROVE  page'[l] >= page[l]
      BY Zenon
    <3>1. page[l] \in Nat /\ page[l] <= ValueOf(l)
      BY <2>5, Zenon
    <3>2. CASE l = k
      BY <2>4, <2>7, <3>1, <3>2
    <3>3. CASE l # k
      BY <2>7, <3>1, <3>3
    <3> QED
      BY <3>2, <3>3, Zenon
  <2>9. Printed'
    <3>1. \A l \in Keys : ValueOf(l)' = ValueOf(l)
      BY <1>2 DEF ValueOf
    <3>2. \A l \in Keys : page'[l] <= ValueOf(l)
      BY <2>3, <2>4, <2>5, <2>7
    <3> QED
      BY <1>1, <1>2, <2>1, <3>1, <3>2 DEF Printed
  <2> QED
    BY <1>3, <2>6, <2>8, <2>9 DEF CountersInv
<1> QED
  BY <1>4, <1>5

\* No step loses a counter, shares one, or prints less than before.
LEMMA Steps ==
  ASSUME CountersInv, [MetricsNext]_metrics
  PROVE  CountersInv' /\ \A k \in Keys : page'[k] >= page[k]
<1>1. \A k \in Keys : page[k] \in Nat
  BY DEF CountersInv, MetricsTypeOK
<1>2. CASE UNCHANGED metrics
  <2>1. CountersInv'
    BY <1>2 DEF metrics, recording, scraping, CountersInv, MetricsTypeOK, CountersPrivate, Printed, ValueOf
  <2> QED
    BY <1>1, <1>2, <2>1 DEF metrics, scraping
<1>3. ASSUME NEW r \in Recorders, record(r)
      PROVE  CountersInv' /\ UNCHANGED page
  BY <1>3, StepLookup, StepCreate, StepCount, Zenon DEF record
<1>4. ASSUME UNCHANGED page
      PROVE  \A k \in Keys : page'[k] >= page[k]
  BY <1>1, <1>4
<1> QED
  BY <1>2, <1>3, <1>4, StepScrape, Zenon DEF MetricsNext

\* The books are kept where neither the counters nor the calls on their way change.
LEMMA SameBalance ==
  ASSUME Balance, UNCHANGED total,
         \A k \in Keys : ValueOf(k)' = ValueOf(k),
         \A o \in OutcomesOf : OnTheWay(o)' = OnTheWay(o)
  PROVE  Balance'
<1>1. \A o \in OutcomesOf : Counted(o)' = Counted(o)
  BY Zenon DEF Counted
<1> QED
  BY <1>1, Zenon DEF Balance, NothingLost, Finite

\* A call starts: one more is on its way.
LEMMA BalanceAddTotal ==
  ASSUME CountersInv, Balance, NEW r \in Recorders, AddTotal(r)
  PROVE  Balance'
<1>1. PICK k \in Keys : /\ key' = [key EXCEPT ![r] = k]
                        /\ total' = [total EXCEPT ![k[2]] = @ + 1]
  BY Zenon DEF AddTotal
<1>2. /\ at[r] = "idle" /\ at' = [at EXCEPT ![r] = "lookup"]
      /\ UNCHANGED <<perRule, count>>
  BY DEF AddTotal
<1>3. /\ total \in [OutcomesOf -> Nat] /\ at \in [Recorders -> {"idle", "lookup", "create", "count"}]
      /\ key \in [Recorders -> Keys]
  BY DEF CountersInv, MetricsTypeOK
<1>4. ASSUME NEW o \in OutcomesOf
      PROVE  Counted(o)' = Counted(o)
  BY <1>2, Zenon DEF Counted, ValueOf
<1>5. ASSUME NEW o \in OutcomesOf
      PROVE  /\ total'[o] = Cardinality(Counted(o)') + Cardinality(OnTheWay(o)')
             /\ IsFiniteSet(Counted(o)') /\ IsFiniteSet(OnTheWay(o)')
  <2>1. /\ total[o] = Cardinality(Counted(o)) + Cardinality(OnTheWay(o))
        /\ IsFiniteSet(Counted(o)) /\ IsFiniteSet(OnTheWay(o))
    BY Zenon DEF Balance, NothingLost, Finite
  <2>2. CASE o = k[2]
    <3>1. OnTheWay(o)' = OnTheWay(o) \cup {r} /\ r \notin OnTheWay(o)
      BY <1>1, <1>2, <1>3, <2>2 DEF OnTheWay
    <3>2. /\ IsFiniteSet(OnTheWay(o)')
          /\ Cardinality(OnTheWay(o)') = Cardinality(OnTheWay(o)) + 1
      <4>1. PICK S : S = OnTheWay(o)
        OBVIOUS
      <4>2. IsFiniteSet(S \cup {r}) /\ Cardinality(S \cup {r}) = Cardinality(S) + 1
        BY <2>1, <3>1, <4>1, FS_AddElement
      <4> QED
        BY <3>1, <4>1, <4>2, Zenon
    <3>3. Cardinality(OnTheWay(o)) \in Nat /\ Cardinality(Counted(o)) \in Nat
      BY <2>1, FS_CardinalityType, Zenon
    <3>4. total'[o] = total[o] + 1
      BY <1>1, <1>3, <2>2
    <3>5. \A a, b \in Nat : (a + b) + 1 = a + (b + 1)
      OBVIOUS
    <3> QED
      BY <1>4, <2>1, <3>2, <3>3, <3>4, <3>5, Zenon
  <2>3. CASE o # k[2]
    <3>1. OnTheWay(o)' = OnTheWay(o)
      BY <1>1, <1>2, <1>3, <2>3 DEF OnTheWay
    <3>2. total'[o] = total[o]
      BY <1>1, <1>3, <2>3
    <3> QED
      BY <1>4, <2>1, <3>1, <3>2, Zenon
  <2> QED
    BY <2>2, <2>3, Zenon
<1> QED
  BY <1>5, Zenon DEF Balance, NothingLost, Finite

\* A new counter starts at zero: the map's change counts and loses nothing.
LEMMA BalanceCreate ==
  ASSUME CountersInv, Balance, NEW r \in Recorders, Create(r)
  PROVE  Balance'
<1> DEFINE k   == key[r]
           new == CHOOSE i \in Unused : TRUE
           ptr == IF perRule[k] # 0 THEN perRule[k] ELSE new
<1>1. /\ perRule' = [perRule EXCEPT ![k] = ptr] /\ at[r] = "create"
      /\ at' = [at EXCEPT ![r] = "count"] /\ UNCHANGED <<total, count, key>>
  BY DEF Create
<1>2. new \in Counters /\ new # 0 /\ count[new] = 0
  <2>1. new \in Unused
    BY DEF Create
  <2> HIDE DEF new
  <2> QED
    BY <2>1 DEF Unused, Counters
<1> HIDE DEF new
<1>3. /\ perRule \in [Keys -> Counters \cup {0}] /\ k \in Keys
      /\ at \in [Recorders -> {"idle", "lookup", "create", "count"}]
  BY DEF CountersInv, MetricsTypeOK
<1>4. \A l \in Keys : ValueOf(l)' = ValueOf(l)
  BY <1>1, <1>2, <1>3 DEF ValueOf
<1>5. \A o \in OutcomesOf : OnTheWay(o)' = OnTheWay(o)
  BY <1>1, <1>3 DEF OnTheWay
<1> QED
  BY <1>1, <1>4, <1>5, SameBalance, Zenon

\* The atomic increment: a call on its way arrives in its rule's counter, and in no other.
LEMMA BalanceCount ==
  ASSUME CountersInv, Balance, NEW r \in Recorders, Count(r)
  PROVE  Balance'
<1>0. PICK k \in Keys : key[r] = k
  BY DEF CountersInv, MetricsTypeOK
<1>1. /\ at[r] = "count" /\ count' = [count EXCEPT ![c[r]] = @ + 1]
      /\ at' = [at EXCEPT ![r] = "idle"] /\ UNCHANGED <<total, perRule, key>>
  BY DEF Count
<1>2. /\ perRule \in [Keys -> Counters \cup {0}] /\ count \in [Counters -> Nat]
      /\ at \in [Recorders -> {"idle", "lookup", "create", "count"}]
  BY DEF CountersInv, MetricsTypeOK
<1>3. c[r] = perRule[k] /\ perRule[k] # 0
  BY <1>0, <1>1 DEF CountersInv, CountersPrivate
<1>4. perRule[k] \in Counters /\ count[perRule[k]] \in Nat
  BY <1>2, <1>3
<1>5. ValueOf(k) \in Nat /\ ValueOf(k)' = ValueOf(k) + 1
  BY <1>1, <1>2, <1>3, <1>4 DEF ValueOf
<1>6. \A l \in Keys : l # k => ValueOf(l)' = ValueOf(l)
  <2>1. ASSUME NEW l \in Keys, l # k
        PROVE  perRule[l] # perRule[k]
    BY <1>2, <1>3, <2>1 DEF CountersInv, CountersPrivate
  <2> QED
    BY <1>1, <1>2, <1>3, <2>1 DEF ValueOf
<1>7. ASSUME NEW o \in OutcomesOf
      PROVE  /\ total'[o] = Cardinality(Counted(o)') + Cardinality(OnTheWay(o)')
             /\ IsFiniteSet(Counted(o)') /\ IsFiniteSet(OnTheWay(o)')
  <2>1. /\ total[o] = Cardinality(Counted(o)) + Cardinality(OnTheWay(o))
        /\ IsFiniteSet(Counted(o)) /\ IsFiniteSet(OnTheWay(o))
    BY Zenon DEF Balance, NothingLost, Finite
  <2>2. CASE o = k[2]
    <3>1. OnTheWay(o)' = OnTheWay(o) \ {r} /\ r \in OnTheWay(o)
      BY <1>0, <1>1, <1>2, <2>2 DEF OnTheWay
    <3>2. Counted(o)' = Counted(o) \cup {<<k, ValueOf(k) + 1>>}
      <4>1. \A l \in Keys : \A n : n \in 1..ValueOf(l)' <=> n \in 1..ValueOf(l) \/ (l = k /\ n = ValueOf(k) + 1)
        <5>1. \A n : n \in 1..(ValueOf(k) + 1) <=> n \in 1..ValueOf(k) \/ n = ValueOf(k) + 1
          BY <1>5
        <5> QED
          BY <1>5, <1>6, <5>1, Zenon
      <4>2. \A e : e \in Counted(o)' <=> \E l \in Keys : \E n \in 1..ValueOf(l)' : l[2] = o /\ e = <<l, n>>
        BY DEF Counted
      <4>3. \A e : e \in Counted(o) <=> \E l \in Keys : \E n \in 1..ValueOf(l) : l[2] = o /\ e = <<l, n>>
        BY DEF Counted
      <4> QED
        BY <1>2, <2>2, <4>1, <4>2, <4>3, Zenon
    <3>3. <<k, ValueOf(k) + 1>> \notin Counted(o)
      BY <1>5 DEF Counted
    <3>4. /\ IsFiniteSet(Counted(o)') /\ Cardinality(Counted(o)') = Cardinality(Counted(o)) + 1
      <4>1. PICK S, e : S = Counted(o) /\ e = <<k, ValueOf(k) + 1>>
        BY Zenon
      <4>2. IsFiniteSet(S) /\ e \notin S
        BY <2>1, <3>3, <4>1, Zenon
      <4>3. IsFiniteSet(S \cup {e}) /\ Cardinality(S \cup {e}) = Cardinality(S) + 1
        BY <4>2, FS_AddElement
      <4> QED
        BY <3>2, <4>1, <4>3, Zenon
    <3>5. /\ IsFiniteSet(OnTheWay(o)')
          /\ Cardinality(OnTheWay(o)') = Cardinality(OnTheWay(o)) - 1
      BY <2>1, <3>1, FS_RemoveElement, Zenon
    <3>6. Cardinality(OnTheWay(o)) \in Nat /\ Cardinality(Counted(o)) \in Nat
      BY <2>1, FS_CardinalityType, Zenon
    <3>7. total'[o] = total[o]
      BY <1>1, Zenon
    <3>8. PICK a, b : a = Cardinality(Counted(o)) /\ b = Cardinality(OnTheWay(o))
      BY Zenon
    <3>9. total[o] = a + b /\ a \in Nat /\ b \in Nat
      BY <2>1, <3>6, <3>8, Zenon
    <3>10. Cardinality(Counted(o)') = a + 1 /\ Cardinality(OnTheWay(o)') = b - 1
      BY <3>4, <3>5, <3>8, Zenon
    <3>11. a + b = (a + 1) + (b - 1)
      BY <3>9
    <3> QED
      BY <3>4, <3>5, <3>7, <3>9, <3>10, <3>11, Zenon
  <2>3. CASE o # k[2]
    <3>1. OnTheWay(o)' = OnTheWay(o)
      BY <1>0, <1>1, <1>2, <2>3 DEF OnTheWay
    <3>2. Counted(o)' = Counted(o)
      <4>1. \A l \in Keys : l[2] = o => ValueOf(l)' = ValueOf(l)
        BY <1>6, <2>3
      <4> QED
        BY <4>1, Zenon DEF Counted
    <3> QED
      BY <1>1, <2>1, <3>1, <3>2, Zenon
  <2> QED
    BY <2>2, <2>3, Zenon
<1> QED
  BY <1>7, Zenon DEF Balance, NothingLost, Finite

\* record() and the scrapes keep the invariant.
THEOREM CountersInvariance == MetricsSpec => []CountersInv
<1>1. MetricsInit => CountersInv
  <2> SUFFICES ASSUME MetricsInit PROVE CountersInv
    OBVIOUS
  <2>1. MetricsTypeOK
    BY DEF MetricsInit, MetricsTypeOK
  <2>2. CountersPrivate /\ Printed
    BY DEF MetricsInit, CountersPrivate, Printed, ValueOf
  <2> QED
    BY <2>1, <2>2 DEF CountersInv
<1>2. CountersInv /\ [MetricsNext]_metrics => CountersInv'
  BY Steps
<1> QED
  BY <1>1, <1>2, PTL DEF MetricsSpec

\* What a scraper sees never goes down, however many goroutines meet a new rule at once.
THEOREM Forwards == MetricsSpec => PagesForward
<1>1. CountersInv /\ [MetricsNext]_metrics => [\A k \in Keys : page'[k] >= page[k]]_page
  BY Steps
<1> QED
  BY <1>1, CountersInvariance, PTL DEF MetricsSpec, PagesForward

\* Every step keeps the books.
LEMMA BalanceSteps ==
  ASSUME CountersInv, Balance, [MetricsNext]_metrics
  PROVE  Balance'
<1> USE DEF recording, scraping
<1>1. ASSUME UNCHANGED <<total, perRule, count, at, key>>
      PROVE  Balance'
  BY <1>1, SameBalance, Zenon DEF ValueOf, OnTheWay
<1>2. ASSUME NEW r \in Recorders, Lookup(r)
      PROVE  Balance'
  <2>1. /\ at[r] = "lookup" /\ UNCHANGED <<total, perRule, count, key>>
        /\ at' = [at EXCEPT ![r] = IF perRule[key[r]] = 0 THEN "create" ELSE "count"]
    BY <1>2 DEF Lookup
  <2>2. at \in [Recorders -> {"idle", "lookup", "create", "count"}]
    BY DEF CountersInv, MetricsTypeOK
  <2>3. \A o \in OutcomesOf : OnTheWay(o)' = OnTheWay(o)
    BY <2>1, <2>2 DEF OnTheWay
  <2>4. \A k \in Keys : ValueOf(k)' = ValueOf(k)
    BY <2>1, Zenon DEF ValueOf
  <2> QED
    BY <2>1, <2>3, <2>4, SameBalance, Zenon
<1>3. ASSUME ScrapeKeys \/ ScrapeLine \/ ScrapeEnd \/ UNCHANGED metrics
      PROVE  Balance'
  BY <1>1, <1>3 DEF ScrapeKeys, ScrapeLine, ScrapeEnd, metrics
<1> QED
  BY <1>2, <1>3, BalanceAddTotal, BalanceCreate, BalanceCount DEF MetricsNext, record

\* Between the totals and the per-rule counters no decision is lost or counted twice,
\* however many goroutines meet a new rule at once.
THEOREM Lossless == MetricsSpec => []NothingLost
<1>1. MetricsInit => Balance
  <2> SUFFICES ASSUME MetricsInit, NEW o \in OutcomesOf
               PROVE  /\ total[o] = Cardinality(Counted(o)) + Cardinality(OnTheWay(o))
                      /\ IsFiniteSet(Counted(o)) /\ IsFiniteSet(OnTheWay(o))
    BY Zenon DEF Balance, NothingLost, Finite
  <2>1. \A k \in Keys : ValueOf(k) = 0
    BY DEF MetricsInit, ValueOf
  <2>2. Counted(o) = {} /\ OnTheWay(o) = {}
    BY <2>1, SMTT(30) DEF MetricsInit, Counted, OnTheWay
  <2>3. total[o] = 0
    BY DEF MetricsInit
  <2>4. IsFiniteSet({}) /\ Cardinality({}) = 0
    BY FS_EmptySet, Zenon
  <2>5. 0 = 0 + 0
    OBVIOUS
  <2> QED
    BY <2>2, <2>3, <2>4, <2>5, Zenon
<1>2. CountersInv /\ Balance /\ [MetricsNext]_metrics => Balance'
  BY BalanceSteps
<1>3. Balance => NothingLost
  BY DEF Balance
<1> QED
  BY <1>1, <1>2, <1>3, CountersInvariance, PTL DEF MetricsSpec
=============================================================================
