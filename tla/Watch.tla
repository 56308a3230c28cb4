------------------------------- MODULE Watch -------------------------------
(***************************************************************************)
(* The config file watcher (internal/configwatch): editors and kubelet     *)
(* change the file, inotify queues what they do to the directory, Run      *)
(* filters and debounces it, and expired timers run the reload callback,   *)
(* each on a goroutine of its own (HotReload has the callback's inside).   *)
(*                                                                         *)
(* Abstractions.  The file's content is its version and whether a reader   *)
(* finds it whole, torn by a write in progress, or gone.  A callback is    *)
(* the moment LoadFile reads the file.  fsnotify hands over the kernel's   *)
(* queue in order, the overflow mark on its Errors channel.                *)
(***************************************************************************)
EXTENDS Naturals, Sequences

CONSTANTS
  MaxVersion,   \* bound: the last version of the file
  MaxQueue,     \* the kernel's limit on queued events
  MaxPending    \* bound: callbacks that have not read the file yet

ASSUME BoundAssumption == {MaxVersion, MaxQueue, MaxPending} \subseteq Nat \ {0}

VARIABLES
  content,   \* the file: [ver, state]
  queue,     \* inotify events that Run has not received
  run,       \* where Run is
  done,      \* ctx is cancelled
  timer,     \* 0: not armed; else which of two successive timers is
  pending,   \* callbacks started that have not read the file
  seen,      \* what the last LoadFile read
  missed     \* history: a change no event tells of

watchVars == <<content, queue, run, done, timer, pending, seen, missed>>

File(v, state)  == [ver |-> v, state |-> state]
Event(base, op) == [base |-> base, op |-> op]

Overflow == Event("", "overflow")
Events   == [base : {"file", "..data", "other"},
             op : {"create", "write", "remove", "rename", "chmod"}] \cup {Overflow}

WatchTypeOK ==
  /\ {content, seen} \subseteq [ver : 1..MaxVersion, state : {"whole", "torn", "gone"}]
  /\ queue \in Seq(Events) /\ Len(queue) <= MaxQueue + 1
  /\ run \in {"start", "watching", "failed", "returned"} /\ done \in BOOLEAN
  /\ timer \in 0..2 /\ pending \in 0..MaxPending /\ missed \in BOOLEAN

\* The policy was read at boot; main() has started the goroutine of Run.
WatchInit ==
  /\ content = File(1, "whole") /\ seen = content
  /\ queue = <<>> /\ run = "start" /\ done = FALSE
  /\ timer = 0 /\ pending = 0 /\ missed = FALSE

\* Slip: saves by rename are not recognised.
relevantWrites(ev) ==
  ev.base \in {"file", "..data"} /\ ev.op \in {"write", "rename", "chmod"}

\* Slip: only the file's own name counts.
relevantName(ev) ==
  ev.base = "file" /\ ev.op \in {"create", "write", "rename", "chmod"}

relevant(ev) ==
  ev.base \in {"file", "..data"} /\ ev.op \in {"create", "write", "rename", "chmod"}

\* A reload that will read the file is on its way.
Underway ==
  \/ \E i \in DOMAIN queue : relevant(queue[i])
  \/ timer # 0
  \/ pending > 0

-----------------------------------------------------------------------------
(* The directory and the kernel's queue.                                   *)

\* An event equal to the last one queued is merged with it; a full queue gets one
\* overflow mark, and what follows is dropped.
Enqueue(ev) ==
  queue' = IF queue # <<>> /\ queue[Len(queue)] = ev THEN queue
           ELSE IF Len(queue) < MaxQueue THEN Append(queue, ev)
           ELSE IF Len(queue) = MaxQueue THEN Append(queue, Overflow)
           ELSE queue

\* Something happens to an entry of the directory: content' is what it leaves.
Post(ev) ==
  /\ IF run = "watching" THEN Enqueue(ev) ELSE UNCHANGED queue
  /\ missed' = /\ ~\E i \in DOMAIN queue' : relevant(queue'[i])
               /\ missed \/ (relevant(ev) /\ content' # seen /\ ~Underway)
  /\ UNCHANGED <<run, done, timer, pending, seen>>

\* A write in place: the file is torn until it ends.
BeginWrite ==
  /\ content.state # "torn" /\ content.ver < MaxVersion
  /\ content' = File(content.ver + 1, "torn")
  /\ Post(Event("file", "write"))

EndWrite ==
  /\ content.state = "torn"
  /\ content' = File(content.ver, "whole")
  /\ Post(Event("file", "write"))

\* A new file is renamed over the old one, or kubelet flips the symlink.
Replace ==
  /\ content.state # "torn" /\ content.ver < MaxVersion
  /\ content' = File(content.ver + 1, "whole")
  /\ \E base \in {"file", "..data"} : Post(Event(base, "create"))

\* The file is deleted or moved away.
Vanish ==
  /\ content.state = "whole"
  /\ content' = File(content.ver, "gone")
  /\ \E op \in {"remove", "rename"} : Post(Event("file", op))

\* The content stays: attributes change, or another file of the directory does.
Touch ==
  /\ content.state # "gone" /\ UNCHANGED content
  /\ Post(Event("file", "chmod"))

Noise ==
  /\ UNCHANGED content
  /\ Post(Event("other", "write"))

-----------------------------------------------------------------------------
(* Run.                                                                    *)

Subscribe ==
  /\ run = "start"
  /\ run' \in {"watching", "failed"}
  /\ UNCHANGED <<content, queue, done, timer, pending, seen, missed>>

Receive(ev) ==
  /\ run = "watching" /\ queue # <<>> /\ Head(queue) = ev
  /\ queue' = Tail(queue)

\* fire() stops the timer, if it has not expired, and arms another.
Fire(ev) ==
  /\ Receive(ev) /\ relevant(ev)
  /\ timer' = IF timer = 1 THEN 2 ELSE 1
  /\ UNCHANGED <<content, run, done, pending, seen, missed>>

\* An event of no interest, or the overflow mark.
Ignore(ev) ==
  /\ Receive(ev) /\ ~relevant(ev)
  /\ UNCHANGED <<content, run, done, timer, pending, seen, missed>>

\* Slip: the timer is left armed.
DoneLeavesTimer ==
  /\ run = "watching" /\ done
  /\ run' = "returned"
  /\ UNCHANGED <<content, queue, done, timer, pending, seen, missed>>

Done ==
  /\ run = "watching" /\ done
  /\ run' = "returned" /\ timer' = 0
  /\ UNCHANGED <<content, queue, done, pending, seen, missed>>

Cancel ==
  /\ ~done /\ done' = TRUE
  /\ UNCHANGED <<content, queue, run, timer, pending, seen, missed>>

\* The debounce interval is over: the callback gets a goroutine.
TimerExpires(n) ==
  /\ timer = n /\ pending < MaxPending
  /\ timer' = 0 /\ pending' = pending + 1
  /\ UNCHANGED <<content, queue, run, done, seen, missed>>

\* A callback's LoadFile reads the file.
ReadFile ==
  /\ pending > 0
  /\ pending' = pending - 1 /\ seen' = content
  /\ missed' = FALSE
  /\ UNCHANGED <<content, queue, run, done, timer>>

Loop == \E ev \in Events : Fire(ev) \/ Ignore(ev)

WatchNext ==
  \/ BeginWrite \/ EndWrite \/ Replace \/ Vanish \/ Touch \/ Noise
  \/ Subscribe \/ Loop \/ Done \/ Cancel
  \/ \E n \in 1..2 : TimerExpires(n)
  \/ ReadFile

WatchSpec == WatchInit /\ [][WatchNext]_watchVars

\* The scheduler runs Run and the callbacks, a timer that is not replaced expires, and a
\* writer that began ends.  Nothing else is assumed of the directory.
WatchFairSpec ==
  /\ WatchSpec
  /\ WF_watchVars(EndWrite) /\ WF_watchVars(Subscribe) /\ WF_watchVars(Loop) /\ WF_watchVars(Done)
  /\ \A n \in 1..2 : WF_watchVars(TimerExpires(n))
  /\ WF_watchVars(ReadFile)

-----------------------------------------------------------------------------
\* No change is forgotten while Run watches, whichever way the file was changed and
\* however events are merged, dropped or debounced: unless no event tells of it (it came
\* before the watch, or the queue was full of events about other files), the last read
\* gave what the file holds, or a reload is on its way or the writer still owes an event.
Covered ==
  run = "watching" =>
    seen = content \/ Underway \/ missed \/ content.state \in {"torn", "gone"}

\* No callback starts after Run has returned.
NoLateCallback == [][run = "returned" => pending' <= pending]_watchVars

\* Relevant events do not come for ever: every timer is stopped before it expires if they
\* do, and no reload happens.
Settles == <>[][~\E ev \in Events : Fire(ev)]_watchVars

\* What the file holds is read, torn reads included in what is read again, once events
\* settle.
ChangeNoticed ==
  Settles =>
    \A v \in 1..MaxVersion :
      (run = "watching" /\ content = File(v, "whole"))
        ~> (seen = File(v, "whole") \/ content # File(v, "whole") \/ missed \/ run # "watching")
=============================================================================
