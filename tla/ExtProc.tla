------------------------------ MODULE ExtProc ------------------------------
(***************************************************************************)
(* One ext_proc stream: the loop of grpcserver's Process() with            *)
(* policy.EvaluateProc and handleProcResult, while SetPolicy replaces the  *)
(* policy between any two messages.                                        *)
(*                                                                         *)
(* Abstractions.  A body is its length, a value is a number (a setBody     *)
(* value is the new body's length).  holds are the expressions that give   *)
(* true, or a value, on this message: EvaluateProc and resolveMutations    *)
(* treat an error like false.  <<g, 0, 0>>, <<g, i, 0>> and <<g, i, m>>    *)
(* are the expressions of group g, of its rule i and of that rule's        *)
(* mutation m.  Logs are left out.                                         *)
(***************************************************************************)
EXTENDS PolicyShape, Loops

CONSTANTS
  Policies,   \* the policies New may be given
  Reloads,    \* those of them that SetPolicy installs later
  Nil,        \* the nil pointer
  MaxBody     \* bound: the length of a body

\* The messages of a stream: those of the request and those of the response, each in
\* the order Envoy sends the ones it is configured to send.
Kinds == <<"requestHeaders", "requestBody", "requestTrailers",
           "responseHeaders", "responseBody", "responseTrailers">>

\* What LoadBytes lets through.
ASSUME PolicyAssumption ==
  /\ Nil \notin Policies /\ Reloads \subseteq Policies
  /\ \A q \in Policies : ProcPolicy(q)
ASSUME BoundAssumption == MaxBody \in Nat

VARIABLES
  policy,   \* Server.policy
  open,     \* Process has not returned
  msgs,     \* positions in Kinds of the messages received
  last,     \* the position of the last one, 0 before the first
  req,      \* Process's req is set
  resp,     \* Process's resp is set
  body,     \* body[k]: the bytes collected in a body phase
  sent,     \* history, sent[k]: the bytes Envoy sent of it to a server with a policy
  used,     \* the policy loaded for the last message
  holds,    \* the expressions that held on it
  reply     \* what was sent back

stream == <<open, msgs, last, req, resp, body, sent>>
vars   == <<policy, stream, used, holds, reply>>

NoMutation == [set |-> <<>>, remove |-> <<>>, body |-> <<>>]
Continue(kind, mutation) ==
  [type |-> "continue", kind |-> kind, status |-> 0, mutation |-> mutation]
Immediate(status) ==
  [type |-> "immediate", kind |-> "", status |-> status, mutation |-> NoMutation]

TypeOK ==
  /\ {policy, used} \subseteq Policies \cup {Nil}
  /\ {open, req, resp} \subseteq BOOLEAN
  /\ last \in 0..Len(Kinds) /\ msgs \subseteq DOMAIN Kinds
  /\ body \in [Bodies -> 0..MaxBody] /\ sent \in [Bodies -> 0..MaxBody]
  /\ reply.type \in {"none", "continue", "immediate"}
  /\ reply.kind \in Range(Kinds) \cup {""} /\ reply.status \in Nat

Init ==
  /\ policy \in Policies \cup {Nil}
  /\ open = TRUE /\ msgs = {} /\ last = 0 /\ req = FALSE /\ resp = FALSE
  /\ body = [k \in Bodies |-> 0] /\ sent = [k \in Bodies |-> 0]
  /\ used = Nil /\ holds = {}
  /\ reply = [type |-> "none", kind |-> "", status |-> 0, mutation |-> NoMutation]

SetPolicy ==
  /\ \E q \in Reloads \ {policy} : policy' = q
  /\ UNCHANGED <<stream, used, holds, reply>>

-----------------------------------------------------------------------------
(* policy.EvaluateProc.                                                    *)

Exprs(q, phase) ==
  LET groups == {g \in DOMAIN q.groups : q.groups[g].engine = "extProc"
                                         /\ q.groups[g].phase = phase}
      rules  == UNION {{<<g, i, 0>> : i \in DOMAIN q.groups[g].rules} : g \in groups}
      ops(r) == q.groups[r[1]].rules[r[2]].mutations
  IN  {<<g, 0, 0>> : g \in {h \in groups : q.groups[h].match}} \cup rules
      \cup UNION {{<<r[1], r[2], m>> : m \in {n \in DOMAIN ops(r) : ops(r)[n].op # "removeHeader"}}
                    : r \in rules}

Resolved(r, g, i, m) ==
  [op |-> r.mutations[m].op, name |-> r.mutations[m].name, value |-> r.mutations[m].value,
   rule |-> <<g, i>>, dryRun |-> r.dryRun]

\* A mutation whose expression fails is skipped; removeHeader has none.
resolveMutations(r, h, g, i) ==
  Flatten([m \in 1..Len(r.mutations) |->
    When(r.mutations[m].op = "removeHeader" \/ <<g, i, m>> \in h, <<Resolved(r, g, i, m)>>)])

\* The first matching rule, also one with no mutations, or all of them.
Chosen(grp, h, g) ==
  LET matched == {i \in DOMAIN grp.rules : <<g, i, 0>> \in h}
  IN  IF grp.mode = "firstMatch" THEN {i \in matched : \A j \in matched : i <= j} ELSE matched

\* Slip: firstMatch goes on after its match.
GroupMutationsAll(grp, h, g) ==
  Flatten([i \in 1..Len(grp.rules) |->
    When(<<g, i, 0>> \in h, resolveMutations(grp.rules[i], h, g, i))])

GroupMutations(grp, h, g) ==
  Flatten([i \in 1..Len(grp.rules) |->
    When(i \in Chosen(grp, h, g), resolveMutations(grp.rules[i], h, g, i))])

Runs(grp, phase, h, g) ==
  /\ grp.engine = "extProc" /\ grp.phase = phase
  /\ grp.match => <<g, 0, 0>> \in h

EvaluateProc(q, phase, h) ==
  Flatten([g \in 1..Len(q.groups) |->
    When(Runs(q.groups[g], phase, h, g), GroupMutations(q.groups[g], h, g))])

-----------------------------------------------------------------------------
(* handleProcResult.                                                       *)

HeaderOption(m) ==
  CASE m.op = "setHeader"    -> <<[key |-> m.name, value |-> m.value, append |-> FALSE]>>
    [] m.op = "appendHeader" -> <<[key |-> m.name, value |-> m.value, append |-> TRUE]>>
    [] m.op = "setBody"      -> <<[key |-> "content-length", value |-> m.value, append |-> FALSE]>>
    [] m.op = "setStatus"    -> <<[key |-> ":status", value |-> m.value, append |-> FALSE]>>
    [] OTHER                 -> <<>>

setHeaders(ms)    == Flatten([n \in 1..Len(ms) |-> HeaderOption(ms[n])])
removeHeaders(ms) == Flatten([n \in 1..Len(ms) |-> When(ms[n].op = "removeHeader", <<ms[n].name>>)])
bodies(ms)        == Flatten([n \in 1..Len(ms) |-> When(ms[n].op = "setBody", <<ms[n].value>>)])

\* Slip: the overwrites are put before the appends.
buildMutationsGrouped(ms) ==
  [set    |-> SelectSeq(setHeaders(ms), LAMBDA o : ~o.append)
              \o SelectSeq(setHeaders(ms), LAMBDA o : o.append),
   remove |-> removeHeaders(ms),
   body   |-> When(bodies(ms) # <<>>, <<bodies(ms)[Len(bodies(ms))]>>)]

\* Slip: the first setBody is kept.
buildMutationsFirst(ms) ==
  [set |-> setHeaders(ms), remove |-> removeHeaders(ms),
   body |-> When(bodies(ms) # <<>>, <<bodies(ms)[1]>>)]

\* Every setBody replaces the one before.
buildMutations(ms) ==
  [set |-> setHeaders(ms), remove |-> removeHeaders(ms),
   body |-> When(bodies(ms) # <<>>, <<bodies(ms)[Len(bodies(ms))]>>)]

Dry(q, m) == q.dryRun \/ m.dryRun

\* The directResponses that are not shadowed, and the other mutations that are not.
Direct(q, res) ==
  Flatten([n \in 1..Len(res) |-> When(res[n].op = "directResponse" /\ ~Dry(q, res[n]), <<res[n]>>)])
Applied(q, res) ==
  Flatten([n \in 1..Len(res) |-> When(res[n].op # "directResponse" /\ ~Dry(q, res[n]), <<res[n]>>)])

\* Slip: only the rule's own flag is looked at.
handleProcResultRule(q, phase, res) ==
  LET direct == Direct([q EXCEPT !.dryRun = FALSE], res)
  IN  IF direct # <<>> THEN Immediate(direct[1].value)
      ELSE Continue(phase, buildMutations(Applied(q, res)))

handleProcResult(q, phase, res) ==
  LET direct == Direct(q, res)
  IN  IF direct # <<>> THEN Immediate(direct[1].value)
      ELSE Continue(phase, buildMutations(Applied(q, res)))

-----------------------------------------------------------------------------
(* The loop of Process.                                                    *)

\* Envoy sends message k next: it keeps the order of the request's messages and that of
\* the response's, which may start before the request ended, repeats only body chunks,
\* and ends the stream after an immediate response.
Sends(k) ==
  /\ open /\ reply.type # "immediate"
  /\ \A j \in msgs : (j <= 3 <=> k <= 3) => j < k \/ (j = k /\ Kinds[k] \in Bodies)
  /\ msgs' = msgs \cup {k} /\ last' = k

Evaluated(phase) ==
  /\ used' = policy
  /\ \E h \in SUBSET Exprs(policy, phase) :
       /\ holds' = h
       /\ reply' = handleProcResult(policy, phase, EvaluateProc(policy, phase, h))

NotEvaluated(answer) ==
  /\ used' = policy /\ holds' = {}
  /\ reply' = answer

RequestHeaders ==
  /\ policy # Nil /\ Sends(1)
  /\ req' = TRUE /\ body' = [body EXCEPT !["requestBody"] = 0]
  /\ Evaluated("requestHeaders")
  /\ UNCHANGED <<policy, open, resp, sent>>

ResponseHeaders ==
  /\ policy # Nil /\ Sends(4)
  /\ req' = TRUE /\ resp' = TRUE /\ body' = [body EXCEPT !["responseBody"] = 0]
  /\ Evaluated("responseHeaders")
  /\ UNCHANGED <<policy, open, sent>>

\* Slip: the response is only created by its headers.
CollectNoResponse(k, n) ==
  /\ policy # Nil /\ Sends(k)
  /\ sent[Kinds[k]] + n <= MaxBody
  /\ sent' = [sent EXCEPT ![Kinds[k]] = @ + n]
  /\ body' = [body EXCEPT ![Kinds[k]] = @ + n]
  /\ req' = TRUE /\ UNCHANGED resp

\* A chunk of n bytes is appended to what the phase has collected.
Collect(k, n) ==
  /\ policy # Nil /\ Sends(k)
  /\ sent[Kinds[k]] + n <= MaxBody
  /\ sent' = [sent EXCEPT ![Kinds[k]] = @ + n]
  /\ body' = [body EXCEPT ![Kinds[k]] = @ + n]
  /\ req' = TRUE /\ resp' = (resp \/ Kinds[k] = "responseBody")

BodyFits(k, n) ==
  /\ Collect(k, n)
  /\ body'[Kinds[k]] <= policy.limit
  /\ Evaluated(Kinds[k])
  /\ UNCHANGED <<policy, open>>

\* Slip: the oversized buffer is dropped.
BodyOverflowsDropping(k, n) ==
  /\ policy # Nil /\ Sends(k)
  /\ sent[Kinds[k]] + n <= MaxBody /\ body[Kinds[k]] + n > policy.limit
  /\ sent' = [sent EXCEPT ![Kinds[k]] = @ + n]
  /\ body' = [body EXCEPT ![Kinds[k]] = 0]
  /\ req' = TRUE /\ resp' = (resp \/ Kinds[k] = "responseBody")
  /\ NotEvaluated(IF policy.onBodyOverflow = "fail" /\ ~policy.dryRun THEN Immediate(500)
                  ELSE Continue(Kinds[k], NoMutation))
  /\ UNCHANGED <<policy, open>>

BodyOverflows(k, n) ==
  /\ Collect(k, n)
  /\ body'[Kinds[k]] > policy.limit
  /\ NotEvaluated(IF policy.onBodyOverflow = "fail" /\ ~policy.dryRun THEN Immediate(500)
                  ELSE Continue(Kinds[k], NoMutation))
  /\ UNCHANGED <<policy, open>>

\* buildContinueResponse: the kinds it does not know get a requestHeaders reply.
buildContinueResponse(kind) ==
  Continue(IF kind \in Phases THEN kind ELSE "requestHeaders", NoMutation)

Trailers(k) ==
  /\ policy # Nil /\ Kinds[k] \notin Phases /\ Sends(k)
  /\ NotEvaluated(buildContinueResponse(Kinds[k]))
  /\ UNCHANGED <<policy, open, req, resp, body, sent>>

NoPolicy(k) ==
  /\ policy = Nil /\ Sends(k)
  /\ NotEvaluated(buildContinueResponse(Kinds[k]))
  /\ UNCHANGED <<policy, open, req, resp, body, sent>>

\* EOF, or Recv or Send fails.
Close ==
  /\ open
  /\ open' = FALSE
  /\ UNCHANGED <<policy, msgs, last, req, resp, body, sent, used, holds, reply>>

RequestBody  == \E n \in 0..MaxBody : BodyFits(2, n) \/ BodyOverflows(2, n)
ResponseBody == \E n \in 0..MaxBody : BodyFits(5, n) \/ BodyOverflows(5, n)

Process ==
  \/ RequestHeaders \/ RequestBody \/ ResponseHeaders \/ ResponseBody
  \/ \E k \in DOMAIN Kinds : Trailers(k) \/ NoPolicy(k)
  \/ Close

Next == SetPolicy \/ Process

Spec == Init /\ [][Next]_vars

-----------------------------------------------------------------------------
Phase == Kinds[last]

\* The policy ran on the last message.
Ran == /\ used # Nil /\ last > 0 /\ Phase \in Phases
       /\ Phase \in Bodies => body[Phase] <= used.limit

\* The policy without the mutations of the rules in shadow mode, all of them under global
\* dry-run.
StripRule(q, r) ==
  [dryRun |-> r.dryRun, mutations |-> IF q.dryRun \/ r.dryRun THEN <<>> ELSE r.mutations]
StripGroup(q, grp) ==
  [engine |-> grp.engine, phase |-> grp.phase, mode |-> grp.mode, match |-> grp.match,
   rules |-> [i \in DOMAIN grp.rules |-> StripRule(q, grp.rules[i])]]
Stripped(q) ==
  [dryRun |-> FALSE, groups |-> [g \in DOMAIN q.groups |-> StripGroup(q, q.groups[g])]]

\* Shadow mode touches nothing: the reply is the one of the enforcing policy without the
\* mutations of the shadowed rules; and no overflow blocks a stream under global dry-run.
ShadowInert ==
  used # Nil /\ last > 0 =>
    /\ Ran => LET q == Stripped(used) IN
              reply = handleProcResult(q, Phase, EvaluateProc(q, Phase, holds))
    /\ used.dryRun => reply.type = "continue" /\ reply.mutation = NoMutation

\* The rules whose directResponse is due: <<g, i, 0>>.
Due ==
  {x \in holds :
     /\ x[2] # 0 /\ x[3] = 0
     /\ LET grp == used.groups[x[1]] IN
          /\ grp.match => <<x[1], 0, 0>> \in holds
          /\ grp.mode = "firstMatch" => \A j \in 1..x[2] - 1 : <<x[1], j, 0>> \notin holds
          /\ ~used.dryRun /\ ~grp.rules[x[2]].dryRun
          /\ \E m \in DOMAIN grp.rules[x[2]].mutations :
               grp.rules[x[2]].mutations[m].op = "directResponse" /\ <<x[1], x[2], m>> \in holds}

Before(x, y) == x[1] < y[1] \/ (x[1] = y[1] /\ x[2] <= y[2])

\* A directResponse is served if and only if one is due, across groups and modes, and
\* it is the first in declaration order.
FirstDirectWins ==
  Ran => /\ reply.type = "immediate" <=> Due # {}
         /\ Due # {} =>
              LET x == CHOOSE y \in Due : \A z \in Due : Before(y, z)
              IN  reply.status = used.groups[x[1]].rules[x[2]].mutations[1].value

\* The last message had no policy, or has brought its body past maxBodyBytes.
Uninspected ==
  /\ last > 0 /\ Phase \in Phases
  /\ used = Nil \/ (Phase \in Bodies /\ sent[Phase] > used.limit)

\* What is not inspected is not touched, however a body is cut into chunks and whichever
\* limits reloads bring: the reply is of the kind of the message and has no mutation, and
\* blocks if and only if onBodyOverflow is fail and the policy enforces.
UninspectedUntouched ==
  Uninspected =>
    reply = IF used # Nil /\ used.onBodyOverflow = "fail" /\ ~used.dryRun THEN Immediate(500)
            ELSE Continue(Phase, NoMutation)

\* The mutations the reply stands for.
Enforced == Applied(used, EvaluateProc(used, Phase, holds))

\* What an operation does to the values of header n, if anything: it keeps or drops them
\* and adds some.  First the operations of a policy, then the settings of a reply.
Edit(keep, add) == <<[keep |-> keep, add |-> add]>>
Performs(n, m) ==
  CASE m.op = "removeHeader" /\ m.name = n            -> Edit(FALSE, <<>>)
    [] m.op = "setHeader" /\ m.name = n               -> Edit(FALSE, <<m.value>>)
    [] m.op = "appendHeader" /\ m.name = n            -> Edit(TRUE, <<m.value>>)
    [] m.op = "setBody" /\ n = "content-length"       -> Edit(FALSE, <<m.value>>)
    [] m.op = "setStatus" /\ n = ":status"            -> Edit(FALSE, <<m.value>>)
    [] OTHER                                          -> <<>>
Sets(n, o) == When(o.key = n, Edit(o.append, <<o.value>>))

\* The values v after an edit, and after a sequence of them.
EditBy(v, e) == When(e.keep, v) \o e.add
Edited(v, es) ==
  LET at[k \in 0..Len(es)] == IF k = 0 THEN v ELSE EditBy(at[k - 1], es[k])
  IN  at[Len(es)]

\* Every header starts with one value, 0.  Envoy first performs all removals, then the
\* settings in order.
WantedEdits(n, ms) == Flatten([k \in 1..Len(ms) |-> Performs(n, ms[k])])
SetEdits(n, set)   == Flatten([k \in 1..Len(set) |-> Sets(n, set[k])])
Wanted(n, ms) == Edited(<<0>>, WantedEdits(n, ms))
EnvoyMakes(n, mutation) ==
  Edited(When(n \notin Range(mutation.remove), <<0>>), SetEdits(n, mutation.set))

\* A rule removes the header after another wrote it.
RemovedLate(n, ms) ==
  \E k \in DOMAIN ms : /\ ms[k].op = "removeHeader" /\ ms[k].name = n
                       /\ \E i \in 1..k - 1 : ms[i].op # "removeHeader" /\ Performs(n, ms[i]) # <<>>

Headers == {m.name : m \in Range(Enforced)} \cup {"content-length", ":status"}

\* What the reply makes of the headers is what performing the mutations of the
\* matching rules in declaration order makes of them, the last write wins: except for a
\* removal after a write, which Envoy performs first.
LastWriteWins ==
  Ran /\ reply.type = "continue" =>
    \A n \in Headers :
      ~RemovedLate(n, Enforced) => EnvoyMakes(n, reply.mutation) = Wanted(n, Enforced)

\* EvaluateProc never runs without the variables that expressions of the phase are
\* compiled against, whichever messages Envoy is configured to leave out.
VariablesSet == Ran => req /\ (Phase \in ResponsePhases => resp)

\* A rule sets the content-length itself, and no later one the body.
OwnLength(ms) ==
  \E k \in DOMAIN ms : /\ ms[k].op \in {"setHeader", "appendHeader"} /\ ms[k].name = "content-length"
                       /\ \A j \in k + 1..Len(ms) : ms[j].op # "setBody"

\* A replaced body travels with its own length, also when several rules replace it and
\* only the last counts, unless a later rule sets the header itself.
ContentLengthFits ==
  Ran /\ reply.mutation.body # <<>> /\ ~OwnLength(Enforced) =>
    EnvoyMakes("content-length", reply.mutation) = reply.mutation.body
=============================================================================
