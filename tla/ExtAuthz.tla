------------------------------ MODULE ExtAuthz ------------------------------
(***************************************************************************)
(* The ext-authz check: httpserver's handle(), from the capture of the     *)
(* policy to the answer, with policy.Evaluate stepping through groups and  *)
(* rules, while SetPolicy replaces the server's policy.                    *)
(*                                                                         *)
(* Abstractions.  A body is its length.  A CEL expression is what          *)
(* evaluating it on the request and the facts snapshot gives: true, false  *)
(* or an error.  An expression, and the rule label of a decision, is the   *)
(* pair of the group's and the rule's position; position 0 stands for the  *)
(* group itself.  Deny bodies, reasons and the attributes of log records   *)
(* are left out.                                                           *)
(***************************************************************************)
EXTENDS PolicyShape, FiniteSetsExt

CONSTANTS
  Requests,   \* check requests
  Policies,   \* the policies New may be given
  Reloads,    \* those of them that SetPolicy installs later
  Nil,        \* the nil pointer
  MaxBody,    \* bound: the longest request body
  Half        \* 2^63 scaled down: int64 is -Half..Half-1

Outcomes == {"true", "false", "error"}

\* What LoadBytes lets through.
ASSUME PolicyAssumption ==
  /\ Nil \notin Policies /\ Reloads \subseteq Policies
  /\ \A q \in Policies : AuthzPolicy(q, Half)
ASSUME BoundAssumption == MaxBody \in Nat /\ Half \in Nat \ {0}

VARIABLES
  policy,    \* Server.policy
  pc,        \* where handle() is
  p,         \* the policy it captured
  len,       \* length of the request's body
  read,      \* how much of it handle() has read
  outcome,   \* what each expression of p gives on this request
  gi, ri,    \* the loops' positions in evalGroup
  d,         \* the Decision
  answer,    \* the HTTP answer and its diagnostic headers
  metric,    \* the keys metrics.record was called with
  logged     \* number of access-log records

progress == <<outcome, gi, ri, d>>
output   == <<answer, metric, logged>>
vars     == <<policy, pc, p, len, read, progress, output>>

NoAnswer   == [status |-> 0, result |-> "", rule |-> <<>>, dry |-> FALSE]
NoDecision == [allowed |-> FALSE, rule |-> <<>>, dryRun |-> FALSE]

\* The expressions Evaluate can consult.
Exprs(q) ==
  UNION {{<<g, i>> : i \in (IF q.groups[g].match THEN 0 ELSE 1)..Len(q.groups[g].rules)}
           : g \in {h \in DOMAIN q.groups : q.groups[h].engine = "extAuthz"}}

Labels == {<<>>, <<"<overflow>">>, <<"<read>">>, <<"<noconfig>">>} \cup (Nat \X Nat)

TypeOK ==
  /\ policy \in Policies \cup {Nil}
  /\ pc \in [Requests -> {"new", "read", "group", "rule", "enforce", "done", "aborted"}]
  /\ p \in [Requests -> Policies \cup {Nil}]
  /\ len \in [Requests -> 0..MaxBody] /\ read \in [Requests -> 0..MaxBody]
  /\ gi \in [Requests -> Nat] /\ ri \in [Requests -> Nat]
  /\ d \in [Requests -> [allowed : BOOLEAN, rule : Labels, dryRun : BOOLEAN]]
  /\ answer \in [Requests -> [status : Nat, result : {"", "allow", "deny"},
                              rule : Labels, dry : BOOLEAN]]
  /\ metric \in [Requests -> Seq([rule : Labels, outcome : {"allow", "deny", "error"},
                                  dry : BOOLEAN])]
  /\ logged \in [Requests -> Nat] /\ DOMAIN outcome = Requests
  /\ \A r \in Requests :
       /\ read[r] <= len[r]
       /\ pc[r] \in {"group", "rule", "enforce"} => outcome[r] \in [Exprs(p[r]) -> Outcomes]

\* New(initial); no request has arrived.
Init ==
  /\ policy \in Policies \cup {Nil}
  /\ pc = [r \in Requests |-> "new"] /\ p = [r \in Requests |-> Nil]
  /\ len \in [Requests -> 0..MaxBody] /\ read = [r \in Requests |-> 0]
  /\ outcome = [r \in Requests |-> <<>>]
  /\ gi = [r \in Requests |-> 0] /\ ri = [r \in Requests |-> 0]
  /\ d = [r \in Requests |-> NoDecision]
  /\ answer = [r \in Requests |-> NoAnswer]
  /\ metric = [r \in Requests |-> <<>>] /\ logged = [r \in Requests |-> 0]

\* A reload.
SetPolicy ==
  /\ \E q \in Reloads \ {policy} : policy' = q
  /\ UNCHANGED <<pc, p, len, read, progress, output>>

-----------------------------------------------------------------------------
(* handle(), up to the evaluation.                                         *)

Goto(r, label) == pc' = [pc EXCEPT ![r] = label]

\* What the client gets of WriteHeader(status) and the body written after it: net/http
\* panics (0) on a status that does not have three digits, and an informational one is
\* not final.
WriteHeader(status) ==
  IF status \notin 100..999 THEN 0 ELSE IF status \in 100..199 \ {101} THEN 200 ELSE status

\* A panic ends the goroutine and net/http drops the connection.
Answer(r, status, result, rule, dry) ==
  LET code == WriteHeader(status) IN
  /\ Goto(r, IF code = 0 THEN "aborted" ELSE "done")
  /\ answer' = IF code = 0 THEN answer
               ELSE [answer EXCEPT ![r] = [status |-> code, result |-> result,
                                           rule |-> rule, dry |-> dry]]

Record(r, rule, result, dry) ==
  metric' = [metric EXCEPT ![r] = Append(@, [rule |-> rule, outcome |-> result, dry |-> dry])]

\* The one access-log record, after the answer.
Log(r) == logged' = [logged EXCEPT ![r] = @ + (IF pc'[r] = "done" THEN 1 ELSE 0)]

Capture(r) ==
  /\ pc[r] = "new" /\ policy # Nil
  /\ p' = [p EXCEPT ![r] = policy]
  /\ Goto(r, "read")
  /\ UNCHANGED <<policy, len, read, progress, output>>

NoPolicy(r) ==
  /\ pc[r] = "new" /\ policy = Nil
  /\ Record(r, <<"<noconfig>">>, "error", FALSE)
  /\ Answer(r, 503, "", <<>>, FALSE)
  /\ UNCHANGED <<policy, p, len, read, progress, logged>>

Int64(x) == ((x + Half) % (2 * Half)) - Half

\* Slip: the reader is not given room for the byte that shows an overflow.
BufferedExact(r) ==
  LET n == p[r].limit IN IF n <= 0 THEN 0 ELSE Min({n, len[r]})

\* What io.ReadAll gets from a LimitReader of limit+1 bytes.
Buffered(r) ==
  LET n == Int64(p[r].limit + 1) IN IF n <= 0 THEN 0 ELSE Min({n, len[r]})

DenyStatus(r, dry) == IF dry THEN 200 ELSE p[r].denyStatus

\* Slip: the failure is enforced under dry-run too.
ReadFailsEnforced(r) ==
  /\ pc[r] = "read" /\ Int64(p[r].limit + 1) > 0
  /\ Record(r, <<"<read>">>, "error", p[r].dryRun)
  /\ Answer(r, p[r].denyStatus, "deny", <<>>, p[r].dryRun)
  /\ UNCHANGED <<policy, p, len, read, progress, logged>>

\* The connection fails under the read; a LimitReader with no room never reads.  A client
\* that only stalls makes nothing fail: the server has no ReadTimeout.
ReadFails(r) ==
  /\ pc[r] = "read" /\ Int64(p[r].limit + 1) > 0
  /\ Record(r, <<"<read>">>, "error", p[r].dryRun)
  /\ Answer(r, DenyStatus(r, p[r].dryRun), "deny", <<>>, p[r].dryRun)
  /\ UNCHANGED <<policy, p, len, read, progress, logged>>

\* Slip: counted as an allow under dry-run.
OverflowMiscounted(r) ==
  /\ pc[r] = "read" /\ Buffered(r) > p[r].limit /\ p[r].limit > 0
  /\ read' = [read EXCEPT ![r] = Buffered(r)]
  /\ Record(r, <<"<overflow>">>, IF p[r].dryRun THEN "allow" ELSE "deny", p[r].dryRun)
  /\ Answer(r, DenyStatus(r, p[r].dryRun), "deny", <<"<overflow>">>, p[r].dryRun)
  /\ Log(r)
  /\ UNCHANGED <<policy, p, len, progress>>

Overflow(r) ==
  /\ pc[r] = "read" /\ Buffered(r) > p[r].limit /\ p[r].limit > 0
  /\ read' = [read EXCEPT ![r] = Buffered(r)]
  /\ Record(r, <<"<overflow>">>, "deny", p[r].dryRun)
  /\ Answer(r, DenyStatus(r, p[r].dryRun), "deny", <<"<overflow>">>, p[r].dryRun)
  /\ Log(r)
  /\ UNCHANGED <<policy, p, len, progress>>

\* body[:limit] panics when the limit is negative.
SlicePanics(r) ==
  /\ pc[r] = "read" /\ Buffered(r) > p[r].limit /\ p[r].limit < 0
  /\ Goto(r, "aborted")
  /\ UNCHANGED <<policy, p, len, read, progress, output>>

\* The body fits: Evaluate builds its variables and takes the facts snapshot,
\* which fixes what every expression gives.
Evaluate(r) ==
  /\ pc[r] = "read" /\ Buffered(r) <= p[r].limit
  /\ read' = [read EXCEPT ![r] = Buffered(r)]
  /\ \E o \in [Exprs(p[r]) -> Outcomes] : outcome' = [outcome EXCEPT ![r] = o]
  /\ gi' = [gi EXCEPT ![r] = 1]
  /\ Goto(r, "group")
  /\ UNCHANGED <<policy, p, len, ri, d, output>>

-----------------------------------------------------------------------------
(* The loops of Evaluate and evalGroup.                                    *)

Group(r) == p[r].groups[gi[r]]
Rule(r)  == Group(r).rules[ri[r]]

AtGroup(r) == pc[r] = "group" /\ gi[r] <= Len(p[r].groups)
InGroup(r) == AtGroup(r) /\ Group(r).engine = "extAuthz"
AtRule(r)  == pc[r] = "rule" /\ ri[r] <= Len(Group(r).rules)

Decide(r, decision) ==
  /\ d' = [d EXCEPT ![r] = decision]
  /\ Goto(r, "enforce")
  /\ UNCHANGED <<policy, p, len, read, outcome, gi, ri, output>>

Decision(allowed, rule, dry) == [allowed |-> allowed, rule |-> rule, dryRun |-> dry]

errorDecision(q, rule, dry) == Decision(q.allowOnError, rule, dry)

NextGroup(r) ==
  /\ gi' = [gi EXCEPT ![r] = @ + 1]
  /\ Goto(r, "group")
  /\ UNCHANGED <<policy, p, len, read, outcome, ri, d, output>>

NoGroupDecides(r) ==
  /\ pc[r] = "group" /\ gi[r] > Len(p[r].groups)
  /\ Decide(r, Decision(p[r].action = "allow", <<0, 0>>, FALSE))

OtherEngine(r) ==
  /\ AtGroup(r) /\ Group(r).engine # "extAuthz"
  /\ NextGroup(r)

\* Slip: an error counts as no match.
GroupErrorSkips(r) ==
  /\ InGroup(r) /\ Group(r).match /\ outcome[r][<<gi[r], 0>>] = "error"
  /\ NextGroup(r)

GroupError(r) ==
  /\ InGroup(r) /\ Group(r).match /\ outcome[r][<<gi[r], 0>>] = "error"
  /\ Decide(r, errorDecision(p[r], <<gi[r], 0>>, FALSE))

GroupFiltered(r) ==
  /\ InGroup(r) /\ Group(r).match /\ outcome[r][<<gi[r], 0>>] = "false"
  /\ NextGroup(r)

EnterGroup(r) ==
  /\ InGroup(r)
  /\ Group(r).match => outcome[r][<<gi[r], 0>>] = "true"
  /\ ri' = [ri EXCEPT ![r] = 1]
  /\ Goto(r, "rule")
  /\ UNCHANGED <<policy, p, len, read, outcome, gi, d, output>>

RuleError(r) ==
  /\ AtRule(r) /\ outcome[r][<<gi[r], ri[r]>>] = "error"
  /\ Decide(r, errorDecision(p[r], <<gi[r], ri[r]>>, Rule(r).dryRun))

RuleFails(r) ==
  /\ AtRule(r) /\ Group(r).mode = "matchAll" /\ outcome[r][<<gi[r], ri[r]>>] = "false"
  /\ Decide(r, Decision(FALSE, <<gi[r], ri[r]>>, Rule(r).dryRun))

RuleMatches(r) ==
  /\ AtRule(r) /\ Group(r).mode # "matchAll" /\ outcome[r][<<gi[r], ri[r]>>] = "true"
  /\ Decide(r, Decision(Rule(r).action = "allow", <<gi[r], ri[r]>>, Rule(r).dryRun))

\* Slip: the loop does not advance.
NextRuleStuck(r) ==
  /\ AtRule(r)
  /\ outcome[r][<<gi[r], ri[r]>>] = IF Group(r).mode = "matchAll" THEN "true" ELSE "false"
  /\ UNCHANGED vars

NextRule(r) ==
  /\ AtRule(r)
  /\ outcome[r][<<gi[r], ri[r]>>] = IF Group(r).mode = "matchAll" THEN "true" ELSE "false"
  /\ ri' = [ri EXCEPT ![r] = @ + 1]
  /\ UNCHANGED <<policy, pc, p, len, read, outcome, gi, d, output>>

AllRulesHeld(r) ==
  /\ pc[r] = "rule" /\ ri[r] > Len(Group(r).rules) /\ Group(r).mode = "matchAll"
  /\ Decide(r, Decision(TRUE, <<gi[r], 0>>, FALSE))

NoRuleMatched(r) ==
  /\ pc[r] = "rule" /\ ri[r] > Len(Group(r).rules) /\ Group(r).mode # "matchAll"
  /\ NextGroup(r)

-----------------------------------------------------------------------------
verdictLabel(allowed) == IF allowed THEN "allow" ELSE "deny"

\* Slip: the deny status is read from the server's policy.
EnforceReloaded(r) ==
  LET dry == p[r].dryRun \/ d[r].dryRun IN
  /\ pc[r] = "enforce"
  /\ Answer(r, IF d[r].allowed \/ dry THEN 200 ELSE policy.denyStatus,
            verdictLabel(d[r].allowed), d[r].rule, dry)
  /\ Record(r, d[r].rule, verdictLabel(d[r].allowed), dry)
  /\ Log(r)
  /\ UNCHANGED <<policy, p, len, read, progress>>

\* Headers, metric, status, access log.
Enforce(r) ==
  LET effectiveDry == p[r].dryRun \/ d[r].dryRun IN
  /\ pc[r] = "enforce"
  /\ Answer(r, IF d[r].allowed \/ effectiveDry THEN 200 ELSE p[r].denyStatus,
            verdictLabel(d[r].allowed), d[r].rule, effectiveDry)
  /\ Record(r, d[r].rule, verdictLabel(d[r].allowed), effectiveDry)
  /\ Log(r)
  /\ UNCHANGED <<policy, p, len, read, progress>>

evalGroup(r) ==
  \/ OtherEngine(r) \/ GroupError(r) \/ GroupFiltered(r) \/ EnterGroup(r)
  \/ RuleError(r) \/ RuleFails(r) \/ RuleMatches(r) \/ NextRule(r)
  \/ AllRulesHeld(r) \/ NoRuleMatched(r) \/ NoGroupDecides(r)

handle(r) ==
  \/ Capture(r) \/ NoPolicy(r) \/ ReadFails(r) \/ Overflow(r) \/ SlicePanics(r)
  \/ Evaluate(r) \/ evalGroup(r) \/ Enforce(r)

Next == SetPolicy \/ \E r \in Requests : handle(r)

Spec == Init /\ [][Next]_vars

\* A step of handle() that waits for nobody: io.ReadAll waits for the client.
Runs(r) == pc[r] # "read" /\ handle(r)

\* net/http runs every handler.  Nothing is assumed of the client: a body that stalls
\* keeps handle() in io.ReadAll for ever.
FairSpec == Spec /\ \A r \in Requests : WF_vars(Runs(r))
-----------------------------------------------------------------------------
(* What README.md says of the decision, without loops.                     *)

\* The rules of group g that end its loop.
Ending(q, o, g) ==
  {i \in DOMAIN q.groups[g].rules :
     o[<<g, i>>] # IF q.groups[g].mode = "matchAll" THEN "true" ELSE "false"}

MatchOf(q, o, g) == IF q.groups[g].match THEN o[<<g, 0>>] ELSE "true"

\* The groups that produce a verdict.
Deciding(q, o) ==
  {g \in DOMAIN q.groups :
     /\ q.groups[g].engine = "extAuthz"
     /\ \/ MatchOf(q, o, g) = "error"
        \/ /\ MatchOf(q, o, g) = "true"
           /\ q.groups[g].mode = "matchAll" \/ Ending(q, o, g) # {}}

GroupVerdict(q, o, g) ==
  LET rules == q.groups[g].rules
      i     == Min(Ending(q, o, g))
  IN  IF MatchOf(q, o, g) = "error" THEN Decision(q.allowOnError, <<g, 0>>, FALSE)
      ELSE IF Ending(q, o, g) = {}  THEN Decision(TRUE, <<g, 0>>, FALSE)
      ELSE IF o[<<g, i>>] = "error" THEN Decision(q.allowOnError, <<g, i>>, rules[i].dryRun)
      ELSE Decision(o[<<g, i>>] = "true" /\ rules[i].action = "allow", <<g, i>>, rules[i].dryRun)

\* The first group that produces a verdict wins, else the default.
Verdict(q, o) ==
  IF Deciding(q, o) = {} THEN Decision(q.action = "allow", <<0, 0>>, FALSE)
  ELSE GroupVerdict(q, o, Min(Deciding(q, o)))

Evaluated(r) == d[r] # NoDecision
Done(r)      == pc[r] = "done" /\ p[r] # Nil

-----------------------------------------------------------------------------
(* Properties.                                                             *)

\* Evaluate and evalGroup compute the verdict of the first group that produces one,
\* labelled with the expression that decided and with its dry-run flag: no group is
\* entered twice or skipped, and an error ends the evaluation where it happens.
DecisionIsVerdict ==
  \A r \in Requests : Evaluated(r) => d[r] = Verdict(p[r], outcome[r])

\* handle() blocks nothing in shadow mode, on any of its exits: read failure,
\* overflow, evaluation error, deny by rule or by default; nor does a shadowed rule.
DryRunNeverBlocks ==
  \A r \in Requests :
    Done(r) /\ (p[r].dryRun \/ d[r].dryRun) => answer[r].status = 200 /\ answer[r].dry

\* The deny statuses that reach the client as they are.
Final(status) == WriteHeader(status) = status

\* A request admitted by handle() outside shadow mode was inspected in full: the rules
\* saw its whole body, and the verdict for what they saw is to allow.  It needs a limit
\* with a successor in int64, and a final deny status that does not itself admit;
\* LoadBytes asks for neither.
AdmittedInspected ==
  \A r \in Requests :
    Done(r) /\ answer[r].status = 200 /\ ~answer[r].dry
    /\ p[r].limit < Half - 1 /\ Final(p[r].denyStatus) /\ p[r].denyStatus # 200 =>
      read[r] = len[r] /\ Verdict(p[r], outcome[r]).allowed

\* A denied request gets the deny status of the policy that denied it, although
\* SetPolicy replaces the server's policy between any two steps of handle().
DeniedByOnePolicy ==
  \A r \in Requests :
    Done(r) /\ answer[r].result = "deny" /\ Final(p[r].denyStatus) =>
      answer[r].status = IF answer[r].dry THEN 200 ELSE p[r].denyStatus

\* handle() counts a request exactly once, on every exit, under the rule and the
\* dry-run flag it answers with; what is not an allow is never counted as one.  A request
\* that is denied or allowed by its body or by a rule has exactly one access-log record,
\* and none has two; whether one that could not be evaluated has one is not stated.
CountedOnce ==
  \A r \in Requests :
    pc[r] = "done" =>
      /\ Len(metric[r]) = 1
      /\ LET k == metric[r][1] IN
           /\ k.dry = answer[r].dry
           /\ k.outcome # "error" => k.rule = answer[r].rule /\ k.outcome = answer[r].result
           /\ k.outcome = "error" => ~Evaluated(r)
           /\ logged[r] <= 1 /\ (k.outcome # "error" => logged[r] = 1)

\* Every request whose body does not stall is answered, under a positive limit and a deny
\* status of three digits: the loops of Evaluate end, on every path, and no exit of
\* handle() is left without an answer, however often SetPolicy comes between.
EveryRequestAnswered ==
  \A r \in Requests :
    ~<>[](pc[r] = "read") =>
      (pc[r] = "read" /\ p[r].limit > 0 /\ WriteHeader(p[r].denyStatus) # 0 ~> pc[r] = "done")
=============================================================================
