--------------------------- MODULE ExtAuthzProofs ---------------------------
(* Proofs about ExtAuthz, for any number of requests and groups and any     *)
(* policies that LoadBytes lets through.                                    *)
EXTENDS ExtAuthz, TLAPS

\* The loops of Evaluate and evalGroup: no group, and no rule of the group they are in,
\* that they have passed decides.
Position(r) ==
  /\ pc[r] \in {"group", "rule"} =>
       /\ gi[r] \in 1..Len(p[r].groups) + 1
       /\ \A g \in Deciding(p[r], outcome[r]) : g >= gi[r]
  /\ pc[r] = "rule" =>
       /\ gi[r] \in DOMAIN p[r].groups /\ Group(r).engine = "extAuthz"
       /\ MatchOf(p[r], outcome[r], gi[r]) = "true"
       /\ ri[r] \in 1..Len(Group(r).rules) + 1
       /\ \A i \in Ending(p[r], outcome[r], gi[r]) : i >= ri[r]

\* The body the rules see is whole, unless limit+1 wraps.
Whole(r) == p[r].limit < Half - 1 => read[r] = len[r]

\* What handle() has done where it is.
Stage(r) ==
  /\ pc[r] \in {"read", "group", "rule", "enforce"} => p[r] \in Policies
  /\ pc[r] \in {"new", "read", "group", "rule"} => d[r] = NoDecision
  /\ pc[r] = "new" => p[r] = Nil
  /\ pc[r] \notin {"done", "aborted"} => metric[r] = <<>> /\ logged[r] = 0
  /\ pc[r] \in {"group", "rule", "enforce"} => Whole(r)
  /\ pc[r] = "enforce" => Evaluated(r)

\* An exit of handle(): the answer, the one count and the log record.
Exit(r, status, result, rule, dry, counted, outcomeCounted, logs) ==
  /\ answer[r] = [status |-> WriteHeader(status), result |-> result, rule |-> rule, dry |-> dry]
  /\ metric[r] = <<[rule |-> counted, outcome |-> outcomeCounted, dry |-> dry]>>
  /\ logged[r] = logs

ExitNoPolicy(r) ==
  /\ p[r] = Nil /\ d[r] = NoDecision
  /\ Exit(r, 503, "", <<>>, FALSE, <<"<noconfig>">>, "error", 0)

ExitRead(r) ==
  /\ p[r] \in Policies /\ d[r] = NoDecision
  /\ Exit(r, DenyStatus(r, p[r].dryRun), "deny", <<>>, p[r].dryRun, <<"<read>">>, "error", 0)

ExitOverflow(r) ==
  /\ p[r] \in Policies /\ d[r] = NoDecision
  /\ Exit(r, DenyStatus(r, p[r].dryRun), "deny", <<"<overflow>">>, p[r].dryRun,
          <<"<overflow>">>, "deny", 1)

ExitEnforced(r) ==
  LET dry == p[r].dryRun \/ d[r].dryRun IN
  /\ p[r] \in Policies /\ Evaluated(r) /\ Whole(r)
  /\ Exit(r, IF d[r].allowed \/ dry THEN 200 ELSE p[r].denyStatus, verdictLabel(d[r].allowed),
          d[r].rule, dry, d[r].rule, verdictLabel(d[r].allowed), 1)

Exited(r) ==
  pc[r] = "done" => ExitNoPolicy(r) \/ ExitRead(r) \/ ExitOverflow(r) \/ ExitEnforced(r)

Decided(r) == Evaluated(r) => d[r] = Verdict(p[r], outcome[r])

Good(r) == Position(r) /\ Stage(r) /\ Exited(r) /\ Decided(r)

\* The inductive invariant of handle().
IInv == TypeOK /\ \A r \in Requests : Good(r)

-----------------------------------------------------------------------------
(* Lemmas on the operators.                                                *)

\* A client gets a status, or 0 when WriteHeader panics.
LEMMA WriteHeaderNat ==
  ASSUME NEW status \in Int
  PROVE  WriteHeader(status) \in Nat
BY DEF WriteHeader

\* The first metric of a request.
LEMMA AppendFirst ==
  ASSUME NEW K, NEW k \in K
  PROVE  Append(<<>>, k) \in Seq(K) /\ Append(<<>>, k) = <<k>>
OBVIOUS

\* A loop over n elements starts in range,
LEMMA FirstPosition ==
  ASSUME NEW n \in Nat
  PROVE  1 \in 1..n + 1
OBVIOUS

\* and stays there.
LEMMA NextPosition ==
  ASSUME NEW n \in Nat, NEW i \in 1..n + 1, i <= n, NEW E \in SUBSET Int,
         i \notin E, \A j \in E : j >= i
  PROVE  i + 1 \in 1..n + 1 /\ \A j \in E : j >= i + 1
OBVIOUS

\* Min gives the smallest element.
LEMMA MinIs ==
  ASSUME NEW S \in SUBSET Int, NEW x \in S, \A y \in S : x <= y
  PROVE  Min(S) = x
<1>1. \E m \in S : \A y \in S : m <= y
  OBVIOUS
<1>2. Min(S) \in S /\ \A y \in S : Min(S) <= y
  BY <1>1, Zenon DEF Min
<1>3. Min(S) \in Int /\ x \in Int /\ x <= Min(S) /\ Min(S) <= x
  BY <1>2, Zenon
<1> QED
  BY <1>3

\* What AuthzPolicy says of a policy.
LEMMA PolicyTypes ==
  ASSUME NEW q \in Policies
  PROVE  /\ q # Nil
         /\ q.action \in {"allow", "deny"} /\ q.allowOnError \in BOOLEAN /\ q.dryRun \in BOOLEAN
         /\ q.denyStatus \in Int /\ q.limit \in -Half..Half - 1 /\ q.limit # 0
         /\ Len(q.groups) \in Nat /\ DOMAIN q.groups = 1..Len(q.groups)
         /\ \A g \in DOMAIN q.groups :
              /\ q.groups[g].match \in BOOLEAN
              /\ Len(q.groups[g].rules) \in Nat
              /\ DOMAIN q.groups[g].rules = 1..Len(q.groups[g].rules)
              /\ \A i \in DOMAIN q.groups[g].rules : q.groups[g].rules[i].dryRun \in BOOLEAN
<1>1. AuthzPolicy(q, Half) /\ q # Nil
  BY PolicyAssumption, Zenon
<1> QED
  BY <1>1, Zenon DEF AuthzPolicy, IsSeq

\* An int64 that fits stays what it is.
LEMMA Int64Fits ==
  ASSUME NEW x \in -Half..Half - 1
  PROVE  Int64(x) = x
BY BoundAssumption DEF Int64

\* The shorter of two lengths.
LEMMA MinTwo ==
  ASSUME NEW a \in Int, NEW b \in Int
  PROVE  Min({a, b}) = IF a <= b THEN a ELSE b
<1>1. CASE a <= b
  BY <1>1, MinIs
<1>2. CASE b < a
  BY <1>2, MinIs
<1> QED
  BY <1>1, <1>2

\* The buffer holds part of the body; if it fits the limit and limit+1 does not wrap, all.
LEMMA BufferedPart ==
  ASSUME TypeOK, NEW r \in Requests, p[r] \in Policies
  PROVE  /\ Buffered(r) \in 0..len[r]
         /\ Buffered(r) <= p[r].limit /\ p[r].limit < Half - 1 => Buffered(r) = len[r]
<1> DEFINE n == Int64(p[r].limit + 1)
<1>1. p[r].limit \in -Half..Half - 1 /\ p[r].limit # 0 /\ len[r] \in Nat
  <2>1. len[r] \in 0..MaxBody
    BY Zenon DEF TypeOK
  <2>2. p[r].limit \in -Half..Half - 1 /\ p[r].limit # 0
    BY PolicyTypes, Zenon
  <2> QED
    BY <2>1, <2>2, BoundAssumption
<1>2. n \in Int
  BY <1>1, BoundAssumption DEF Int64
<1>3. p[r].limit < Half - 1 => n = p[r].limit + 1
  BY <1>1, BoundAssumption, Int64Fits
<1>4. Buffered(r) = IF n <= 0 THEN 0 ELSE IF n <= len[r] THEN n ELSE len[r]
  <2> HIDE DEF n
  <2>1. Min({n, len[r]}) = IF n <= len[r] THEN n ELSE len[r]
    BY <1>1, <1>2, MinTwo
  <2> QED
    BY <2>1, Zenon DEF Buffered, n
<1> HIDE DEF n
<1> QED
  BY <1>1, <1>2, <1>3, <1>4, BoundAssumption

\* The first group that decides gives the verdict.
LEMMA VerdictOfFirst ==
  ASSUME NEW q \in Policies, NEW o, NEW g \in Deciding(q, o), \A h \in Deciding(q, o) : h >= g
  PROVE  Verdict(q, o) = GroupVerdict(q, o, g)
<1>1. Deciding(q, o) \in SUBSET Int
  BY PolicyTypes DEF Deciding
<1>2. Min(Deciding(q, o)) = g
  BY <1>1, MinIs, Zenon
<1> QED
  BY <1>2, Zenon DEF Verdict

\* The first rule that ends the loop gives the verdict of a group whose match holds.
LEMMA GroupVerdictOfFirst ==
  ASSUME NEW q \in Policies, NEW o, NEW g \in DOMAIN q.groups, MatchOf(q, o, g) = "true",
         NEW i \in Ending(q, o, g), \A j \in Ending(q, o, g) : j >= i
  PROVE  GroupVerdict(q, o, g) =
           IF o[<<g, i>>] = "error"
           THEN Decision(q.allowOnError, <<g, i>>, q.groups[g].rules[i].dryRun)
           ELSE Decision(o[<<g, i>>] = "true" /\ q.groups[g].rules[i].action = "allow",
                         <<g, i>>, q.groups[g].rules[i].dryRun)
<1>1. Ending(q, o, g) \in SUBSET Int
  BY PolicyTypes DEF Ending
<1>2. Min(Ending(q, o, g)) = i
  BY <1>1, MinIs, Zenon
<1> QED
  BY <1>2, Zenon DEF GroupVerdict

\* A request that a step leaves alone.
Same(r) ==
  /\ pc'[r] = pc[r] /\ p'[r] = p[r] /\ len'[r] = len[r] /\ read'[r] = read[r]
  /\ outcome'[r] = outcome[r] /\ gi'[r] = gi[r] /\ ri'[r] = ri[r] /\ d'[r] = d[r]
  /\ answer'[r] = answer[r] /\ metric'[r] = metric[r] /\ logged'[r] = logged[r]

\* Such a request keeps its invariant.
LEMMA Frame ==
  ASSUME NEW r \in Requests, Good(r), Same(r)
  PROVE  Good(r)'
<1> USE DEF Same
<1>1. Position(r)'
  BY Zenon DEF Good, Position, Group
<1>2. Stage(r)'
  BY Zenon DEF Good, Stage, Whole, Evaluated
<1>3. Exited(r)'
  <2>1. ExitNoPolicy(r) => ExitNoPolicy(r)'
    BY ZenonT(60) DEF ExitNoPolicy, Exit
  <2>2. ExitRead(r) => ExitRead(r)'
    BY DEF ExitRead, Exit, DenyStatus
  <2>3. ExitOverflow(r) => ExitOverflow(r)'
    BY DEF ExitOverflow, Exit, DenyStatus
  <2>4. ExitEnforced(r) => ExitEnforced(r)'
    BY SMTT(30) DEF ExitEnforced, Exit, Evaluated, Whole
  <2> QED
    BY <2>1, <2>2, <2>3, <2>4, Zenon DEF Good, Exited
<1>4. Decided(r)'
  BY Zenon DEF Good, Decided, Evaluated
<1> QED
  BY <1>1, <1>2, <1>3, <1>4, Zenon DEF Good

\* Every step of handle() is about one request.
LEMMA Local ==
  ASSUME TypeOK, NEW r \in Requests, handle(r), NEW s \in Requests, s # r
  PROVE  Same(s)
<1> USE DEF TypeOK, Goto, output, progress
<1>1. CASE Capture(r)
  BY <1>1, Zenon DEF Capture, Same
<1>2. CASE NoPolicy(r)
  BY <1>2, ZenonT(60) DEF NoPolicy, Answer, Record, Same
<1>3. CASE ReadFails(r)
  BY <1>3, Zenon DEF ReadFails, Answer, Record, Same
<1>4. CASE Overflow(r)
  BY <1>4, Zenon DEF Overflow, Answer, Record, Log, Same
<1>5. CASE SlicePanics(r)
  BY <1>5, Zenon DEF SlicePanics, Same
<1>6. CASE Evaluate(r)
  BY <1>6, Zenon DEF Evaluate, Same
<1>7. CASE Enforce(r)
  BY <1>7, Zenon DEF Enforce, Answer, Record, Log, Same
<1>8. CASE evalGroup(r)
  <2>1. ASSUME NEW dec, Decide(r, dec) PROVE Same(s)
    BY <2>1, Zenon DEF Decide, Same
  <2>2. CASE NextGroup(r)
    BY <2>2, Zenon DEF NextGroup, Same
  <2>3. CASE EnterGroup(r)
    BY <2>3, Zenon DEF EnterGroup, Same
  <2>4. CASE NextRule(r)
    BY <2>4, Zenon DEF NextRule, Same
  <2> QED
    BY <1>8, <2>1, <2>2, <2>3, <2>4, Zenon DEF evalGroup, OtherEngine, GroupError, GroupFiltered,
       RuleError, RuleFails, RuleMatches, AllRulesHeld, NoRuleMatched, NoGroupDecides
<1> QED
  BY <1>1, <1>2, <1>3, <1>4, <1>5, <1>6, <1>7, <1>8, Zenon DEF handle

-----------------------------------------------------------------------------
(* The steps of handle().                                                  *)

Pcs     == {"new", "read", "group", "rule", "enforce", "done", "aborted"}
Records == [rule : Labels, outcome : {"allow", "deny", "error"}, dry : BOOLEAN]
Answers == [status : Nat, result : {"", "allow", "deny"}, rule : Labels, dry : BOOLEAN]

\* What a step that answers request r with a and counts k leaves behind; a write that
\* panics is no answer.
Answered(r, a, k) ==
  /\ pc' \in [Requests -> Pcs] /\ pc'[r] \in {"done", "aborted"}
  /\ \A s \in Requests : pc'[s] \notin {"done", "aborted"} => pc'[s] = pc[s]
  /\ answer' \in [Requests -> Answers] /\ metric' \in [Requests -> Seq(Records)]
  /\ pc'[r] = "done" => answer'[r] = a
  /\ metric'[r] = <<k>>

\* An answer and its count are the only ones of the request.
LEMMA AnswerStep ==
  ASSUME TypeOK, NEW r \in Requests, metric[r] = <<>>, NEW a \in Answers, NEW k \in Records,
         pc' = [pc EXCEPT ![r] = IF a.status = 0 THEN "aborted" ELSE "done"],
         answer' = IF a.status = 0 THEN answer ELSE [answer EXCEPT ![r] = a],
         metric' = [metric EXCEPT ![r] = Append(@, k)]
  PROVE  Answered(r, a, k)
<1>1. /\ pc' \in [Requests -> Pcs] /\ pc'[r] \in {"done", "aborted"}
      /\ \A s \in Requests : pc'[s] \notin {"done", "aborted"} => pc'[s] = pc[s]
      /\ pc'[r] = "done" => a.status # 0
  BY Zenon DEF TypeOK, Pcs
<1>2. answer' \in [Requests -> Answers] /\ (pc'[r] = "done" => answer'[r] = a)
  BY <1>1, Zenon DEF TypeOK, Answers
<1>3. metric' \in [Requests -> Seq(Records)] /\ metric'[r] = <<k>>
  <2>1. metric \in [Requests -> Seq(Records)]
    BY Zenon DEF TypeOK, Records
  <2>2. Append(metric[r], k) \in Seq(Records) /\ Append(metric[r], k) = <<k>>
    BY AppendFirst, Zenon
  <2> QED
    BY <2>1, <2>2, Zenon
<1> QED
  BY <1>1, <1>2, <1>3, Zenon DEF Answered

\* The types after an answer.
LEMMA AnsweredTypes ==
  ASSUME TypeOK, NEW r \in Requests, NEW a, NEW k, Answered(r, a, k),
         UNCHANGED <<policy, p, len, progress>>,
         read' \in [Requests -> 0..MaxBody], \A s \in Requests : read'[s] <= len[s],
         logged' \in [Requests -> Nat]
  PROVE  TypeOK'
<1>1. /\ pc' \in [Requests -> Pcs] /\ answer' \in [Requests -> Answers]
      /\ metric' \in [Requests -> Seq(Records)]
      /\ \A s \in Requests : pc'[s] \in {"group", "rule", "enforce"} => pc'[s] = pc[s]
  BY Zenon DEF Answered
<1>2. \A s \in Requests : pc'[s] \in {"group", "rule", "enforce"} =>
                           outcome'[s] \in [Exprs(p'[s]) -> Outcomes]
  BY <1>1, Zenon DEF TypeOK, progress
<1> QED
  BY <1>1, <1>2, Zenon DEF TypeOK, Pcs, Answers, Records, progress

\* handle() captures the policy, or finds none.
LEMMA StepCapture ==
  ASSUME IInv, NEW r \in Requests, Capture(r) \/ NoPolicy(r)
  PROVE  TypeOK' /\ Good(r)'
<1> USE DEF output, progress
<1>1. Good(r) /\ TypeOK
  BY Zenon DEF IInv
<1>2. CASE Capture(r)
  <2>1. TypeOK'
    BY <1>1, <1>2, Zenon DEF TypeOK, Capture, Goto
  <2>2. /\ pc[r] = "new" /\ pc'[r] = "read" /\ p'[r] \in Policies
        /\ d'[r] = d[r] /\ metric'[r] = metric[r] /\ logged'[r] = logged[r]
    BY <1>1, <1>2, Zenon DEF TypeOK, Capture, Goto
  <2> QED
    BY <1>1, <2>1, <2>2, Zenon DEF Good, Position, Stage, Exited, Decided, Evaluated
<1>3. CASE NoPolicy(r)
  <2> DEFINE a == [status |-> WriteHeader(503), result |-> "", rule |-> <<>>, dry |-> FALSE]
             k == [rule |-> <<"<noconfig>">>, outcome |-> "error", dry |-> FALSE]
  <2>1. pc[r] = "new" /\ UNCHANGED <<policy, p, len, read, progress, logged>>
    BY <1>3, ZenonT(60) DEF NoPolicy
  <2>2. metric[r] = <<>> /\ logged[r] = 0 /\ d[r] = NoDecision /\ p[r] = Nil
    BY <1>1, <2>1, Zenon DEF Good, Stage
  <2>3. a \in Answers /\ k \in Records
    BY WriteHeaderNat DEF Labels, Answers, Records
  <2>4. /\ pc' = [pc EXCEPT ![r] = IF a.status = 0 THEN "aborted" ELSE "done"]
        /\ answer' = IF a.status = 0 THEN answer ELSE [answer EXCEPT ![r] = a]
        /\ metric' = [metric EXCEPT ![r] = Append(@, k)]
    BY <1>3, ZenonT(60) DEF NoPolicy, Answer, Record, Goto
  <2>5. Answered(r, a, k)
    <3> HIDE DEF a, k
    <3> QED
      BY <1>1, <2>2, <2>3, <2>4, AnswerStep, Zenon
  <2>6. TypeOK'
    <3>1. /\ read' \in [Requests -> 0..MaxBody] /\ \A s \in Requests : read'[s] <= len[s]
          /\ logged' \in [Requests -> Nat] /\ UNCHANGED <<policy, p, len, progress>>
      BY <1>1, <2>1, Zenon DEF TypeOK
    <3> HIDE DEF a, k
    <3> QED
      BY <1>1, <2>5, <3>1, AnsweredTypes, Zenon
  <2>7. Good(r)'
    BY <1>1, <2>1, <2>2, <2>5
       DEF Good, Position, Stage, Exited, ExitNoPolicy, Exit, Decided, Evaluated, Answered
  <2> QED
    BY <2>6, <2>7, Zenon
<1> QED
  BY <1>2, <1>3, Zenon

\* The body cannot be read, is too long, or panics on a negative limit.
LEMMA StepRead ==
  ASSUME IInv, NEW r \in Requests, ReadFails(r) \/ Overflow(r) \/ SlicePanics(r)
  PROVE  TypeOK' /\ Good(r)'
<1> USE DEF output, progress
<1>1. Good(r) /\ TypeOK
  BY Zenon DEF IInv
<1>2. pc[r] = "read" /\ UNCHANGED <<policy, p, len, progress>>
  BY Zenon DEF ReadFails, Overflow, SlicePanics
<1>3. metric[r] = <<>> /\ logged[r] = 0 /\ d[r] = NoDecision /\ p[r] \in Policies
  BY <1>1, <1>2, Zenon DEF Good, Stage
<1> DEFINE dry == p[r].dryRun
           st  == DenyStatus(r, dry)
<1>4. dry \in BOOLEAN /\ st \in Int
  BY <1>3, PolicyTypes DEF DenyStatus
<1>5. CASE ReadFails(r)
  <2> DEFINE a == [status |-> WriteHeader(st), result |-> "deny", rule |-> <<>>, dry |-> dry]
             k == [rule |-> <<"<read>">>, outcome |-> "error", dry |-> dry]
  <2>1. a \in Answers /\ k \in Records
    BY <1>4, WriteHeaderNat, Zenon DEF Labels, Answers, Records
  <2>2. /\ pc' = [pc EXCEPT ![r] = IF a.status = 0 THEN "aborted" ELSE "done"]
        /\ answer' = IF a.status = 0 THEN answer ELSE [answer EXCEPT ![r] = a]
        /\ metric' = [metric EXCEPT ![r] = Append(@, k)]
    BY <1>5, Zenon DEF ReadFails, Answer, Record, Goto
  <2>3. Answered(r, a, k)
    <3> HIDE DEF a, k
    <3> QED
      BY <1>1, <1>3, <2>1, <2>2, AnswerStep, Zenon
  <2>4. TypeOK'
    <3>1. /\ read' \in [Requests -> 0..MaxBody] /\ \A s \in Requests : read'[s] <= len[s]
          /\ logged' \in [Requests -> Nat]
      BY <1>1, <1>5, Zenon DEF TypeOK, ReadFails
    <3> HIDE DEF a, k
    <3> QED
      BY <1>1, <1>2, <2>3, <3>1, AnsweredTypes, Zenon
  <2>5. pc'[r] = "done" => ExitRead(r)'
    BY <1>2, <1>3, <1>5, <2>3 DEF ExitRead, Exit, Answered, ReadFails, DenyStatus
  <2>6. Good(r)'
    BY <1>2, <1>3, <2>3, <2>5, Zenon
       DEF Good, Position, Stage, Exited, Decided, Evaluated, Answered
  <2> QED
    BY <2>4, <2>6, Zenon
<1>6. CASE Overflow(r)
  <2> DEFINE a == [status |-> WriteHeader(st), result |-> "deny", rule |-> <<"<overflow>">>,
                   dry |-> dry]
             k == [rule |-> <<"<overflow>">>, outcome |-> "deny", dry |-> dry]
  <2>1. a \in Answers /\ k \in Records
    BY <1>4, WriteHeaderNat, Zenon DEF Labels, Answers, Records
  <2>2. /\ pc' = [pc EXCEPT ![r] = IF a.status = 0 THEN "aborted" ELSE "done"]
        /\ answer' = IF a.status = 0 THEN answer ELSE [answer EXCEPT ![r] = a]
        /\ metric' = [metric EXCEPT ![r] = Append(@, k)]
    BY <1>6, Zenon DEF Overflow, Answer, Record, Goto
  <2>3. Answered(r, a, k)
    <3> HIDE DEF a, k
    <3> QED
      BY <1>1, <1>3, <2>1, <2>2, AnswerStep, Zenon
  <2>4. logged' \in [Requests -> Nat] /\ (pc'[r] = "done" => logged'[r] = 1)
    <3>1. logged \in [Requests -> Nat]
      BY <1>1, Zenon DEF TypeOK
    <3>2. logged' = [logged EXCEPT ![r] = @ + (IF pc'[r] = "done" THEN 1 ELSE 0)]
      BY <1>6, Zenon DEF Overflow, Log
    <3> QED
      BY <1>3, <3>1, <3>2
  <2>5. TypeOK'
    <3>1. Buffered(r) \in 0..len[r]
      BY <1>1, <1>3, BufferedPart, Zenon
    <3>2. read' \in [Requests -> 0..MaxBody] /\ \A s \in Requests : read'[s] <= len[s]
      <4>1. /\ len \in [Requests -> 0..MaxBody] /\ read \in [Requests -> 0..MaxBody]
            /\ \A s \in Requests : read[s] <= len[s]
        BY <1>1, Zenon DEF TypeOK
      <4>2. read' = [read EXCEPT ![r] = Buffered(r)]
        BY <1>6, Zenon DEF Overflow
      <4> QED
        BY <3>1, <4>1, <4>2, BoundAssumption
    <3>3. logged' \in [Requests -> Nat]
      BY <2>4, Zenon
    <3> HIDE DEF a, k
    <3> QED
      BY <1>1, <1>2, <2>3, <3>2, <3>3, AnsweredTypes, Zenon
  <2>6. pc'[r] = "done" => ExitOverflow(r)'
    BY <1>2, <1>3, <2>3, <2>4, Zenon DEF ExitOverflow, Exit, Answered, DenyStatus
  <2>7. Good(r)'
    BY <1>2, <1>3, <2>3, <2>6, Zenon
       DEF Good, Position, Stage, Exited, Decided, Evaluated, Answered
  <2> QED
    BY <2>5, <2>7
<1>7. CASE SlicePanics(r)
  <2>1. TypeOK'
    BY <1>1, <1>7, Zenon DEF TypeOK, SlicePanics, Goto
  <2>2. pc'[r] = "aborted" /\ d'[r] = d[r]
    BY <1>1, <1>7, Zenon DEF TypeOK, SlicePanics, Goto
  <2> QED
    BY <1>3, <2>1, <2>2, Zenon DEF Good, Position, Stage, Exited, Decided, Evaluated
<1> QED
  BY <1>5, <1>6, <1>7, Zenon

\* The decision is enforced, or only reported.
LEMMA StepEnforce ==
  ASSUME IInv, NEW r \in Requests, Enforce(r)
  PROVE  TypeOK' /\ Good(r)'
<1> USE DEF output, progress
<1>1. Good(r) /\ TypeOK
  BY Zenon DEF IInv
<1>2. pc[r] = "enforce" /\ UNCHANGED <<policy, p, len, read, progress>>
  BY Zenon DEF Enforce
<1>3. metric[r] = <<>> /\ logged[r] = 0 /\ p[r] \in Policies /\ Whole(r) /\ Evaluated(r)
  BY <1>1, <1>2, Zenon DEF Good, Stage
<1> DEFINE dry == p[r].dryRun \/ d[r].dryRun
           st  == IF d[r].allowed \/ dry THEN 200 ELSE p[r].denyStatus
           a   == [status |-> WriteHeader(st), result |-> verdictLabel(d[r].allowed),
                   rule |-> d[r].rule, dry |-> dry]
           k   == [rule |-> d[r].rule, outcome |-> verdictLabel(d[r].allowed), dry |-> dry]
<1>4. dry \in BOOLEAN /\ st \in Int
  BY <1>3, PolicyTypes
<1>5. d[r].rule \in Labels
  BY <1>1, Zenon DEF TypeOK
<1>6. a \in Answers /\ k \in Records
  <2> HIDE DEF st, dry
  <2> QED
    BY <1>4, <1>5, WriteHeaderNat, Zenon DEF Answers, Records, verdictLabel
<1>7. /\ pc' = [pc EXCEPT ![r] = IF a.status = 0 THEN "aborted" ELSE "done"]
      /\ answer' = IF a.status = 0 THEN answer ELSE [answer EXCEPT ![r] = a]
      /\ metric' = [metric EXCEPT ![r] = Append(@, k)]
  BY SMTT(30) DEF Enforce, Answer, Record, Goto
<1>8. Answered(r, a, k)
  <2> HIDE DEF a, k
  <2> QED
    BY <1>1, <1>3, <1>6, <1>7, AnswerStep, Zenon
<1>9. logged' \in [Requests -> Nat] /\ (pc'[r] = "done" => logged'[r] = 1)
  <2>1. logged \in [Requests -> Nat]
    BY <1>1, Zenon DEF TypeOK
  <2>2. logged' = [logged EXCEPT ![r] = @ + (IF pc'[r] = "done" THEN 1 ELSE 0)]
    BY Zenon DEF Enforce, Log
  <2> QED
    BY <1>3, <2>1, <2>2
<1>10. TypeOK'
  <2>1. read' \in [Requests -> 0..MaxBody] /\ \A s \in Requests : read'[s] <= len[s]
    BY <1>1, <1>2, Zenon DEF TypeOK
  <2> HIDE DEF a, k
  <2> QED
    BY <1>1, <1>2, <1>8, <1>9, <2>1, AnsweredTypes, Zenon
<1>11. pc'[r] = "done" => ExitEnforced(r)'
  <2> SUFFICES ASSUME pc'[r] = "done" PROVE ExitEnforced(r)'
    OBVIOUS
  <2>1. answer'[r] = a /\ metric'[r] = <<k>> /\ logged'[r] = 1
    BY <1>8, <1>9, Zenon DEF Answered
  <2>2. p'[r] \in Policies /\ Evaluated(r)' /\ Whole(r)'
    BY <1>2, <1>3, Zenon DEF Evaluated, Whole
  <2> QED
    BY <1>2, <2>1, <2>2, SMTT(30) DEF ExitEnforced, Exit
<1>12. Decided(r)'
  BY <1>1, <1>2, Zenon DEF Good, Decided, Evaluated
<1>13. Good(r)'
  BY <1>8, <1>11, <1>12, Zenon DEF Good, Position, Stage, Exited, Answered
<1> QED
  BY <1>10, <1>13, Zenon

\* The evaluation starts.
LEMMA StepEvaluate ==
  ASSUME IInv, NEW r \in Requests, Evaluate(r)
  PROVE  TypeOK' /\ Good(r)'
<1> USE DEF output, progress
<1>1. Good(r) /\ TypeOK
  BY Zenon DEF IInv
<1>2. /\ pc[r] = "read" /\ Buffered(r) <= p[r].limit
      /\ UNCHANGED <<policy, p, len, ri, d, output>>
      /\ read' = [read EXCEPT ![r] = Buffered(r)] /\ gi' = [gi EXCEPT ![r] = 1]
      /\ pc' = [pc EXCEPT ![r] = "group"]
  BY Zenon DEF Evaluate, Goto
<1>3. PICK o \in [Exprs(p[r]) -> Outcomes] : outcome' = [outcome EXCEPT ![r] = o]
  BY Zenon DEF Evaluate
<1>4. metric[r] = <<>> /\ logged[r] = 0 /\ d[r] = NoDecision /\ p[r] \in Policies
  BY <1>1, <1>2, Zenon DEF Good, Stage
<1>5. /\ Buffered(r) \in 0..len[r]
      /\ p[r].limit < Half - 1 => Buffered(r) = len[r]
  BY <1>1, <1>2, <1>4, BufferedPart, Zenon
<1>6. read' \in [Requests -> 0..MaxBody] /\ \A s \in Requests : read'[s] <= len[s]
  <2>1. /\ len \in [Requests -> 0..MaxBody] /\ read \in [Requests -> 0..MaxBody]
        /\ \A s \in Requests : read[s] <= len[s]
    BY <1>1, Zenon DEF TypeOK
  <2> QED
    BY <1>2, <1>5, <2>1, BoundAssumption
<1>7. TypeOK'
  BY <1>1, <1>2, <1>3, <1>6, Zenon DEF TypeOK
<1>8. Whole(r)'
  <2>1. read'[r] = Buffered(r)
    BY <1>1, <1>2, Zenon DEF TypeOK
  <2> QED
    BY <1>2, <1>5, <2>1, Zenon DEF Whole
<1>9. Position(r)'
  <2>1. pc'[r] = "group" /\ gi'[r] = 1
    BY <1>1, <1>2, Zenon DEF TypeOK
  <2>2. Len(p[r].groups) \in Nat /\ \A g \in Deciding(p'[r], outcome'[r]) : g >= 1
    BY <1>2, <1>4, PolicyTypes, SMTT(30) DEF Deciding
  <2> QED
    BY <1>2, <2>1, <2>2 DEF Position
<1>10. pc'[r] = "group"
  BY <1>1, <1>2, Zenon DEF TypeOK
<1> QED
  BY <1>2, <1>4, <1>7, <1>8, <1>9, <1>10, Zenon DEF Good, Stage, Exited, Decided, Evaluated

\* A loop ends with the verdict.
LEMMA StepDecide ==
  ASSUME IInv, NEW r \in Requests, NEW dec \in [allowed : BOOLEAN, rule : Labels, dryRun : BOOLEAN],
         Decide(r, dec), pc[r] \in {"group", "rule"},
         dec = Verdict(p[r], outcome[r]), dec.rule # <<>>
  PROVE  TypeOK' /\ Good(r)'
<1> USE DEF output, progress
<1>1. Good(r) /\ TypeOK
  BY Zenon DEF IInv
<1>2. /\ UNCHANGED <<policy, p, len, read, outcome, gi, ri, output>>
      /\ d' = [d EXCEPT ![r] = dec] /\ pc' = [pc EXCEPT ![r] = "enforce"]
  BY Zenon DEF Decide, Goto
<1>3. metric[r] = <<>> /\ logged[r] = 0 /\ p[r] \in Policies /\ Whole(r)
  BY <1>1, Zenon DEF Good, Stage
<1>4. TypeOK'
  BY <1>1, <1>2, Zenon DEF TypeOK
<1>5. pc'[r] = "enforce" /\ d'[r] = dec
  BY <1>1, <1>2, Zenon DEF TypeOK
<1>6. Evaluated(r)' /\ Decided(r)'
  BY <1>2, <1>5 DEF Evaluated, Decided, NoDecision
<1>7. Whole(r)'
  BY <1>2, <1>3, Zenon DEF Whole
<1> QED
  BY <1>2, <1>3, <1>4, <1>5, <1>6, <1>7, Zenon DEF Good, Position, Stage, Exited

\* A group that does not decide is passed.
LEMMA StepNextGroup ==
  ASSUME IInv, NEW r \in Requests, NextGroup(r), pc[r] \in {"group", "rule"},
         gi[r] <= Len(p[r].groups), gi[r] \notin Deciding(p[r], outcome[r])
  PROVE  TypeOK' /\ Good(r)'
<1> USE DEF output, progress
<1>1. Good(r) /\ TypeOK
  BY Zenon DEF IInv
<1>2. /\ UNCHANGED <<policy, p, len, read, outcome, ri, d, output>>
      /\ gi' = [gi EXCEPT ![r] = @ + 1] /\ pc' = [pc EXCEPT ![r] = "group"]
  BY Zenon DEF NextGroup, Goto
<1>3. /\ metric[r] = <<>> /\ logged[r] = 0 /\ p[r] \in Policies /\ Whole(r)
      /\ d[r] = NoDecision
  BY <1>1, Zenon DEF Good, Stage
<1>4. TypeOK'
  <2>1. gi' \in [Requests -> Nat]
    <3>1. gi \in [Requests -> Nat]
      BY <1>1, Zenon DEF TypeOK
    <3> QED
      BY <1>2, <3>1
  <2>2. \A s \in Requests : pc'[s] \in {"group", "rule", "enforce"} =>
                             outcome[s] \in [Exprs(p[s]) -> Outcomes]
    BY <1>1, <1>2, Zenon DEF TypeOK
  <2> QED
    BY <1>1, <1>2, <2>1, <2>2, Zenon DEF TypeOK
<1>5. pc'[r] = "group" /\ gi'[r] = gi[r] + 1 /\ gi[r] \in Nat
  BY <1>1, <1>2, Zenon DEF TypeOK
<1>6. Position(r)'
  <2>1. Len(p[r].groups) \in Nat /\ Deciding(p[r], outcome[r]) \in SUBSET Int
    BY <1>3, PolicyTypes, SMTT(30) DEF Deciding
  <2>2. \A g \in Deciding(p[r], outcome[r]) : g >= gi[r]
    BY <1>1, Zenon DEF Good, Position
  <2>3. \A g \in Deciding(p[r], outcome[r]) : g >= gi[r] + 1
    BY <1>5, <2>1, <2>2
  <2> QED
    BY <1>2, <1>5, <2>1, <2>3, SMTT(20) DEF Position
<1>7. Whole(r)'
  BY <1>2, <1>3, Zenon DEF Whole
<1> QED
  BY <1>2, <1>3, <1>4, <1>5, <1>6, <1>7, Zenon DEF Good, Stage, Exited, Decided, Evaluated

\* Evaluate between groups.
LEMMA StepGroup ==
  ASSUME IInv, NEW r \in Requests,
         NoGroupDecides(r) \/ OtherEngine(r) \/ GroupError(r) \/ GroupFiltered(r) \/ EnterGroup(r)
  PROVE  TypeOK' /\ Good(r)'
<1> DEFINE q == p[r]
           o == outcome[r]
           g == gi[r]
<1>1. Good(r) /\ TypeOK
  BY Zenon DEF IInv
<1>2. pc[r] = "group"
  BY Zenon DEF NoGroupDecides, OtherEngine, GroupError, GroupFiltered, EnterGroup, InGroup, AtGroup
<1>3. /\ q \in Policies /\ g \in 1..Len(q.groups) + 1 /\ \A h \in Deciding(q, o) : h >= g
  BY <1>1, <1>2, Zenon DEF Good, Stage, Position
<1>4. Len(q.groups) \in Nat /\ DOMAIN q.groups = 1..Len(q.groups)
  BY <1>3, PolicyTypes, Zenon
<1>5. Deciding(q, o) \subseteq 1..Len(q.groups)
  BY <1>4, Zenon DEF Deciding
<1>6. CASE NoGroupDecides(r)
  <2> DEFINE dec == Decision(q.action = "allow", <<0, 0>>, FALSE)
  <2>1. g > Len(q.groups) /\ Decide(r, dec)
    BY <1>6, Zenon DEF NoGroupDecides
  <2>2. Deciding(q, o) = {}
    BY <1>3, <1>4, <1>5, <2>1
  <2>3. dec = Verdict(q, o)
    BY <2>2, Zenon DEF Verdict
  <2>4. dec \in [allowed : BOOLEAN, rule : Labels, dryRun : BOOLEAN] /\ dec.rule # <<>>
    BY Zenon DEF Decision, Labels
  <2> HIDE DEF dec
  <2> QED
    BY <1>2, <2>1, <2>3, <2>4, StepDecide, Zenon
<1>7. CASE OtherEngine(r)
  <2>1. g <= Len(q.groups) /\ q.groups[g].engine # "extAuthz" /\ NextGroup(r)
    BY <1>7, Zenon DEF OtherEngine, AtGroup, Group
  <2>2. g \notin Deciding(q, o)
    BY <2>1, Zenon DEF Deciding
  <2> QED
    BY <1>2, <2>1, <2>2, StepNextGroup, Zenon
<1>8. CASE GroupError(r)
  <2> DEFINE dec == Decision(q.allowOnError, <<g, 0>>, FALSE)
  <2>1. /\ g <= Len(q.groups) /\ q.groups[g].engine = "extAuthz" /\ q.groups[g].match
        /\ o[<<g, 0>>] = "error" /\ Decide(r, dec)
    BY <1>8, Zenon DEF GroupError, InGroup, AtGroup, Group, errorDecision
  <2>2. MatchOf(q, o, g) = "error" /\ g \in DOMAIN q.groups
    BY <1>3, <1>4, <2>1, SMTT(30) DEF MatchOf
  <2>3. g \in Deciding(q, o)
    BY <2>1, <2>2, Zenon DEF Deciding
  <2>4. Verdict(q, o) = GroupVerdict(q, o, g)
    BY <1>3, <2>3, VerdictOfFirst, Zenon
  <2>5. GroupVerdict(q, o, g) = dec
    BY <2>2, Zenon DEF GroupVerdict
  <2>6. q.allowOnError \in BOOLEAN /\ g \in Nat
    BY <1>3, <1>4, PolicyTypes
  <2>7. dec \in [allowed : BOOLEAN, rule : Labels, dryRun : BOOLEAN] /\ dec.rule # <<>>
    BY <2>6, Zenon DEF Decision, Labels
  <2> HIDE DEF dec
  <2> QED
    BY <1>2, <2>1, <2>4, <2>5, <2>7, StepDecide, Zenon
<1>9. CASE GroupFiltered(r)
  <2>1. /\ g <= Len(q.groups) /\ q.groups[g].match /\ o[<<g, 0>>] = "false" /\ NextGroup(r)
    BY <1>9, Zenon DEF GroupFiltered, InGroup, AtGroup, Group
  <2>2. g \notin Deciding(q, o)
    BY <2>1, Zenon DEF Deciding, MatchOf
  <2> QED
    BY <1>2, <2>1, <2>2, StepNextGroup, Zenon
<1>10. CASE EnterGroup(r)
  <2> USE DEF output, progress
  <2>1. /\ g <= Len(q.groups) /\ q.groups[g].engine = "extAuthz"
        /\ q.groups[g].match => o[<<g, 0>>] = "true"
        /\ ri' = [ri EXCEPT ![r] = 1] /\ pc' = [pc EXCEPT ![r] = "rule"]
        /\ UNCHANGED <<policy, p, len, read, outcome, gi, d, output>>
    BY <1>10, Zenon DEF EnterGroup, InGroup, AtGroup, Group, Goto
  <2>2. g \in DOMAIN q.groups /\ MatchOf(q, o, g) = "true"
    BY <1>3, <1>4, <2>1, SMTT(30) DEF MatchOf
  <2>3. TypeOK'
    <3>1. ri' \in [Requests -> Nat]
      BY <1>1, <2>1, Zenon DEF TypeOK
    <3>2. \A s \in Requests : pc'[s] \in {"group", "rule", "enforce"} =>
                               outcome[s] \in [Exprs(p[s]) -> Outcomes]
      BY <1>1, <1>2, <2>1, Zenon DEF TypeOK
    <3> QED
      BY <1>1, <2>1, <3>1, <3>2, Zenon DEF TypeOK
  <2>4. pc'[r] = "rule" /\ ri'[r] = 1
    BY <1>1, <2>1, Zenon DEF TypeOK
  <2>5. /\ Len(q.groups[g].rules) \in Nat
        /\ \A i \in Ending(q, o, g) : i >= 1
    BY <1>3, <2>2, PolicyTypes, SMTT(30) DEF Ending
  <2>6. Position(r)'
    <3>1. p'[r] = q /\ outcome'[r] = o /\ gi'[r] = g
      BY <2>1, Zenon
    <3>2. ri'[r] \in 1..Len(q.groups[g].rules) + 1 /\ \A i \in Ending(q, o, g) : i >= ri'[r]
      BY <2>4, <2>5, FirstPosition, Zenon
    <3> QED
      BY <1>3, <2>1, <2>2, <3>1, <3>2, Zenon DEF Position, Group
  <2>7. /\ metric[r] = <<>> /\ logged[r] = 0 /\ Whole(r) /\ d[r] = NoDecision
    BY <1>1, <1>2, Zenon DEF Good, Stage
  <2>8. Whole(r)'
    BY <2>1, <2>7, Zenon DEF Whole
  <2> QED
    BY <1>3, <2>1, <2>3, <2>4, <2>6, <2>7, <2>8, Zenon DEF Good, Stage, Exited, Decided, Evaluated
<1> QED
  BY <1>6, <1>7, <1>8, <1>9, <1>10, Zenon

\* The rules of a group.
LEMMA StepRule ==
  ASSUME IInv, NEW r \in Requests,
         \/ RuleError(r) \/ RuleFails(r) \/ RuleMatches(r) \/ NextRule(r)
         \/ AllRulesHeld(r) \/ NoRuleMatched(r)
  PROVE  TypeOK' /\ Good(r)'
<1> DEFINE q   == p[r]
           o   == outcome[r]
           g   == gi[r]
           i   == ri[r]
           n   == Len(q.groups[g].rules)
           rul == q.groups[g].rules[i]
           Decisions == [allowed : BOOLEAN, rule : Labels, dryRun : BOOLEAN]
<1>1. Good(r) /\ TypeOK
  BY Zenon DEF IInv
<1>2. pc[r] = "rule"
  BY Zenon DEF RuleError, RuleFails, RuleMatches, NextRule, AllRulesHeld, NoRuleMatched, AtRule
<1>3. /\ q \in Policies /\ g \in DOMAIN q.groups /\ q.groups[g].engine = "extAuthz"
      /\ MatchOf(q, o, g) = "true" /\ i \in 1..n + 1
      /\ \A j \in Ending(q, o, g) : j >= i
      /\ \A h \in Deciding(q, o) : h >= g
  BY <1>1, <1>2, Zenon DEF Good, Stage, Position, Group
<1> HIDE DEF q, o, g, i, n, rul
<1>4. /\ n \in Nat /\ DOMAIN q.groups[g].rules = 1..n /\ g \in Nat /\ g <= Len(q.groups)
      /\ q.allowOnError \in BOOLEAN
  BY <1>3, PolicyTypes DEF n
<1>5. i \in 1..n => rul.dryRun \in BOOLEAN /\ i \in DOMAIN q.groups[g].rules /\ i \in Nat
  <2>1. i \in 1..n => i \in Nat
    BY <1>4
  <2>2. i \in DOMAIN q.groups[g].rules => rul.dryRun \in BOOLEAN
    BY <1>3, PolicyTypes, Zenon DEF rul
  <2> QED
    BY <1>4, <2>1, <2>2, Zenon
<1>6. Ending(q, o, g) \in SUBSET Int /\ \A j \in Ending(q, o, g) : j \in 1..n
  BY <1>4 DEF Ending
<1>7. i <= n => i \in 1..n
  BY <1>3, <1>4
<1>8. ASSUME i \in Ending(q, o, g)
      PROVE  Verdict(q, o) = IF o[<<g, i>>] = "error"
                             THEN Decision(q.allowOnError, <<g, i>>, rul.dryRun)
                             ELSE Decision(o[<<g, i>>] = "true" /\ rul.action = "allow",
                                           <<g, i>>, rul.dryRun)
  <2>1. g \in Deciding(q, o)
    BY <1>3, <1>8, Zenon DEF Deciding
  <2>2. Verdict(q, o) = GroupVerdict(q, o, g)
    BY <1>3, <2>1, VerdictOfFirst, Zenon
  <2>3. GroupVerdict(q, o, g) = IF o[<<g, i>>] = "error"
                                THEN Decision(q.allowOnError, <<g, i>>, rul.dryRun)
                                ELSE Decision(o[<<g, i>>] = "true" /\ rul.action = "allow",
                                              <<g, i>>, rul.dryRun)
    BY <1>3, <1>8, GroupVerdictOfFirst, SMTT(30) DEF rul
  <2> QED
    BY <2>2, <2>3, Zenon
<1>9. ASSUME NEW dec \in Decisions, Decide(r, dec), dec = Verdict(q, o), dec.rule # <<>>
      PROVE  TypeOK' /\ Good(r)'
  BY <1>2, <1>9, StepDecide, Zenon DEF q, o
<1>10. CASE RuleError(r)
  <2> DEFINE dec == Decision(q.allowOnError, <<g, i>>, rul.dryRun)
  <2>1. i <= n /\ o[<<g, i>>] = "error" /\ Decide(r, dec)
    BY <1>10, Zenon DEF RuleError, AtRule, Group, Rule, errorDecision, q, o, g, i, n, rul
  <2>2. i \in Ending(q, o, g)
    BY <1>5, <1>7, <2>1, Zenon DEF Ending
  <2>3. dec = Verdict(q, o)
    BY <1>8, <2>1, <2>2, Zenon
  <2>4. dec \in Decisions /\ dec.rule # <<>>
    BY <1>4, <1>5, <1>7, <2>1, Zenon DEF Decision, Labels
  <2> HIDE DEF dec
  <2> QED
    BY <1>9, <2>1, <2>3, <2>4, Zenon
<1>11. CASE RuleFails(r)
  <2> DEFINE dec == Decision(FALSE, <<g, i>>, rul.dryRun)
  <2>1. i <= n /\ q.groups[g].mode = "matchAll" /\ o[<<g, i>>] = "false" /\ Decide(r, dec)
    BY <1>11, Zenon DEF RuleFails, AtRule, Group, Rule, q, o, g, i, n, rul
  <2>2. i \in Ending(q, o, g)
    BY <1>5, <1>7, <2>1, Zenon DEF Ending
  <2>3. dec = Verdict(q, o)
    BY <1>8, <2>1, <2>2, Zenon
  <2>4. dec \in Decisions /\ dec.rule # <<>>
    BY <1>4, <1>5, <1>7, <2>1, Zenon DEF Decision, Labels
  <2> HIDE DEF dec
  <2> QED
    BY <1>9, <2>1, <2>3, <2>4, Zenon
<1>12. CASE RuleMatches(r)
  <2> DEFINE dec == Decision(rul.action = "allow", <<g, i>>, rul.dryRun)
  <2>1. i <= n /\ q.groups[g].mode # "matchAll" /\ o[<<g, i>>] = "true" /\ Decide(r, dec)
    BY <1>12, Zenon DEF RuleMatches, AtRule, Group, Rule, q, o, g, i, n, rul
  <2>2. i \in Ending(q, o, g)
    BY <1>5, <1>7, <2>1, Zenon DEF Ending
  <2>3. dec = Verdict(q, o)
    BY <1>8, <2>1, <2>2, Zenon
  <2>4. dec \in Decisions /\ dec.rule # <<>>
    BY <1>4, <1>5, <1>7, <2>1, Zenon DEF Decision, Labels
  <2> HIDE DEF dec
  <2> QED
    BY <1>9, <2>1, <2>3, <2>4, Zenon
<1>13. CASE NextRule(r)
  <2> USE DEF output, progress
  <2>1. /\ i <= n
        /\ o[<<g, i>>] = IF q.groups[g].mode = "matchAll" THEN "true" ELSE "false"
        /\ ri' = [ri EXCEPT ![r] = @ + 1]
        /\ UNCHANGED <<policy, pc, p, len, read, outcome, gi, d, output>>
    BY <1>13, Zenon DEF NextRule, AtRule, Group, q, o, g, i, n
  <2>2. ri' \in [Requests -> Nat] /\ ri'[r] = i + 1
    <3>1. ri \in [Requests -> Nat]
      BY <1>1, Zenon DEF TypeOK
    <3> QED
      BY <2>1, <3>1, SMTT(30) DEF i
  <2>3. TypeOK'
    BY <1>1, <2>1, <2>2, Zenon DEF TypeOK
  <2>4. i \notin Ending(q, o, g)
    BY <2>1, Zenon DEF Ending
  <2>5. i + 1 \in 1..n + 1 /\ \A j \in Ending(q, o, g) : j >= i + 1
    BY <1>3, <1>4, <1>6, <2>1, <2>4, NextPosition, Zenon
  <2>6. Position(r)'
    <3>1. p'[r] = q /\ outcome'[r] = o /\ gi'[r] = g /\ pc'[r] = pc[r]
      BY <2>1, Zenon DEF q, o, g
    <3>2. /\ g \in 1..Len(q.groups) + 1 /\ \A h \in Deciding(q, o) : h >= g
      BY <1>1, <1>2, Zenon DEF Good, Position, q, o, g
    <3> QED
      BY <1>3, <2>2, <2>5, <3>1, <3>2, Zenon DEF Position, Group, n
  <2>7. Stage(r)' /\ Exited(r)' /\ Decided(r)'
    BY <1>1, <1>2, <2>1, Zenon DEF Good, Stage, Exited, Decided, Evaluated, Whole
  <2> QED
    BY <2>3, <2>6, <2>7, Zenon DEF Good
<1>14. ASSUME i > n
       PROVE  Ending(q, o, g) = {}
  BY <1>3, <1>4, <1>6, <1>14, SMTT(30)
<1>15. CASE AllRulesHeld(r)
  <2> DEFINE dec == Decision(TRUE, <<g, 0>>, FALSE)
  <2>1. i > n /\ q.groups[g].mode = "matchAll" /\ Decide(r, dec)
    BY <1>15, Zenon DEF AllRulesHeld, Group, q, g, i, n
  <2>2. g \in Deciding(q, o)
    BY <1>3, <2>1, Zenon DEF Deciding
  <2>3. Verdict(q, o) = GroupVerdict(q, o, g)
    BY <1>3, <2>2, VerdictOfFirst
  <2>4. GroupVerdict(q, o, g) = dec
    BY <1>3, <1>14, <2>1, Zenon DEF GroupVerdict
  <2>5. dec \in Decisions /\ dec.rule # <<>>
    BY <1>4, Zenon DEF Decision, Labels
  <2> HIDE DEF dec
  <2> QED
    BY <1>9, <2>1, <2>3, <2>4, <2>5, Zenon
<1>16. CASE NoRuleMatched(r)
  <2>1. i > n /\ q.groups[g].mode # "matchAll" /\ NextGroup(r)
    BY <1>16, Zenon DEF NoRuleMatched, Group, q, g, i, n
  <2>2. g \notin Deciding(q, o)
    BY <1>3, <1>14, <2>1, Zenon DEF Deciding
  <2> QED
    BY <1>2, <1>4, <2>1, <2>2, StepNextGroup, Zenon DEF q, o, g
<1> QED
  BY <1>10, <1>11, <1>12, <1>13, <1>15, <1>16, Zenon

-----------------------------------------------------------------------------
(* The invariant.                                                          *)

\* No request has arrived.
LEMMA InitIInv ==
  ASSUME Init
  PROVE  IInv
<1>1. TypeOK
  <2>1. NoDecision \in [allowed : BOOLEAN, rule : Labels, dryRun : BOOLEAN]
    BY DEF NoDecision, Labels
  <2>2. NoAnswer \in [status : Nat, result : {"", "allow", "deny"}, rule : Labels, dry : BOOLEAN]
    BY DEF NoAnswer, Labels
  <2>3. /\ len \in [Requests -> 0..MaxBody] /\ read \in [Requests -> 0..MaxBody]
        /\ \A r \in Requests : read[r] <= len[r]
    BY BoundAssumption DEF Init
  <2>4. metric \in [Requests -> Seq(Records)]
    BY DEF Init
  <2>5. /\ policy \in Policies \cup {Nil} /\ pc \in [Requests -> Pcs]
        /\ p \in [Requests -> Policies \cup {Nil}]
        /\ gi \in [Requests -> Nat] /\ ri \in [Requests -> Nat]
        /\ logged \in [Requests -> Nat] /\ DOMAIN outcome = Requests
        /\ \A r \in Requests : pc[r] = "new"
    BY DEF Init, Pcs
  <2>6. /\ d \in [Requests -> [allowed : BOOLEAN, rule : Labels, dryRun : BOOLEAN]]
        /\ answer \in [Requests -> Answers]
    BY <2>1, <2>2 DEF Init, Answers
  <2> QED
    BY <2>3, <2>4, <2>5, <2>6 DEF TypeOK, Records, Answers, Pcs
<1>2. ASSUME NEW r \in Requests
      PROVE  Good(r)
  BY DEF Init, Good, Position, Stage, Exited, Decided, Evaluated
<1> QED
  BY <1>1, <1>2 DEF IInv

\* A step of handle() leaves the other requests alone; SetPolicy leaves all of them.
LEMMA StepIInv ==
  ASSUME IInv, [Next]_vars
  PROVE  IInv'
<1>1. CASE UNCHANGED vars \/ SetPolicy
  <2>1. /\ UNCHANGED <<pc, p, len, read, outcome, gi, ri, d, answer, metric, logged>>
        /\ policy' \in Policies \cup {Nil}
    BY <1>1, PolicyAssumption DEF vars, SetPolicy, progress, output, IInv, TypeOK
  <2>2. TypeOK'
    BY <2>1 DEF IInv, TypeOK
  <2>3. ASSUME NEW r \in Requests
        PROVE  Good(r)'
    <3>1. Same(r)
      BY <2>1 DEF Same
    <3> QED
      BY <3>1, Frame, SMTT(20) DEF IInv
  <2> QED
    BY <2>2, <2>3 DEF IInv
<1>2. ASSUME NEW r \in Requests, handle(r)
      PROVE  IInv'
  <2>1. TypeOK' /\ Good(r)'
    BY <1>2, StepCapture, StepRead, StepEvaluate, StepGroup, StepRule, StepEnforce
       DEF handle, evalGroup
  <2>2. ASSUME NEW s \in Requests, s # r
        PROVE  Good(s)'
    <3>1. Same(s)
      BY <1>2, <2>2, Local DEF IInv
    <3> QED
      BY <3>1, Frame DEF IInv
  <2> QED
    BY <2>1, <2>2 DEF IInv
<1> QED
  BY <1>1, <1>2 DEF Next

-----------------------------------------------------------------------------
(* Theorems.                                                               *)

\* What an exit says of the answer and of the count.
LEMMA ExitIs ==
  ASSUME NEW r \in Requests, NEW status, NEW result, NEW rule, NEW dry \in BOOLEAN, NEW counted,
         NEW out, NEW logs, Exit(r, status, result, rule, dry, counted, out, logs)
  PROVE  /\ answer[r].status = WriteHeader(status) /\ answer[r].result = result
         /\ answer[r].rule = rule /\ answer[r].dry = dry
         /\ Len(metric[r]) = 1 /\ metric[r][1].rule = counted
         /\ metric[r][1].outcome = out /\ metric[r][1].dry = dry
         /\ logged[r] = logs
BY SMTT(30) DEF Exit

\* The exits of handle() with a policy: what was answered, and how it was counted.
LEMMA Exits ==
  ASSUME IInv, NEW r \in Requests, pc[r] = "done"
  PROVE  \/ /\ p[r] = Nil /\ ~Evaluated(r)
            /\ Len(metric[r]) = 1 /\ metric[r][1].outcome = "error" /\ logged[r] = 0
            /\ metric[r][1].dry = answer[r].dry
         \/ \E dry \in BOOLEAN, rule \in Labels, allowed \in BOOLEAN :
              /\ p[r] \in Policies /\ answer[r].dry = dry /\ dry = (p[r].dryRun \/ d[r].dryRun)
              /\ answer[r].status =
                   WriteHeader(IF allowed \/ dry THEN 200 ELSE p[r].denyStatus)
              /\ answer[r].result = verdictLabel(allowed)
              /\ allowed => Evaluated(r) /\ d[r].allowed /\ Whole(r)
              /\ Len(metric[r]) = 1 /\ metric[r][1].dry = dry
              /\ \/ /\ metric[r][1].outcome = "error" /\ ~Evaluated(r) /\ logged[r] = 0
                 \/ /\ metric[r][1].outcome = answer[r].result /\ logged[r] = 1
                    /\ metric[r][1].rule = answer[r].rule
<1>1. ExitNoPolicy(r) \/ ExitRead(r) \/ ExitOverflow(r) \/ ExitEnforced(r)
  BY DEF IInv, Good, Exited
<1>2. d[r].allowed \in BOOLEAN /\ d[r].dryRun \in BOOLEAN /\ d[r].rule \in Labels
  BY DEF IInv, TypeOK
<1>3. p[r] \in Policies => p[r].dryRun \in BOOLEAN
  BY PolicyTypes
<1>4. CASE ExitNoPolicy(r)
  <2>1. /\ p[r] = Nil /\ ~Evaluated(r) /\ logged[r] = 0
        /\ Len(metric[r]) = 1 /\ metric[r][1].outcome = "error"
        /\ metric[r][1].dry = answer[r].dry
    <3> DEFINE dry == FALSE
               rl  == <<>>
               lbl == <<"<noconfig>">>
               res == ""
    <3>1. dry \in BOOLEAN /\ Exit(r, 503, res, rl, dry, lbl, "error", 0)
      BY <1>4 DEF ExitNoPolicy
    <3>2. p[r] = Nil /\ ~Evaluated(r)
      BY <1>4 DEF ExitNoPolicy, Evaluated
    <3> HIDE DEF dry, rl, lbl, res
    <3>3. /\ logged[r] = 0 /\ Len(metric[r]) = 1 /\ metric[r][1].outcome = "error"
          /\ metric[r][1].dry = dry /\ answer[r].dry = dry
      BY <3>1, ExitIs, SMTT(30)
    <3> QED
      BY <3>2, <3>3
  <2> QED
    BY <2>1
<1>5. CASE ExitRead(r) \/ ExitOverflow(r)
  <2> DEFINE dry == p[r].dryRun
  <2>1. p[r] \in Policies /\ ~Evaluated(r) /\ dry \in BOOLEAN /\ d[r].dryRun = FALSE
    BY <1>3, <1>5, SMTT(30) DEF ExitRead, ExitOverflow, Evaluated, NoDecision
  <2>2. dry = (p[r].dryRun \/ d[r].dryRun)
    BY <2>1, SMTT(20)
  <2>3. /\ answer[r].dry = dry /\ answer[r].status = WriteHeader(DenyStatus(r, dry))
        /\ answer[r].result = "deny" /\ Len(metric[r]) = 1 /\ metric[r][1].dry = dry
        /\ \/ metric[r][1].outcome = "error" /\ logged[r] = 0
           \/ /\ metric[r][1].outcome = "deny" /\ logged[r] = 1
              /\ metric[r][1].rule = answer[r].rule
    BY <1>5, <2>1, ExitIs, SMTT(30) DEF ExitRead, ExitOverflow
  <2>4. answer[r].status = WriteHeader(IF FALSE \/ dry THEN 200 ELSE p[r].denyStatus)
    BY <2>3 DEF DenyStatus
  <2> HIDE DEF dry
  <2> QED
    BY <2>1, <2>2, <2>3, <2>4, Zenon DEF Labels, verdictLabel
<1>6. CASE ExitEnforced(r)
  <2> DEFINE dry == p[r].dryRun \/ d[r].dryRun
             all == d[r].allowed
  <2>1. p[r] \in Policies /\ Evaluated(r) /\ Whole(r) /\ dry \in BOOLEAN /\ all \in BOOLEAN
    BY <1>2, <1>3, <1>6 DEF ExitEnforced
  <2>2. /\ answer[r].dry = dry
        /\ answer[r].status = WriteHeader(IF all \/ dry THEN 200 ELSE p[r].denyStatus)
        /\ answer[r].result = verdictLabel(all) /\ Len(metric[r]) = 1 /\ metric[r][1].dry = dry
        /\ metric[r][1].outcome = verdictLabel(all) /\ logged[r] = 1
        /\ metric[r][1].rule = answer[r].rule
    <3> DEFINE st  == IF all \/ dry THEN 200 ELSE p[r].denyStatus
               res == verdictLabel(all)
               rl  == d[r].rule
    <3>1. Exit(r, st, res, rl, dry, rl, res, 1)
      BY <1>6 DEF ExitEnforced
    <3> HIDE DEF st, res, rl, dry, all
    <3>2. /\ answer[r].dry = dry /\ answer[r].status = WriteHeader(st)
          /\ answer[r].result = res /\ Len(metric[r]) = 1 /\ metric[r][1].dry = dry
          /\ metric[r][1].outcome = res /\ logged[r] = 1 /\ metric[r][1].rule = answer[r].rule
      BY <2>1, <3>1, ExitIs, SMTT(30)
    <3> QED
      BY <3>2 DEF st, res
  <2>3. dry = (p[r].dryRun \/ d[r].dryRun) /\ all = d[r].allowed
    OBVIOUS
  <2> HIDE DEF dry, all
  <2> QED
    BY <1>2, <2>1, <2>2, <2>3, Zenon
<1> QED
  BY <1>1, <1>4, <1>5, <1>6

\* handle() keeps the invariant: the loops pass only groups and rules that do not
\* decide, and every exit answers, counts and logs what its path says.
THEOREM Invariance == Spec => []IInv
<1>1. Init => IInv
  BY InitIInv
<1>2. IInv /\ [Next]_vars => IInv'
  BY StepIInv
<1> QED
  BY <1>1, <1>2, PTL DEF Spec

\* The loops of Evaluate and evalGroup compute the verdict of the first group that
\* produces one, for any number and shape of groups.
THEOREM Verdicts == Spec => []DecisionIsVerdict
<1>1. IInv => DecisionIsVerdict
  BY SMTT(20) DEF IInv, Good, Decided, DecisionIsVerdict
<1> QED
  BY <1>1, Invariance, PTL

\* handle() blocks nothing in shadow mode, on any exit and under any policy.
THEOREM Shadow == Spec => []DryRunNeverBlocks
<1>1. ASSUME IInv, NEW r \in Requests, Done(r), p[r].dryRun \/ d[r].dryRun
      PROVE  answer[r].status = 200 /\ answer[r].dry
  <2>1. PICK dry \in BOOLEAN, allowed \in BOOLEAN :
          /\ answer[r].dry = dry /\ dry = (p[r].dryRun \/ d[r].dryRun)
          /\ answer[r].status = WriteHeader(IF allowed \/ dry THEN 200 ELSE p[r].denyStatus)
    BY <1>1, Exits DEF Done
  <2>2. dry = TRUE
    BY <1>1, <2>1, Zenon
  <2>3. answer[r].status = WriteHeader(200)
    BY <2>1, <2>2
  <2> QED
    BY <2>1, <2>2, <2>3, SMTT(30) DEF WriteHeader
<1>2. IInv => DryRunNeverBlocks
  BY <1>1 DEF DryRunNeverBlocks
<1> QED
  BY <1>2, Invariance, PTL

\* A request admitted outside shadow mode was inspected in full and its verdict is to
\* allow, for every limit with a successor in int64 and every final deny status but 200.
THEOREM Admitted == Spec => []AdmittedInspected
<1>1. ASSUME IInv, NEW r \in Requests, Done(r), answer[r].status = 200, ~answer[r].dry,
             p[r].limit < Half - 1, Final(p[r].denyStatus), p[r].denyStatus # 200
      PROVE  read[r] = len[r] /\ Verdict(p[r], outcome[r]).allowed
  <2>1. PICK dry \in BOOLEAN, allowed \in BOOLEAN :
          /\ answer[r].dry = dry
          /\ answer[r].status = WriteHeader(IF allowed \/ dry THEN 200 ELSE p[r].denyStatus)
          /\ allowed => Evaluated(r) /\ d[r].allowed /\ Whole(r)
    BY <1>1, Exits, SMTT(30) DEF Done
  <2>2. Evaluated(r) /\ d[r].allowed /\ Whole(r)
    BY <1>1, <2>1 DEF Final
  <2> QED
    BY <1>1, <2>2, SMTT(30) DEF IInv, Good, Decided, Whole
<1>2. IInv => AdmittedInspected
  BY <1>1 DEF AdmittedInspected
<1> QED
  BY <1>2, Invariance, PTL

\* A denied request gets the deny status of the policy it was captured under, whatever
\* SetPolicy installs meanwhile.
THEOREM Denied == Spec => []DeniedByOnePolicy
<1>1. ASSUME IInv, NEW r \in Requests, Done(r), answer[r].result = "deny",
             Final(p[r].denyStatus)
      PROVE  answer[r].status = IF answer[r].dry THEN 200 ELSE p[r].denyStatus
  <2>1. WriteHeader(200) = 200
    BY DEF WriteHeader
  <2>2. PICK dry \in BOOLEAN, allowed \in BOOLEAN :
          /\ answer[r].dry = dry /\ answer[r].result = verdictLabel(allowed)
          /\ answer[r].status = WriteHeader(IF allowed \/ dry THEN 200 ELSE p[r].denyStatus)
    BY <1>1, Exits DEF Done
  <2>3. ~allowed
    BY <1>1, <2>2 DEF verdictLabel
  <2> QED
    BY <1>1, <2>1, <2>2, <2>3 DEF Final
<1>2. IInv => DeniedByOnePolicy
  BY <1>1, ZenonT(30) DEF DeniedByOnePolicy
<1> QED
  BY <1>2, Invariance, PTL

\* Every answered request is counted exactly once, as it was answered, and logged at most
\* once, and exactly once unless it could not be evaluated.
THEOREM Counting == Spec => []CountedOnce
<1>1. ASSUME IInv, NEW r \in Requests, pc[r] = "done"
      PROVE  /\ Len(metric[r]) = 1
             /\ metric[r][1].dry = answer[r].dry
             /\ metric[r][1].outcome # "error" =>
                  metric[r][1].rule = answer[r].rule /\ metric[r][1].outcome = answer[r].result
             /\ metric[r][1].outcome = "error" => ~Evaluated(r)
             /\ logged[r] <= 1 /\ (metric[r][1].outcome # "error" => logged[r] = 1)
  <2>1. CASE p[r] = Nil
    BY <1>1, <2>1, Exits, PolicyAssumption
  <2>2. CASE p[r] # Nil
    BY <1>1, <2>2, Exits DEF verdictLabel
  <2> QED
    BY <2>1, <2>2
<1>2. IInv => CountedOnce
  BY <1>1 DEF CountedOnce
<1> QED
  BY <1>2, Invariance, PTL
=============================================================================
