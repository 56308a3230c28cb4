---------------------------- MODULE PolicyShape ----------------------------
(***************************************************************************)
(* What the two engines take for granted of a loaded policy.  ExtAuthz and *)
(* ExtProc assume it of their policies, PolicyLoad shows that LoadBytes    *)
(* lets nothing else through.                                              *)
(***************************************************************************)
EXTENDS Integers, Sequences

Bodies         == {"requestBody", "responseBody"}
RequestPhases  == {"requestHeaders", "requestBody"}
ResponsePhases == {"responseHeaders", "responseBody"}
Phases         == RequestPhases \cup ResponsePhases

IsSeq(s) == Len(s) \in Nat /\ DOMAIN s = 1..Len(s)

\* handle(), Evaluate and evalGroup; half is 2^63.
AuthzPolicy(q, half) ==
  /\ q.action \in {"allow", "deny"} /\ {q.allowOnError, q.dryRun} \subseteq BOOLEAN
  /\ q.denyStatus \in Int \ {0}
  /\ q.limit \in (-half..half - 1) \ {0}
  /\ IsSeq(q.groups)
  /\ \A g \in DOMAIN q.groups : LET grp == q.groups[g] IN
       /\ grp.engine \in {"extAuthz", "extProc"} /\ grp.match \in BOOLEAN
       /\ IsSeq(grp.rules) /\ grp.rules # <<>>
       /\ \A i \in DOMAIN grp.rules : grp.rules[i].dryRun \in BOOLEAN
       /\ grp.engine = "extAuthz" =>
            /\ grp.mode \in {"firstMatch", "matchAll"}
            /\ \A i \in DOMAIN grp.rules : grp.rules[i].action \in {"allow", "deny"}

\* Process, EvaluateProc and handleProcResult.
ProcPolicy(q) ==
  /\ q.dryRun \in BOOLEAN /\ q.limit \in Int \ {0}
  /\ q.onBodyOverflow \in {"skip", "fail"}
  /\ IsSeq(q.groups)
  /\ \A g \in DOMAIN q.groups : LET grp == q.groups[g] IN
       /\ grp.match \in BOOLEAN /\ IsSeq(grp.rules)
       /\ grp.engine = "extProc" =>
            grp.mode \in {"firstMatch", "applyAll"} /\ grp.phase \in Phases
       /\ \A i \in DOMAIN grp.rules : LET ms == grp.rules[i].mutations IN
            /\ grp.rules[i].dryRun \in BOOLEAN /\ IsSeq(ms)
            /\ \A m \in DOMAIN ms :
                 /\ ms[m].op = "directResponse" => Len(ms) = 1 /\ grp.phase \in ResponsePhases
                 /\ ms[m].op = "setBody" => grp.phase \in Bodies
                 /\ ms[m].op = "setStatus" => grp.phase \in ResponsePhases
=============================================================================
