----------------------------- MODULE MCExtProc -----------------------------
(* Instances of ExtProc for TLC.                                           *)
EXTENDS ExtProc

op(o, name, value) == [op |-> o, name |-> name, value |-> value]
rule(dry, ms)      == [dryRun |-> dry, mutations |-> ms]
group(phase, mode, match, rules) ==
  [engine |-> "extProc", phase |-> phase, mode |-> mode, match |-> match, rules |-> rules]

Policy(dry, limit, overflow, groups) ==
  [dryRun |-> dry, limit |-> limit, onBodyOverflow |-> overflow, groups |-> groups]

\* Header writes in both modes; a rule without mutations that halts its group; groups
\* of the other engine between.
HeaderGroups ==
  <<group("requestHeaders", "applyAll", FALSE,
      <<rule(FALSE, <<op("appendHeader", "a", 1)>>),
        rule(TRUE, <<op("setHeader", "a", 2)>>)>>),
    [engine |-> "extAuthz", phase |-> "", mode |-> "firstMatch", match |-> FALSE,
     rules |-> <<rule(FALSE, <<>>)>>],
    group("requestHeaders", "firstMatch", FALSE,
      <<rule(FALSE, <<>>), rule(FALSE, <<op("setHeader", "a", 3)>>)>>)>>

\* Bodies replaced by two rules, with and without a status.
BodyGroups ==
  <<group("requestBody", "applyAll", FALSE,
      <<rule(FALSE, <<op("setBody", "", 1)>>), rule(FALSE, <<op("setBody", "", 2)>>)>>),
    group("responseBody", "firstMatch", FALSE,
      <<rule(FALSE, <<op("setStatus", "", 404), op("setBody", "", 3)>>),
        rule(FALSE, <<op("directResponse", "", 451)>>)>>)>>

\* Direct responses, enforced and shadowed, in two groups.
DirectGroups ==
  <<group("responseHeaders", "firstMatch", FALSE,
      <<rule(TRUE, <<op("directResponse", "", 200)>>),
        rule(FALSE, <<op("directResponse", "", 302)>>)>>),
    group("responseHeaders", "applyAll", TRUE,
      <<rule(FALSE, <<op("directResponse", "", 418)>>)>>)>>

\* A header is removed before and after it is set.
RemoveGroups ==
  <<group("requestHeaders", "applyAll", FALSE,
      <<rule(FALSE, <<op("setHeader", "a", 1), op("removeHeader", "b", 0)>>),
        rule(FALSE, <<op("removeHeader", "a", 0), op("appendHeader", "b", 2)>>)>>)>>

\* A rule sets the length before the body is replaced, another after it.
LengthGroups ==
  <<group("requestBody", "applyAll", FALSE,
      <<rule(FALSE, <<op("setHeader", "content-length", 7), op("setBody", "", 1)>>),
        rule(FALSE, <<op("appendHeader", "content-length", 8)>>)>>)>>

\* Policies that differ in limit, overflow mode and groups replace each other in
\* mid-stream; the others are only booted with.
MCReloads  == {Policy(FALSE, 1, "skip", HeaderGroups \o BodyGroups),
               Policy(FALSE, 2, "fail", BodyGroups \o DirectGroups)}
MCPolicies == MCReloads \cup {Policy(TRUE, 1, "fail", BodyGroups \o DirectGroups),
                              Policy(FALSE, 1, "skip", RemoveGroups \o LengthGroups)}
=============================================================================
