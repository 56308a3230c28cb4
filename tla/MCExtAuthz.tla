---------------------------- MODULE MCExtAuthz ----------------------------
(* Instances of ExtAuthz for TLC.                                          *)
EXTENDS ExtAuthz

rule(action, dry) == [action |-> action, dryRun |-> dry]

group(engine, mode, match, rules) ==
  [engine |-> engine, mode |-> mode, match |-> match, rules |-> rules]

\* Each mode with a shadowed rule behind an enforced one, with and without a group
\* match, and a group of the other engine.
AllGroups ==
  {group("extAuthz", "firstMatch", FALSE, <<rule("allow", FALSE), rule("deny", TRUE)>>),
   group("extAuthz", "firstMatch", TRUE, <<rule("deny", FALSE)>>),
   group("extAuthz", "matchAll", TRUE, <<rule("allow", FALSE), rule("allow", TRUE)>>),
   group("extProc", "applyAll", FALSE, <<rule("allow", FALSE)>>)}

Policy(action, onError, dry, status, limit, groups) ==
  [action |-> action, allowOnError |-> onError, dryRun |-> dry, denyStatus |-> status,
   limit |-> limit, groups |-> groups]

\* Every default, error mode and pair of groups, enforced.
AllPolicies ==
  {Policy(a, e, FALSE, 403, 2, <<g, h>>) : a \in {"allow", "deny"}, e \in BOOLEAN,
     g \in AllGroups, h \in AllGroups}

One(dry) == <<group("extAuthz", "firstMatch", FALSE, <<rule("deny", dry)>>)>>

\* Policies that differ in every field handle() reads, to be swapped in mid-request.
SwapPolicies ==
  {Policy("allow", FALSE, FALSE, 429, 1, One(TRUE)),
   Policy("deny", TRUE, TRUE, 451, 1, One(FALSE))}

\* What LoadBytes lets through at the edges: a negative limit, the largest one, a deny
\* status that is no status, one that is not final, one that admits.
EdgePolicies ==
  {Policy("deny", FALSE, FALSE, 500, -1, One(FALSE)),
   Policy("allow", FALSE, FALSE, 403, Half - 1, One(FALSE)),
   Policy("deny", FALSE, FALSE, 42, 2, One(FALSE)),
   Policy("deny", FALSE, FALSE, 102, 2, One(FALSE)),
   Policy("deny", FALSE, FALSE, 200, 2, One(FALSE))}

CheckedPolicies == AllPolicies \cup SwapPolicies \cup EdgePolicies
=============================================================================
