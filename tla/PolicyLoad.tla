----------------------------- MODULE PolicyLoad -----------------------------
(***************************************************************************)
(* policy.LoadFile: decode, applyDefaults, validate, facts.New, and        *)
(* compile() with celenv's program cache, down to the programs that        *)
(* evalGroup, EvaluateProc and resolveMutations dereference.               *)
(*                                                                         *)
(* Abstractions.  A document is what ExpandEnv and the YAML parser leave   *)
(* of the file.  A CEL expression is the set of variables it mentions and  *)
(* the type the checker infers, "dyn" where it cannot; one without an      *)
(* entry does not parse.  A program is the expression and the environment  *)
(* it was compiled in.  The facts section is whether facts.New accepts it. *)
(***************************************************************************)
EXTENDS PolicyConfig

CONSTANTS
  Documents,   \* the documents a file may hold
  Uses,        \* Uses[e]: the variables expression e mentions
  Type         \* Type[e]: its output type

Kinds  == {"bool", "string", "int", "stringmap"}
Errors == {"no file", "bad yaml", "invalid", "bad facts", "bad expression"}

ASSUME DocumentAssumption == Documents \subseteq Document
ASSUME ExprAssumption ==
  /\ DOMAIN Uses = DOMAIN Type
  /\ \A e \in DOMAIN Uses : Uses[e] \subseteq {"request", "facts", "response"}
                            /\ Type[e] \in Kinds \cup {"dyn"}

VARIABLES
  pc,      \* the step LoadFile is at, or how it ended
  doc,     \* the document
  c,       \* the Config being built
  cache,   \* Env.cache
  next,    \* how many expressions compile() has compiled
  progs    \* the program fields of c: address |-> program

vars == <<pc, doc, c, cache, next, progs>>

TypeOK ==
  /\ pc \in {"read", "unmarshal", "applyDefaults", "validate", "new", "compile", "loaded"} \cup Errors
  /\ pc \notin {"read", "unmarshal", "no file", "bad yaml"} =>
       {c.limit, c.procLimit} \subseteq -Half..Half - 1
  /\ next \in Nat
  /\ \A k \in DOMAIN cache : cache[k].src \in DOMAIN Uses
  /\ \A a \in DOMAIN progs : progs[a].src \in DOMAIN Uses

Init ==
  /\ pc = "read" /\ doc \in Documents /\ c = <<>>
  /\ cache = <<>> /\ next = 0 /\ progs = <<>>

-----------------------------------------------------------------------------
(* Up to compile().                                                        *)

\* The step goes on to label if ok, else LoadFile returns the error.
Pass(ok, label, error) == pc' = IF ok THEN label ELSE error

ReadFile ==
  /\ pc = "read"
  /\ \E ok \in BOOLEAN : Pass(ok, "unmarshal", "no file")
  /\ UNCHANGED <<doc, c, cache, next, progs>>

Unmarshal ==
  LET ok == ParsesSize(doc.limit) /\ ParsesSize(doc.procLimit) IN
  /\ pc = "unmarshal"
  /\ Pass(ok, "applyDefaults", "bad yaml")
  /\ c' = IF ok THEN [doc EXCEPT !.limit = UnmarshalSize(@), !.procLimit = UnmarshalSize(@)]
          ELSE c
  /\ UNCHANGED <<doc, cache, next, progs>>

ApplyDefaults ==
  /\ pc = "applyDefaults"
  /\ c' = applyDefaults(c) /\ pc' = "validate"
  /\ UNCHANGED <<doc, cache, next, progs>>

Validate ==
  /\ pc = "validate"
  /\ Pass(validate(c), "new", "invalid")
  /\ UNCHANGED <<doc, c, cache, next, progs>>

\* celenv.New gives an empty cache, facts.New a registry or an error.
NewEnv ==
  /\ pc = "new"
  /\ Pass(c.facts, "compile", "bad facts") /\ cache' = <<>>
  /\ UNCHANGED <<doc, c, next, progs>>

-----------------------------------------------------------------------------
(* compile() and Env.compile.                                              *)

\* An expression of the document: <<g, 0, 0>> is group g, <<g, i, 0>> its rule i and
\* <<g, i, m>> that rule's mutation m.
Site(at, field, src, scope, kind) ==
  [at |-> <<at[1], at[2], at[3], field>>, src |-> src, scope |-> scope, kind |-> kind]

ScopeOf(g) ==
  IF g.engine = "extAuthz" \/ g.phase \in RequestPhases THEN "request" ELSE "response"

\* Slip: a header appended to is taken for one removed.
MutationSitesNoAppend(m, at, scope) ==
  CASE m.op = "directResponse" ->
         <<Site(at, "headers", m.headers, scope, "stringmap"),
           Site(at, "body", m.body, scope, "string")>>
    [] m.op \in {"setHeader", "setBody"} -> <<Site(at, "value", m.value, scope, "string")>>
    [] m.op = "setStatus" -> <<Site(at, "code", m.code, scope, "int")>>
    [] OTHER -> <<>>

MutationSites(m, at, scope) ==
  CASE m.op = "directResponse" ->
         <<Site(at, "headers", m.headers, scope, "stringmap"),
           Site(at, "body", m.body, scope, "string")>>
    [] m.op \in {"setHeader", "appendHeader", "setBody"} ->
         <<Site(at, "value", m.value, scope, "string")>>
    [] m.op = "setStatus" -> <<Site(at, "code", m.code, scope, "int")>>
    [] OTHER -> <<>>

RuleSites(r, g, i, scope) ==
  <<Site(<<g, i, 0>>, "match", r.match, scope, "bool")>>
  \o Flatten([m \in 1..Len(r.mutations) |-> MutationSites(r.mutations[m], <<g, i, m>>, scope)])

GroupSites(grp, g) ==
  (IF Blank(grp.match) THEN <<>>
   ELSE <<Site(<<g, 0, 0>>, "match", grp.match, ScopeOf(grp), "bool")>>)
  \o Flatten([i \in 1..Len(grp.rules) |-> RuleSites(grp.rules[i], g, i, ScopeOf(grp))])

\* The expressions in the order compile() meets them.
Sites(cfg) == Flatten([g \in 1..Len(cfg.groups) |-> GroupSites(cfg.groups[g], g)])

\* The variables each environment declares.
Declared(scope) ==
  IF scope = "response" THEN {"request", "facts", "response"} ELSE {"request", "facts"}

Compiles(s) ==
  /\ s.src \in DOMAIN Uses /\ Uses[s.src] \subseteq Declared(s.scope)
  /\ Type[s.src] \in {s.kind, "dyn"}

\* Slip: programs are shared between the environments.
cacheKeyUnscoped(s) == <<s.kind, s.src>>

cacheKey(s) == <<s.scope, s.kind, s.src>>

AtSite == Sites(c)[next + 1]
HasSite == pc = "compile" /\ next < Len(Sites(c))

\* The assignment f[k] = v.
Put(f, k, v) == [x \in DOMAIN f \cup {k} |-> IF x = k THEN v ELSE f[x]]

CacheHit ==
  /\ HasSite /\ cacheKey(AtSite) \in DOMAIN cache
  /\ progs' = Put(progs, AtSite.at, cache[cacheKey(AtSite)])
  /\ next' = next + 1
  /\ UNCHANGED <<pc, doc, c, cache>>

CacheMiss ==
  LET prog == [src |-> AtSite.src, scope |-> AtSite.scope] IN
  /\ HasSite /\ cacheKey(AtSite) \notin DOMAIN cache /\ Compiles(AtSite)
  /\ cache' = Put(cache, cacheKey(AtSite), prog)
  /\ progs' = Put(progs, AtSite.at, prog)
  /\ next' = next + 1
  /\ UNCHANGED <<pc, doc, c>>

CompileFails ==
  /\ HasSite /\ cacheKey(AtSite) \notin DOMAIN cache /\ ~Compiles(AtSite)
  /\ pc' = "bad expression"
  /\ UNCHANGED <<doc, c, cache, next, progs>>

Compiled ==
  /\ pc = "compile" /\ ~HasSite
  /\ pc' = "loaded"
  /\ UNCHANGED <<doc, c, cache, next, progs>>

Next ==
  \/ ReadFile \/ Unmarshal \/ ApplyDefaults \/ Validate \/ NewEnv
  \/ CacheHit \/ CacheMiss \/ CompileFails \/ Compiled

Spec == Init /\ [][Next]_vars

-----------------------------------------------------------------------------
(* What the evaluators do with a loaded policy.                            *)

\* The fields resolveMutations evaluates for an operation, with the type it asks for.
Evaluated(op) ==
  CASE op = "directResponse" -> {<<"headers", "stringmap">>, <<"body", "string">>}
    [] op \in {"setHeader", "appendHeader", "setBody"} -> {<<"value", "string">>}
    [] op = "setStatus" -> {<<"code", "int">>}
    [] OTHER -> {}

\* The variables evalGroup and EvaluateProc supply.
Supplied(g) ==
  {"request", "facts"} \cup (IF g.engine = "extProc" /\ g.phase \in ResponsePhases
                             THEN {"response"} ELSE {})

\* The programs they dereference, with the result type they ask for.
Dereferenced ==
  UNION {LET grp == c.groups[g] IN
         {[g |-> g, at |-> <<g, 0, 0, "match">>, src |-> grp.match, kind |-> "bool"]
            : x \in {y \in {1} : ~Blank(grp.match)}}
         \cup {[g |-> g, at |-> <<g, i, 0, "match">>, src |-> grp.rules[i].match, kind |-> "bool"]
                 : i \in DOMAIN grp.rules}
         \cup UNION {UNION {{[g |-> g, at |-> <<g, i, m, f[1]>>,
                              src |-> grp.rules[i].mutations[m][f[1]], kind |-> f[2]]
                               : f \in Evaluated(grp.rules[i].mutations[m].op)}
                             : m \in DOMAIN grp.rules[i].mutations}
                      : i \in DOMAIN grp.rules}
         : g \in DOMAIN c.groups}

-----------------------------------------------------------------------------
(* Properties.                                                             *)

\* Every program the evaluators dereference was compiled by compile(), from the text of
\* its own field; a group with a match keeps its filter.
ProgramsPresent ==
  pc = "loaded" =>
    \A x \in Dereferenced : x.at \in DOMAIN progs /\ progs[x.at].src = x.src

\* No program reads a variable its evaluator does not supply, and one the checker could
\* type gives the type its evaluator asks for, although the cache shares programs between
\* groups of both engines, all phases and all fields.
ProgramsFit ==
  pc = "loaded" =>
    \A x \in {y \in Dereferenced : y.at \in DOMAIN progs} :
      /\ Uses[progs[x.at].src] \subseteq Supplied(c.groups[x.g])
      /\ Type[progs[x.at].src] \in {x.kind, "dyn"}

\* The Config as the engines see it.
HasMatch(g) == <<g, 0, 0, "match">> \in DOMAIN progs

AuthzRule(r) ==
  [action |-> IF r.validation = <<>> THEN "" ELSE r.validation[1], dryRun |-> r.dryRun]

AuthzGroup(grp, match) ==
  [engine |-> grp.engine, mode |-> grp.mode, match |-> match,
   rules |-> [i \in DOMAIN grp.rules |-> AuthzRule(grp.rules[i])]]

AuthzView ==
  [action |-> c.action, allowOnError |-> c.allowOnError, dryRun |-> c.dryRun,
   denyStatus |-> c.denyStatus, limit |-> c.limit,
   groups |-> [g \in DOMAIN c.groups |-> AuthzGroup(c.groups[g], HasMatch(g))]]

ProcView ==
  [dryRun |-> c.dryRun, limit |-> c.procLimit, onBodyOverflow |-> c.onBodyOverflow,
   groups |-> [g \in DOMAIN c.groups |-> [c.groups[g] EXCEPT !.match = HasMatch(g)]]]

\* LoadBytes lets nothing through that the engines do not take for granted: ExtAuthz and
\* ExtProc assume these predicates of their policies.
LoadedFitsEngines == pc = "loaded" => AuthzPolicy(AuthzView, Half) /\ ProcPolicy(ProcView)

\* The texts of a size that mean a number of bytes.
Means(t) == t.scalar /\ t.num \in -Half..Half - 1 /\ t.letters \in DOMAIN Unit

\* UnmarshalYAML refuses no size written with a suffix it knows, and a loaded limit is
\* the number of bytes written if an int64 holds that: only what does not fit wraps, and
\* only zero is replaced by the default.
SizesExact ==
  LET sizes == {<<doc.limit, c.limit>>, <<doc.procLimit, c.procLimit>>} IN
  /\ pc = "bad yaml" => ~Means(doc.limit) \/ ~Means(doc.procLimit)
  /\ pc = "loaded" =>
       \A x \in sizes :
         LET bytes == x[1].num * Unit[x[1].letters]
         IN  bytes \in -Half..Half - 1 /\ bytes # 0 => x[2] = bytes
=============================================================================
