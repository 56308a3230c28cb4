---------------------------- MODULE PolicyConfig ----------------------------
(***************************************************************************)
(* The policy document and what LoadBytes does with it before anything is  *)
(* compiled: byte sizes, applyDefaults, validate.                          *)
(*                                                                         *)
(* Abstractions.  Names, expressions and header names are strings, "" the  *)
(* absent and " " the blank one.  An optional value (a list, a validation  *)
(* block) is a sequence: <<>> when nil.  A byte size as written is a       *)
(* number and the letters after it, lower-cased.  Which error validate     *)
(* reports is left out, only that it does.                                 *)
(***************************************************************************)
EXTENDS PolicyShape, Loops

CONSTANTS
  Half,   \* 2^63 scaled down: int64 is -Half..Half-1
  Unit    \* Unit[s]: the multiplier of suffix s, scaled down with Half

\* The document as the YAML parser leaves it: Config and the types in it.
Size     == [scalar : BOOLEAN, num : Int, letters : Seq(STRING)]
Mutation == [op : STRING, name : STRING, value : STRING, code : STRING, status : Int,
             headers : STRING, body : STRING]
Rule     == [name : STRING, match : STRING, validation : Seq(STRING),
             mutations : Seq(Mutation), dryRun : BOOLEAN]
Group    == [name : STRING, engine : STRING, mode : STRING, phase : STRING, match : STRING,
             rules : Seq(Rule)]
Document == [action : STRING, denyStatus : Int, allowOnError : BOOLEAN, dryRun : BOOLEAN,
             limit : Size, procLimit : Size, onBodyOverflow : STRING,
             level : STRING, format : STRING, excludeHeaders : Seq(SUBSET STRING),
             redactHeaders : Seq(SUBSET STRING), redactReveal : Int,
             redactQueryParams : Seq(SUBSET STRING), facts : BOOLEAN, groups : Seq(Group)]

\* The order in which UnmarshalYAML tries the suffixes.
SizeSuffixes == <<<<"k", "i", "b">>, <<"m", "i", "b">>, <<"g", "i", "b">>,
              <<"k", "b">>, <<"m", "b">>, <<"b">>>>

ASSUME UnitAssumption ==
  /\ Half \in Nat \ {0}
  /\ DOMAIN Unit = Range(SizeSuffixes) \cup {<<>>} /\ \A s \in DOMAIN Unit : Unit[s] \in 1..Half - 1

Int64(x) == ((x + Half) % (2 * Half)) - Half

\* Slip: the suffixes are tried from the shortest.
SuffixOfShortest(letters) ==
  LET cut == {n \in DOMAIN SizeSuffixes : HasSuffix(letters, SizeSuffixes[n])}
  IN  IF cut = {} THEN <<>> ELSE SizeSuffixes[CHOOSE n \in cut : \A m \in cut : n >= m]

\* The first case of the switch that applies.
SuffixOf(letters) ==
  LET cut == {n \in DOMAIN SizeSuffixes : HasSuffix(letters, SizeSuffixes[n])}
  IN  IF cut = {} THEN <<>> ELSE SizeSuffixes[CHOOSE n \in cut : \A m \in cut : n <= m]

\* ParseInt takes what the suffix leaves: a number in range and no letter.
ParsesSize(t) ==
  t.scalar /\ t.num \in -Half..Half - 1 /\ SuffixOf(t.letters) = t.letters

UnmarshalSize(t) == Int64(t.num * Unit[SuffixOf(t.letters)])

Or(v, zero, default) == IF v = zero THEN default ELSE v

applyDefaults(c) ==
  [c EXCEPT !.action = Or(@, "", "deny"), !.denyStatus = Or(@, 0, 403),
            !.limit = Or(@, 0, Unit[<<"m", "i", "b">>]),
            !.procLimit = Or(@, 0, Unit[<<"m", "i", "b">>]),
            !.onBodyOverflow = Or(@, "", "fail"),
            !.level = Or(@, "", "info"), !.format = Or(@, "", "json"),
            !.excludeHeaders = Or(@, <<>>, <<{"cookie", "set-cookie"}>>),
            !.redactHeaders = Or(@, <<>>, <<{"authorization", "proxy-authorization",
                                             "x-api-key", "x-auth-token"}>>),
            !.redactReveal = Or(@, 0, 6),
            !.redactQueryParams = Or(@, <<>>, <<{"access_token", "id_token", "code"}>>)]

-----------------------------------------------------------------------------
(* validate().                                                             *)

Blank(s) == s \in {"", " "}

\* No name is missing or given twice.
NamesOK(s) == \A i \in DOMAIN s : s[i].name # "" /\ \A j \in 1..i - 1 : s[j].name # s[i].name

ValidMutation(m, phase) ==
  \/ /\ m.op = "directResponse" /\ m.status \in 1..599
     /\ ~Blank(m.headers) /\ ~Blank(m.body)
     /\ m.name = "" /\ m.value = "" /\ m.code = "" /\ phase \in ResponsePhases
  \/ m.op \in {"setHeader", "appendHeader"} /\ ~Blank(m.name) /\ ~Blank(m.value) /\ m.code = ""
  \/ m.op = "removeHeader" /\ ~Blank(m.name) /\ m.value = "" /\ m.code = ""
  \/ m.op = "setBody" /\ ~Blank(m.value) /\ m.name = "" /\ m.code = "" /\ phase \in Bodies
  \/ /\ m.op = "setStatus" /\ ~Blank(m.code) /\ m.name = "" /\ m.value = ""
     /\ phase \in ResponsePhases

ValidAuthzRule(r, g) ==
  /\ r.validation # <<>> /\ r.mutations = <<>>
  /\ r.validation[1] \in {"allow", "deny"}
  /\ g.mode = "matchAll" => r.validation[1] = "allow"

\* Slip: a directResponse may come with other mutations.
ValidProcRuleMixed(r, g) ==
  r.validation = <<>> /\ \A m \in DOMAIN r.mutations : ValidMutation(r.mutations[m], g.phase)

ValidProcRule(r, g) ==
  LET ops == {r.mutations[m].op : m \in DOMAIN r.mutations} IN
  /\ r.validation = <<>>
  /\ "directResponse" \in ops => Len(r.mutations) <= 1
  /\ \A m \in DOMAIN r.mutations : ValidMutation(r.mutations[m], g.phase)

ValidGroup(g) ==
  /\ g.engine \in {"extAuthz", "extProc"}
  /\ g.mode \in {"firstMatch", IF g.engine = "extAuthz" THEN "matchAll" ELSE "applyAll"}
  /\ IF g.engine = "extProc" THEN g.phase \in Phases ELSE g.phase = ""
  /\ g.rules # <<>> /\ NamesOK(g.rules)
  /\ \A i \in DOMAIN g.rules :
       /\ ~Blank(g.rules[i].match)
       /\ IF g.engine = "extAuthz" THEN ValidAuthzRule(g.rules[i], g) ELSE ValidProcRule(g.rules[i], g)

validate(c) ==
  /\ c.action \in {"allow", "deny"} /\ c.onBodyOverflow \in {"skip", "fail"}
  /\ c.groups # <<>> /\ NamesOK(c.groups)
  /\ \A g \in DOMAIN c.groups : ValidGroup(c.groups[g])
=============================================================================
