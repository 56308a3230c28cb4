---------------------------- MODULE MCPolicyLoad ----------------------------
(* Instances of PolicyLoad for TLC: families of documents that differ from *)
(* a valid one in the fields one check of validate() or compile() reads.   *)
EXTENDS PolicyLoad

\* int64 as eight bits; the units grow as the real ones do.
MCHalf == 128
MCUnit == [s \in Range(SizeSuffixes) \cup {<<>>} |->
             CASE s = <<"k", "i", "b">> -> 4  [] s = <<"m", "i", "b">> -> 16
               [] s = <<"g", "i", "b">> -> 64 [] s = <<"k", "b">> -> 3
               [] s = <<"m", "b">> -> 9       [] OTHER -> 1]

\* An expression is named for the scope it needs and its type.
MCType == [e \in {"req bool", "resp bool", "req string", "resp string", "req int",
                  "req map", "req dyn", "resp dyn"} |->
             CASE e \in {"req bool", "resp bool"} -> "bool"
               [] e \in {"req string", "resp string"} -> "string"
               [] e = "req int" -> "int" [] e = "req map" -> "stringmap" [] OTHER -> "dyn"]
MCUses == [e \in DOMAIN MCType |->
             IF e \in {"resp bool", "resp string", "resp dyn"} THEN {"request", "response"}
             ELSE {"request", "facts"}]

SizeOf(n, letters) == [scalar |-> TRUE, num |-> n, letters |-> letters]

Doc(groups) ==
  [action |-> "deny", denyStatus |-> 403, allowOnError |-> FALSE, dryRun |-> FALSE,
   limit |-> SizeOf(1, <<>>), procLimit |-> SizeOf(1, <<>>), onBodyOverflow |-> "skip",
   level |-> "", format |-> "", excludeHeaders |-> <<>>, redactHeaders |-> <<{}>>,
   redactReveal |-> 0, redactQueryParams |-> <<>>, facts |-> TRUE, groups |-> groups]

GroupOf(name, engine, mode, phase, match, rules) ==
  [name |-> name, engine |-> engine, mode |-> mode, phase |-> phase, match |-> match,
   rules |-> rules]
RuleOf(name, match, validation, mutations) ==
  [name |-> name, match |-> match, validation |-> validation, mutations |-> mutations,
   dryRun |-> FALSE]

Proc(phase, rules) == GroupOf("proc", "extProc", "applyAll", phase, "", rules)

\* Every operation, known or not, with every mix of present, blank and absent fields.
Mutations ==
  [op : {"directResponse", "setHeader", "appendHeader", "removeHeader", "setBody", "setStatus",
         "drop"},
   name : {"", "h"}, value : {"", " ", "req string", "resp dyn"}, code : {"", "req int"},
   status : {0, 599, 600}, headers : {"", "req map"}, body : {"", "resp string"}]

OneMutation ==
  {Doc(<<Proc(ph, <<RuleOf("r", "req bool", <<>>, <<m>>)>>)>>) : ph \in Phases, m \in Mutations}

Op(o, name, value, code) ==
  [op |-> o, name |-> name, value |-> value, code |-> code,
   status |-> IF o = "directResponse" THEN 302 ELSE 0,
   headers |-> IF o = "directResponse" THEN "req map" ELSE "",
   body |-> IF o = "directResponse" THEN "req string" ELSE ""]

ValidOps ==
  {Op("directResponse", "", "", ""), Op("setHeader", "h", "req string", ""),
   Op("appendHeader", "h", "req dyn", ""), Op("removeHeader", "h", "", ""),
   Op("setBody", "", "resp string", ""), Op("setStatus", "", "", "req int")}

\* Two mutations, or two rules, that share texts and names.
TwoMutations ==
  {Doc(<<Proc(ph, <<RuleOf("r", "req bool", <<>>, <<m, n>>)>>)>>)
     : ph \in Phases, m \in ValidOps, n \in ValidOps}
  \cup {Doc(<<Proc(ph, <<RuleOf("r", "req bool", <<>>, <<m>>), RuleOf(name, match, <<>>, <<>>)>>)>>)
     : ph \in Phases, m \in ValidOps, name \in {"", "r", "s"},
       match \in {" ", "req string", "req dyn", "oops"}}

\* Groups of both engines with every wrong parameter, before and after one whose match
\* has the same text in the other scope.
Groups ==
  {GroupOf("g", e, m, ph, x, <<RuleOf("r", "req bool", v, <<>>)>>)
     : e \in {"extAuthz", "extProc", "other"}, m \in {"firstMatch", "matchAll", "applyAll"},
       ph \in {"", "requestBody", "responseHeaders"}, x \in {"", " ", "req bool", "resp bool"},
       v \in {<<>>, <<"allow">>, <<"deny">>, <<"other">>}}
Beside ==
  {GroupOf(name, "extProc", "firstMatch", "responseBody", "resp bool",
         <<RuleOf("r", "req bool", <<>>, <<>>)>>) : name \in {"h", "g"}}
TwoGroups ==
  {Doc(<<g, h>>) : g \in Groups, h \in Beside} \cup {Doc(<<h, g>>) : g \in Groups, h \in Beside}
  \cup {Doc(<<>>), Doc(<<Proc("requestBody", <<>>)>>),
        [Doc(<<CHOOSE h \in Beside : TRUE>>) EXCEPT !.facts = FALSE]}

\* Sizes and defaults.
Sizes1 ==
  [scalar : BOOLEAN, num : {-129, -128, -2, 0, 1, 2, 31, 32, 127, 128},
   letters : DOMAIN MCUnit \cup {<<"g", "b">>, <<"x">>}]
Defaults ==
  {[Doc(<<CHOOSE h \in Beside : TRUE>>) EXCEPT !.limit = s] : s \in Sizes1}
  \cup {[Doc(<<CHOOSE h \in Beside : TRUE>>) EXCEPT !.procLimit = s] : s \in Sizes1}
  \cup {[Doc(<<CHOOSE h \in Beside : TRUE>>) EXCEPT !.action = a, !.denyStatus = st,
           !.onBodyOverflow = o] : a \in {"", "allow", "other"}, st \in {0, 42}, o \in {"", "fail", "other"}}

MCDocuments == OneMutation \cup TwoMutations \cup TwoGroups \cup Defaults
=============================================================================
