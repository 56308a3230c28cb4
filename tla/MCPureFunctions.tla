-------------------------- MODULE MCPureFunctions --------------------------
(* Inputs for PureFunctions: every document, expression, pattern, request  *)
(* of a small size over letters chosen to meet every case of the code.     *)
EXTENDS PureFunctions

MCNames == <<"a", "true">>

\* The key True of YAML, beside the strings.
True  == [text |-> "true", type |-> "bool"]
Keys  == {String("a"), String("true"), True}
Clear == {K \in SUBSET Keys : ~({String("true"), True} \subseteq K)}

Maps(Ks, S) == {Map(ks) : ks \in UNION {[K -> S] : K \in Ks}}
Lists(S)    == {List(l) : l \in BoundedSeq(S, 2)}
Clashing    == Map([k \in {String("true"), True} |-> IF k = True THEN Leaf(1) ELSE Leaf(2)])
Trees       == {Leaf(1), Leaf(2), Clashing} \cup Maps(Clear, {Leaf(1)}) \cup Lists({Leaf(1)})
MCDocuments == Maps(Clear, Trees) \cup Lists(Trees)
                 \cup Maps(SUBSET Keys \ Clear, {Leaf(1), Leaf(2), List(<<Leaf(1)>>), Clashing})
MCExpressions ==
  BoundedSeq({Key("a"), Key("true"), Index(0), Index(1), Index(-1), Index(-2), Wildcard,
              Recursive("a")}, 2)

Lexeme(t) == [t |-> t]
MCLexings ==
  {l \in BoundedSeq({Lexeme("$"), Lexeme("."), [t |-> "name", name |-> "a"], Lexeme("["),
                     [t |-> "[]", atoi |-> TRUE, step |-> Index(0)],
                     [t |-> "[]", atoi |-> FALSE]}, 5) :
     \A i \in 1..Len(l) - 1 : ~(l[i].t = "name" /\ l[i + 1].t = "name")}

MCClass == [c \in {"[ab]", "[^a]", "[b-a]"} |->
              CASE c = "[ab]" -> {"a", "b"} [] c = "[^a]" -> {"b", "/", ".", "newline"} [] OTHER -> {}]
MCPatterns == BoundedSeq({"*", "?", "/", "a", "[^a]"}, 4)
                \cup {g \in BoundedSeq({"*", "a", ".", "[", "[ab]", "[b-a]"}, 3) :
                        \A i, j \in DOMAIN g : g[i] = "[" /\ i < j => g[j] \notin DOMAIN MCClass}
MCStrings == BoundedSeq({"a", "b", "/", "newline"}, 3) \cup BoundedSeq({"a", ".", "["}, 2)

MCWords == {"?", "&", ",", " ", "*", "x-forwarded-for", "x-real-ip", "token", "content-type", "page",
            "s", "e", "c", "r", "t", "j", "v", "p", "h", "x", "/", "=", ";", ":", "1", "2", "3", "4", "9",
            "GET", "https", ":status", "503"} \cup RequestPseudo

Field(name, words) == [key |-> name, value |-> Text(words)]
Secret == Field(Canonical(Letter("token")), <<"s", "e", "c", "r">>)
HeaderChoices ==
  {Field(Letter("x-forwarded-for"), v) :
     v \in {<<>>, <<"1">>, <<"1", " ", ",", "2">>, <<",", "1">>, <<" ", "1", ",", "2", ",", "3">>}}
  \cup {Field(Letter("x-real-ip"), v) : v \in {<<" ", "4">>, <<" ">>}}
  \cup {Secret, Field(Letter("token"), <<"s">>), Field(Letter("token"), <<>>),
        [key |-> Letter("content-type"), value |-> <<Canonical(Letter("j"))>>]}
QueryChoices ==
  {<<Letter("token")>>, <<Canonical(Letter("token"))>>,
   <<[word |-> "token", form |-> "escaped"]>>, <<[word |-> "token", form |-> "bad"]>>,
   <<Letter("page")>>, <<>>}
Pairs == {n \o v : n \in QueryChoices,
                   v \in {<<>>, Text(<<"=">>), Text(<<"=", "v", "=">>),
                          Text(<<"=">>) \o <<[word |-> "&", form |-> "escaped"]>>,
                          Text(<<"=", "v", ";">>)}}

Client(path, query, authority, headers) ==
  [method |-> Text(<<"GET">>), scheme |-> Text(<<"https">>), authority |-> Text(authority),
   path |-> path, query |-> query, headers |-> headers, absolute |-> FALSE, peer |-> Text(<<"9", ":", "1">>),
   body |-> "json"]
Plain == Text(<<"/", "p">>)

MCRequested ==
  {Client(Plain, <<>>, <<"h">>, hs) : hs \in BoundedSeq(HeaderChoices, 3)}
  \cup {Client(Plain, Join(ps, Text(<<"&">>)), <<"h">>, <<Secret>>) : ps \in BoundedSeq(Pairs, 2)}
  \cup {[Client(path, Text(<<"page">>), a, <<Secret>>) EXCEPT !.body = b, !.absolute = TRUE] :
          path \in {Plain, Plain \o <<[word |-> "?", form |-> "escaped"]>>},
          a \in {<<"h">>, <<"h", ":", "1">>, <<"h", ":", "1", ":", "2">>},
          b \in {"empty", "yaml", "neither"}}

Sent(key, value, raw) == [key |-> key, value |-> value, rawValue |-> raw]
MCResponses ==
  BoundedSeq({Sent(Letter(":status"), <<[word |-> "503", form |-> "number"]>>, <<>>),
              Sent(Letter(":status"), Text(<<"x">>), <<>>),
              Sent(Letter("token"), <<>>, Text(<<"s", "e", "c">>)),
              Sent(Canonical(Letter("token")), Text(<<"t">>), <<>>),
              Sent(Letter("page"), <<>>, <<>>)}, 3)

\* The name as it is, in another case with spaces round it, and a blank entry.
Spelled == Text(<<" ">>) \o <<Canonical(Letter("token"))>> \o Text(<<" ">>)
MCIntHalf == 16
Logging(exclude, redact, reveal, params) ==
  [excludeHeaders |-> exclude, redactHeaders |-> redact, redactReveal |-> reveal,
   redactQueryParams |-> params, logBody |-> TRUE]
MCLoggings ==
  {Logging(<<>>, <<Spelled>>, n, <<Text(<<" ">>), Spelled>>) : n \in {-1, 1, 2, 3, 9}}
  \cup {Logging(<<Spelled>>, <<Text(<<"token">>), Text(<<"content-type">>)>>, 1, <<>>)}

=============================================================================
