--------------------------- MODULE TextFunctions ---------------------------
(***************************************************************************)
(* The pure functions of the validator on texts, called one at a time,     *)
(* each compared with a definition of what it should give that does not    *)
(* follow the code: JSONPath expressions and glob patterns, what a policy  *)
(* reads of a request and a response, and what the access log shows.       *)
(***************************************************************************)
EXTENDS PathSyntax, Glob, AccessLog

CONSTANTS Lexings,      \* JSONPath expressions as lexemes
          Patterns,     \* glob patterns
          Strings,      \* what they are matched against
          Requested,    \* clients' requests
          Responses,    \* upstreams' responses: headers as they come from Envoy
          Loggings      \* logging sections of a policy

ASSUME LexingsAssumption == \A l \in Lexings : l \in Seq(Range(l))

\* A "[" that stands for itself has no "]" after it.
ASSUME GlobAssumption ==
  /\ \A t \in Patterns \cup Strings : t \in Seq(Range(t))
  /\ \A g \in Patterns : \A i, j \in DOMAIN g :
       g[i] = "[" /\ i < j => g[j] \notin {"]"} \cup DOMAIN Class

\* Envoy and net/http take the Host header for :authority, and what is left of
\* "?" for the path; a client's own headers are not pseudo-headers.
IsClient(c) ==
  /\ c \in [method : Seq(Letters), scheme : Seq(Letters), authority : Seq(Letters),
            path : Seq(Letters), query : Seq(Letters), peer : Seq(Letters),
            headers : Seq([key : HeaderNames, value : Seq(Letters)]),
            absolute : BOOLEAN, body : {"empty", "json", "yaml", "neither"}]
  /\ \A i \in 1..Len(c.path) : c.path[i] # Letter("?")
  /\ \A i \in 1..Len(c.headers) : c.headers[i].key.word \notin RequestPseudo \cup {"host"}

ASSUME RequestedAssumption == \A c \in Requested : IsClient(c)

\* Envoy sets one of the two fields of a value.
IsResponse(hs) ==
  /\ hs \in Seq([key : HeaderNames, value : Seq(Letters), rawValue : Seq(Letters)])
  /\ \A i \in 1..Len(hs) : hs[i].value = <<>> \/ hs[i].rawValue = <<>>

ASSUME ResponsesAssumption == \A hs \in Responses : IsResponse(hs)

ASSUME LoggingsAssumption ==
  Loggings \subseteq [excludeHeaders : Seq(Seq(Letters)), redactHeaders : Seq(Seq(Letters)),
                      redactQueryParams : Seq(Seq(Letters)), redactReveal : Int, logBody : BOOLEAN]

VARIABLE call   \* the call that is being answered

Idle == [op |-> "none"]
TextInit == call = Idle

Parse == /\ call = Idle
         /\ \E l \in Lexings : call' = [op |-> "compile", expr |-> l, out |-> Compile(l)]

Match == /\ call = Idle
         /\ \E g \in Patterns :
              call' = [op |-> "glob", pattern |-> g, out |-> {s \in Strings : matchGlob(s, g)}]

\* One client's request as each engine hands it to the policy and logs it.
See == /\ call = Idle
       /\ \E c \in Requested, raw \in BOOLEAN, lg \in Loggings :
            LET authz == AuthzRequest(HTTPRequest(c))
                proc  == [parseRequestHeaders(Wire(c, raw)) EXCEPT !.Body = c.body] IN
            call' = [op |-> "request", client |-> c, lg |-> lg, query |-> authz.RawQuery,
                     authz |-> buildRequestVar(authz), proc |-> buildRequestVar(proc),
                     log |-> RequestAttrs(authz, lg), procLog |-> RequestAttrs(proc, lg)]

SeeResponse == /\ call = Idle
               /\ \E hs \in Responses, lg \in Loggings :
                    LET resp == parseResponseHeaders(hs) IN
                    call' = [op |-> "response", hs |-> hs, lg |-> lg,
                             var |-> buildResponseVar(resp), log |-> ResponseAttrs(resp, lg)]

Return == call # Idle /\ call' = Idle

TextNext == Parse \/ Match \/ See \/ SeeResponse \/ Return
TextSpec == TextInit /\ [][TextNext]_call

-----------------------------------------------------------------------------
\* What a run of one to three lexemes stands for: the comment of the package, and a name
\* without its dot, the shorthand that the comment in Compile's loop allows.
Denotes(p) ==
  LET t == [i \in DOMAIN p |-> p[i].t] IN
  CASE t = <<".", ".", "name">> -> {Recursive(p[3].name)}
    [] t = <<".", "name">>      -> {Key(p[2].name)}
    [] t = <<"name">>           -> {Key(p[1].name)}
    [] t = <<"[]">>             -> IF p[1].atoi THEN {p[1].step} ELSE {}
    [] OTHER                    -> {}

\* A step of D, then a sequence of Q.
Followed(D, Q) == {<<s>> \o r : s \in D, r \in Q}

\* The steps that the lexemes from i on stand for.
Derived(l) ==
  LET from[i \in 1..Len(l) + 1] ==
        IF i > Len(l) THEN {<<>>}
        ELSE UNION {Followed(Denotes(SubSeq(l, i, j)), from[j + 1]) : j \in i..Len(l)}
  IN  from

\* Compile accepts exactly the expressions the grammar of jsonpath.go derives,
\* with the steps it derives for them: no order of the tests in its loop
\* hides an expression, and none can be read in two ways.
PathsParsed ==
  call.op = "compile" =>
    call.out = LET l == call.expr IN
               IF l = <<>> THEN {}
               ELSE Derived(l)[1] \cup (IF l[1].t = "$" THEN Derived(l)[2] ELSE {})

-----------------------------------------------------------------------------
\* What a character of a pattern stands for at least.  The stars of a run pair off from
\* the left: the first of a pair stands for anything on one line and the second for
\* nothing, and one that is left over for anything within a segment.
InRun(g, i) == i - Max({0} \cup {j \in 1..i : g[j] # "*"})

Fits(g, i, part) ==
  LET second == InRun(g, i) % 2 = 0
      first  == ~second /\ i < Len(g) /\ g[i + 1] = "*" IN
  CASE g[i] = "*" /\ second           -> part = <<>>
    [] g[i] = "*" /\ first            -> \A j \in DOMAIN part : part[j] # "newline"
    [] g[i] = "*" /\ ~second /\ ~first -> \A j \in DOMAIN part : part[j] # "/"
    [] g[i] = "?"            -> Len(part) = 1 /\ part[1] # "/"
    [] g[i] \in DOMAIN Class -> Len(part) = 1 /\ part[1] \in Class[g[i]]
    [] OTHER                 -> part = <<g[i]>>

\* What the comment of celenv/strings.go and README.md add to that: "?" stands for a
\* slash too, and the first star of a pair for anything at all.
MayFit(g, i, part) ==
  \/ Fits(g, i, part)
  \/ g[i] = "?" /\ Len(part) = 1
  \/ g[i] = "*" /\ InRun(g, i) % 2 = 1 /\ i < Len(g) /\ g[i + 1] = "*"

\* A string matches a pattern when it can be cut into one part per character of
\* the pattern.
Matches(s, g) ==
  \E cut \in [0..Len(g) -> 0..Len(s)] :
     /\ cut[0] = 0 /\ cut[Len(g)] = Len(s)
     /\ \A i \in 1..Len(g) :
          cut[i - 1] <= cut[i] /\ Fits(g, i, SubSeq(s, cut[i - 1] + 1, cut[i]))

MayMatch(s, g) ==
  \E cut \in [0..Len(g) -> 0..Len(s)] :
     /\ cut[0] = 0 /\ cut[Len(g)] = Len(s)
     /\ \A i \in 1..Len(g) :
          cut[i - 1] <= cut[i] /\ MayFit(g, i, SubSeq(s, cut[i - 1] + 1, cut[i]))

\* glob(s, pattern) holds for the strings the pattern describes and for no others: "*"
\* stays within a path segment, "**" crosses slashes, "?" is one character, a class one
\* of its members, and everything else stands for itself whatever it means to the regexp
\* package.  Whether "?" takes a slash and "**" a newline, where the code and the comment
\* above it differ, is left open.
GlobMatches ==
  call.op = "glob" =>
    /\ {s \in Strings : Matches(s, call.pattern)} \subseteq call.out
    /\ call.out \subseteq {s \in Strings : MayMatch(s, call.pattern)}

-----------------------------------------------------------------------------
\* A policy reads the same request whichever engine it runs in: method,
\* headers, parameters and body; the forwarded address, and the path and the
\* host where nothing is escaped and no port is given.
EnginesSeeSame ==
  call.op = "request" =>
    LET a == call.authz  p == call.proc  c == call.client
        names == {Letter("x-forwarded-for"), Letter("x-real-ip")} IN
    /\ a.method = p.method /\ a.body = p.body
    /\ a.headers = p.headers /\ a.header = p.header
    /\ a.queries = p.queries /\ a.query = p.query
    /\ a.remoteIp = p.remoteIp \/ \A n \in names \cap DOMAIN a.header : a.header[n] = <<>>
    /\ a.path = p.path \/ \E i \in DOMAIN c.path : c.path[i].form # "lower"
    /\ a.host = p.host \/ IndexByte(c.authority, ":") # 0

\* The first-value maps and the all-values maps never disagree: firstOr gives
\* the same over either, and a value it finds is one that has() reports.
BucketsAgree ==
  call.op = "request" =>
    \A v \in {call.authz, call.proc} :
      /\ \A n \in DOMAIN v.headers :
           /\ firstOr(v.header, n, <<>>) = firstOrList(v.headers, n, <<>>)
           /\ firstOr(v.header, n, <<>>) # <<>> => has(n, v.headers)
      /\ \A n \in DOMAIN v.queries :
           /\ firstOr(v.query, n, <<>>) = firstOrList(v.queries, n, <<>>)
           /\ firstOr(v.query, n, <<>>) # <<>> => has(n, v.queries)

\* A response variable has every value the upstream sent, in order, under the
\* name in lower case, and the status that was sent, or 200.
ResponseSeen ==
  call.op = "response" =>
    LET sent(n) == Flatten([i \in 1..Len(call.hs) |->
                     When(Lower(call.hs[i].key) = n, <<call.hs[i].value \o call.hs[i].rawValue>>)])
        st == sent(Letter(":status")) IN
    /\ \A n \in {Lower(call.hs[i].key) : i \in DOMAIN call.hs} \ {Letter(":status")} :
         call.var.headers[n] = sent(n)
    /\ call.var.status =
         IF st = <<>> \/ st[Len(st)] = <<>> \/ st[Len(st)][1].form # "number" THEN "200"
         ELSE st[Len(st)][1].word

\* The variables given to the expressions are faithful to what was sent: those of the two
\* engines, those of one request, and those of the response.
VariablesFaithful == EnginesSeeSame /\ BucketsAgree /\ ResponseSeen

Listed(xs, name) == name # <<>> /\ \E x \in Range(xs) : TrimSpace(ToLower(x)) = name

\* Stars in place of all but the first reveal letters, and of a single value that is
\* shorter than twice as many.
Masked(shown, whole, reveal, single) ==
  /\ Len(shown) = Len(whole)
  /\ \A i \in DOMAIN whole :
       \/ shown[i] = Letter("*")
       \/ shown[i] = whole[i] /\ i <= reveal /\ (single => 2 * reveal <= Len(whole))

HeadersMasked(headers, logged, lg) ==
  \A n \in DOMAIN headers :
    LET whole == Join(headers[n], CommaSpace) IN
    IF Listed(lg.excludeHeaders, <<n>>) THEN n \notin DOMAIN logged
    ELSE IF Listed(lg.redactHeaders, <<n>>)
         THEN Masked(logged[n], whole, lg.redactReveal, Len(headers[n]) = 1)
         ELSE logged[n] = whole

\* What the log says of the body's type is the header, where no list hides the header.
TypeLogged(headers, type, lg) ==
  \/ Listed(lg.excludeHeaders, Text(<<"content-type">>))
  \/ Listed(lg.redactHeaders, Text(<<"content-type">>))
  \/ type = ToLower(ContentType(Firsts(headers)))

HeadersLogged(headers, log, lg) ==
  HeadersMasked(headers, log.headers, lg) /\ TypeLogged(headers, log.contentType, lg)

\* Among the logged headers, every one a policy can read is absent, masked or whole, as
\* the lists of the logging section say, whatever the spelling of the name there; as long
\* as 2 * redactReveal fits an int.  Of a masked one no more than the first redactReveal
\* characters show, and nothing of a single value shorter than 2 * redactReveal.
\* body.content_type follows the header of that name; what it should be when a list
\* hides that header, where the code shows it and README.md says "never appear", is left
\* open.
HeadersRedacted ==
  (call.op \in {"request", "response"} /\ 2 * call.lg.redactReveal < IntHalf) =>
    IF call.op = "request"
    THEN /\ HeadersLogged(call.authz.headers, call.log, call.lg)
         /\ HeadersLogged(call.proc.headers, call.procLog, call.lg)
    ELSE HeadersLogged(call.var.headers, call.log, call.lg)

\* The logged query has the pairs of the query that was sent: in each that
\* parses the name is the same, and the value is *** where the decoded name
\* is listed, in any case, and unchanged elsewhere.
QueryRedacted ==
  call.op = "request" =>
    LET sent == Split(call.query, "&") IN
    \A log \in {call.log, call.procLog} : LET shown == Split(log.query, "&") IN
      /\ Len(shown) = Len(sent)
      /\ \A i \in DOMAIN sent :
           LET s == ParseQuery(sent[i]).m  l == ParseQuery(shown[i]).m IN
           \A n \in DOMAIN s :
             /\ n \in DOMAIN l
             /\ IF Listed(call.lg.redactQueryParams, ToLower(n)) /\ IndexByte(sent[i], "=") # 0
                THEN l[n] = <<Repeat("*", 3)>> ELSE l[n] = s[n]

\* The groups request.headers, request.query and response.headers of the access log show
\* what the logging section lets them show.
LogRedacted == HeadersRedacted /\ QueryRedacted
=============================================================================
