------------------------------ MODULE Requests ------------------------------
(***************************************************************************)
(* From a client's request to what a policy reads: how each engine builds  *)
(* a policy.Request (handle() of httpserver, parseRequestHeaders and       *)
(* parseResponseHeaders of grpcserver), the variables made of it           *)
(* (policy.go) and the helpers that read them (celenv/http.go).            *)
(*                                                                         *)
(* A text is a sequence of letters.  A letter has a word and a form: a     *)
(* plain one is "lower", one in another case "canonical", one that is      *)
(* percent-encoded "escaped", and "bad" is an encoding of nothing; a       *)
(* "number" is one that Atoi takes.  The name of a header is one letter.   *)
(***************************************************************************)
EXTENDS Loops, FiniteSetsExt

RequestPseudo == {":method", ":scheme", ":authority", ":path"}

CONSTANT Words   \* of the letters in use
ASSUME WordsAssumption == {"?", "&", ",", " ", "*"} \cup RequestPseudo \subseteq Words

Letters     == [word : Words, form : {"lower", "canonical", "escaped", "bad", "number"}]
HeaderNames == [word : Words, form : {"lower", "canonical"}]

Letter(w)       == [word |-> w, form |-> "lower"]
Text(words)     == [i \in DOMAIN words |-> Letter(words[i])]
Canonical(l)    == [word |-> l.word, form |-> "canonical"]
Lower(l)        == IF l.form = "canonical" THEN Letter(l.word) ELSE l
ToLower(t)      == [i \in DOMAIN t |-> Lower(t[i])]
Decode(l)       == IF l.form = "escaped" THEN Letter(l.word) ELSE l
Bad(t)          == \E i \in DOMAIN t : t[i].form = "bad"
Unescape(t)     == IF Bad(t) THEN <<>> ELSE [i \in DOMAIN t |-> Decode(t[i])]
After(t, i)     == SubSeq(t, i + 1, Len(t))
Repeat(w, n)    == [i \in 1..n |-> Letter(w)]

\* 0 if there is none.
IndexByte(t, w) ==
  LET at == {i \in DOMAIN t : t[i] = Letter(w)} IN IF at = {} THEN 0 ELSE Min(at)

TrimSpace(t) ==
  LET kept == {i \in DOMAIN t : t[i].word # " "} IN
  IF kept = {} THEN <<>> ELSE SubSeq(t, Min(kept), Max(kept))

\* strings.Split (external), for a separator of one letter.
SplitOne(ts, l, w) ==
  IF l = Letter(w) THEN Append(ts, <<>>) ELSE [ts EXCEPT ![Len(ts)] = Append(@, l)]
Split(t, w) ==
  LET upTo[i \in 0..Len(t)] == IF i = 0 THEN <<<<>>>> ELSE SplitOne(upTo[i - 1], t[i], w)
  IN  upTo[Len(t)]

Join(ts, sep) ==
  Flatten([i \in 1..Len(ts) |-> IF i = 1 THEN ts[i] ELSE sep \o ts[i]])

\* http.Header (external): Add and Get, one entry for all spellings of a name.
Added(k, v)  == [key |-> Canonical(k), value |-> v]
Get(h, word) == LET k == Canonical(Letter(word)) IN
                IF k \in DOMAIN h THEN h[k][1] ELSE <<>>

\* url.ParseQuery (external): what parses is kept, ok tells whether all did.
Name(p)  == LET eq == IndexByte(p, "=") IN IF eq = 0 THEN p ELSE SubSeq(p, 1, eq - 1)
Value(p) == LET eq == IndexByte(p, "=") IN IF eq = 0 THEN <<>> ELSE After(p, eq)
Fails(p) == IndexByte(p, ";") # 0 \/ Bad(p)
Parsed(p) ==
  When(~Fails(p) /\ p # <<>>, <<[key |-> Unescape(Name(p)), value |-> Unescape(Value(p))]>>)
ParseQuery(raw) ==
  LET ps == Split(raw, "&") IN
  [ok |-> \A i \in DOMAIN ps : ~Fails(ps[i]),
   m  |-> Gather(Flatten([i \in 1..Len(ps) |-> Parsed(ps[i])]))]

-----------------------------------------------------------------------------
FirstHop(xff) ==
  LET i == IndexByte(xff, ",") IN TrimSpace(IF i > 1 THEN SubSeq(xff, 1, i - 1) ELSE xff)

\* net.SplitHostPort (external), for an address without brackets.
hostOnly(h) ==
  LET i == IndexByte(h, ":") IN
  IF i # 0 /\ IndexByte(After(h, i), ":") = 0 THEN SubSeq(h, 1, i - 1) ELSE h

clientIP(r) ==
  CASE Get(r.header, "x-forwarded-for") # <<>> -> FirstHop(Get(r.header, "x-forwarded-for"))
    [] Get(r.header, "x-forwarded-for") = <<>> /\ Get(r.header, "x-real-ip") # <<>> ->
         TrimSpace(Get(r.header, "x-real-ip"))
    [] OTHER -> hostOnly(r.peer)

\* net/http (external): the request as the handler finds it.  Its URL has a scheme when the
\* request line has the absolute form.
HTTPRequest(c) ==
  [method |-> c.method, scheme |-> IF c.absolute THEN c.scheme ELSE <<>>,
   host |-> c.authority, path |-> Unescape(c.path), query |-> c.query,
   header |-> Gather([i \in 1..Len(c.headers) |-> Added(c.headers[i].key, c.headers[i].value)]),
   peer |-> c.peer, body |-> c.body]

firstNonEmpty(vs) ==
  LET at == {i \in DOMAIN vs : vs[i] # <<>>} IN IF at = {} THEN <<>> ELSE vs[Min(at)]

\* handle(): the policy.Request of ext-authz.
AuthzRequest(r) ==
  [Method |-> r.method,
   Scheme |-> firstNonEmpty(<<Get(r.header, "x-forwarded-proto"), r.scheme, Text(<<"http">>)>>),
   Host |-> hostOnly(r.host), Path |-> r.path, RawQuery |-> r.query, RemoteIP |-> clientIP(r),
   Headers |-> r.header, Body |-> r.body]

\* Envoy (external): pseudo-headers, then headers, each value in one of the two fields.
Put(k, v, raw) ==
  [key |-> k, value |-> IF raw THEN <<>> ELSE v, rawValue |-> IF raw THEN v ELSE <<>>]
Target(c) == IF c.query = <<>> THEN c.path ELSE c.path \o <<Letter("?")>> \o c.query
Wire(c, raw) ==
  <<Put(Letter(":method"), c.method, raw), Put(Letter(":scheme"), c.scheme, raw),
    Put(Letter(":authority"), c.authority, raw), Put(Letter(":path"), Target(c), raw)>>
  \o [i \in 1..Len(c.headers) |-> Put(c.headers[i].key, c.headers[i].value, raw)]

Val(hv) == IF hv.value = <<>> THEN hv.rawValue ELSE hv.value
LastValue(hs, w) ==
  LET at == {i \in DOMAIN hs : Lower(hs[i].key) = Letter(w)} IN
  IF at = {} THEN <<>> ELSE Val(hs[Max(at)])
Regular(hs, pseudo) ==
  Flatten([i \in 1..Len(hs) |->
    When(Lower(hs[i].key).word \notin pseudo, <<Added(hs[i].key, Val(hs[i]))>>)])

\* Slip: a repeated header replaces the value before it.
HeadersOfSet(hs, pseudo) ==
  LET h == Gather(Regular(hs, pseudo)) IN [k \in DOMAIN h |-> <<h[k][Len(h[k])]>>]

HeadersOf(hs, pseudo) == Gather(Regular(hs, pseudo))

extractClientIP(h) ==
  IF Get(h, "x-forwarded-for") # <<>> THEN FirstHop(Get(h, "x-forwarded-for"))
  ELSE TrimSpace(Get(h, "x-real-ip"))

\* The body is empty until the body phase sets it.
parseRequestHeaders(hs) ==
  LET h == HeadersOf(hs, RequestPseudo)
      target == LastValue(hs, ":path")
      idx == IndexByte(target, "?")
      authority == LastValue(hs, ":authority") IN
  [Method |-> LastValue(hs, ":method"), Scheme |-> LastValue(hs, ":scheme"),
   Host |-> IF authority = <<>> THEN Get(h, "host") ELSE authority,
   Path |-> IF idx = 0 THEN target ELSE SubSeq(target, 1, idx - 1),
   RawQuery |-> IF idx = 0 THEN <<>> ELSE After(target, idx),
   RemoteIP |-> extractClientIP(h), Headers |-> h, Body |-> "empty"]

\* strconv.Atoi, with the default of parseResponseHeaders.
StatusOf(t) == IF t # <<>> /\ t[1].form = "number" THEN t[1].word ELSE "200"

parseResponseHeaders(hs) ==
  [Status |-> StatusOf(LastValue(hs, ":status")), Headers |-> HeadersOf(hs, {":status"}), Body |-> "empty"]

-----------------------------------------------------------------------------
Firsts(m) == [k \in DOMAIN m |-> m[k][1]]

HeadersAll(h) == [lk \in {Lower(k) : k \in DOMAIN h} |-> h[Canonical(lk)]]

\* tryJSON and tryYAML; what the decoders (external) accept.
BodyVar(body, type) ==
  [raw |-> body, contentType |-> type, jsonOk |-> body = "json", yamlOk |-> body \in {"json", "yaml"}]

ContentType(first) ==
  IF Letter("content-type") \in DOMAIN first THEN first[Letter("content-type")] ELSE <<>>

\* One parameter that does not parse hides them all.
buildRequestVar(r) ==
  LET qs == ParseQuery(r.RawQuery)
      queryAll == IF qs.ok THEN qs.m ELSE <<>>
      headersAll == HeadersAll(r.Headers) IN
  [method |-> r.Method, scheme |-> r.Scheme, host |-> r.Host, path |-> r.Path,
   remoteIp |-> r.RemoteIP, headers |-> headersAll, header |-> Firsts(headersAll),
   queries |-> queryAll, query |-> Firsts(queryAll),
   body |-> BodyVar(r.Body, ContentType(Firsts(headersAll)))]

buildResponseVar(resp) ==
  LET headersAll == HeadersAll(resp.Headers) IN
  [status |-> resp.Status, headers |-> headersAll, header |-> Firsts(headersAll),
   body |-> BodyVar(resp.Body, ContentType(Firsts(headersAll)))]

\* has(name, bucket) and the two overloads of firstOr(bucket, name, d).
has(name, bucket) ==
  name \in DOMAIN bucket /\ \E i \in DOMAIN bucket[name] : bucket[name][i] # <<>>
firstOr(bucket, name, def) ==
  IF name \in DOMAIN bucket /\ bucket[name] # <<>> THEN bucket[name] ELSE def
firstOrList(bucket, name, def) ==
  IF name \in DOMAIN bucket /\ bucket[name][1] # <<>> THEN bucket[name][1] ELSE def

=============================================================================
