----------------------------- MODULE AccessLog -----------------------------
(***************************************************************************)
(* The access log record of a request or a response (accesslog.go) under a *)
(* policy's logging section.  Fields that are logged as they are (method,  *)
(* host, path, sizes) are left out.                                        *)
(***************************************************************************)
EXTENDS Requests

CONSTANT IntHalf   \* 2^63: int holds -IntHalf..IntHalf - 1
ASSUME IntAssumption == IntHalf \in Nat \ {0}

lowerSet(xs) == {TrimSpace(ToLower(x)) : x \in Range(xs)} \ {<<>>}

Int64(n) == ((n + IntHalf) % (2 * IntHalf)) - IntHalf

Panic == <<[word |-> "panic", form |-> "none"]>>

\* mask; v[:n] panics when 2*n wraps round and n is past the end.
mask(v, n) ==
  LET short == n <= 0 \/ Len(v) < Int64(2 * n) IN
  CASE v = <<>> -> <<>>
    [] v # <<>> /\ short -> Repeat("*", Len(v))
    [] v # <<>> /\ ~short /\ n > Len(v) -> Panic
    [] OTHER -> SubSeq(v, 1, n) \o Repeat("*", Len(v) - n)

CommaSpace == Text(<<",", " ">>)

LoggedHeaders(h, lg) ==
  LET shown == {Lower(k) : k \in {x \in DOMAIN h : <<Lower(x)>> \notin lowerSet(lg.excludeHeaders)}} IN
  [lk \in shown |->
     LET joined == Join(h[Canonical(lk)], CommaSpace) IN
     IF <<lk>> \in lowerSet(lg.redactHeaders) THEN mask(joined, lg.redactReveal) ELSE joined]

\* Slip: the name is compared as it is on the wire.
SensitiveRaw(name, sensitive) == ToLower(name) \in sensitive

\* A name that does not decode is the empty string, which no list holds.
Sensitive(name, sensitive) == ToLower(Unescape(name)) \in sensitive

Redact(p, sensitive) ==
  LET eq == IndexByte(p, "=") IN
  IF eq # 0 /\ Sensitive(SubSeq(p, 1, eq - 1), sensitive)
  THEN SubSeq(p, 1, eq) \o Repeat("*", 3) ELSE p

redactedQuery(raw, lg) ==
  LET sensitive == lowerSet(lg.redactQueryParams)
      pairs == Split(raw, "&")
  IN IF raw = <<>> \/ sensitive = {} THEN raw
     ELSE Join([i \in 1..Len(pairs) |-> Redact(pairs[i], sensitive)], Text(<<"&">>))

LoggedBody(body, lg) == IF lg.logBody THEN body ELSE "empty"

\* body.content_type, which the lists of headers do not reach.
LoggedType(h) == ToLower(Get(h, "content-type"))

RequestAttrs(req, lg) ==
  [headers |-> LoggedHeaders(req.Headers, lg), query |-> redactedQuery(req.RawQuery, lg),
   contentType |-> LoggedType(req.Headers), raw |-> LoggedBody(req.Body, lg)]

NilResponse == [nil |-> TRUE]

ResponseAttrs(resp, lg) ==
  IF resp = NilResponse
  THEN [status |-> "0", headers |-> <<>>, contentType |-> <<>>, raw |-> "empty"]
  ELSE [status |-> resp.Status, headers |-> LoggedHeaders(resp.Headers, lg),
        contentType |-> LoggedType(resp.Headers), raw |-> LoggedBody(resp.Body, lg)]

=============================================================================
