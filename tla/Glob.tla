-------------------------------- MODULE Glob --------------------------------
(***************************************************************************)
(* The glob function of the policy language (celenv/strings.go): a         *)
(* pattern is translated to a regular expression, which is matched against *)
(* the whole string.  A pattern is a sequence of characters and of whole   *)
(* character classes; the compiled expression is cached under the pattern, *)
(* its only input, so the cache is left out.                               *)
(*                                                                         *)
(* Two kinds of patterns are left out, in which the regexp package does    *)
(* not read the pieces as globRE2 wrote them: braces that make a           *)
(* repetition, which are not quoted; and brackets that it does not close   *)
(* at the first "]", as globRE2 does: "[]" and "[^]", where it takes the   *)
(* "]" for a member, and those with a backslash or "[:" in them.           *)
(***************************************************************************)
EXTENDS Loops

CONSTANT Class   \* for each class in brackets, what it matches; {} if malformed, as [b-a]

ASSUME ClassAssumption == {"*", "?", "[", "]", "[]", "[^]"} \cap DOMAIN Class = {}

\* A piece of the regular expression: the characters it matches are those
\* for which Test holds, as many as `many' says.
NoSlash     == [t |-> "no slash", many |-> FALSE]   \* [^/]
SegmentRun  == [t |-> "no slash", many |-> TRUE]    \* [^/]*
AnyRun      == [t |-> "dot", many |-> TRUE]         \* .*
Literal(c)  == [t |-> "literal", c |-> c, many |-> FALSE]
Bracket(c)  == [t |-> "class", c |-> c, many |-> FALSE]

\* What the loop writes for the character at i.
Write(g, i) ==
  CASE g[i] = "*" /\ i < Len(g) /\ g[i + 1] = "*"    -> AnyRun
    [] g[i] = "*" /\ ~(i < Len(g) /\ g[i + 1] = "*") -> SegmentRun
    [] g[i] = "?"            -> NoSlash
    [] g[i] \in DOMAIN Class -> Bracket(g[i])
    [] OTHER                 -> Literal(g[i])

\* Whether the loop comes to i: the second of two stars is taken with the first.
Visits(g) ==
  LET at[i \in 1..Len(g)] == ~(i > 1 /\ at[i - 1] /\ g[i - 1] = "*" /\ g[i] = "*") IN at

\* Slip: every star is the star that stops at a slash.
globRE2Single(g) ==
  [i \in 1..Len(g) |-> IF g[i] = "*" THEN SegmentRun ELSE Write(g, i)]

\* globRE2: a "[" without its "]" and the characters special to a regular
\* expression are quoted.
globRE2(g) ==
  LET visits == Visits(g) IN Flatten([i \in 1..Len(g) |-> When(visits[i], <<Write(g, i)>>)])

\* The regexp package (external): Compile fails on a malformed class, "." is
\* any character but a newline, and ^...$ matches the whole string.
Test(p, c) ==
  CASE p.t = "no slash" -> c # "/"
    [] p.t = "dot"      -> c # "newline"
    [] p.t = "literal"  -> c = p.c
    [] p.t = "class"    -> c \in Class[p.c]

\* A class ends where globRE2 ends it, so that each is judged by itself.
Malformed(re) == \E i \in DOMAIN re : re[i].t = "class" /\ Class[re[i].c] = {}

\* How far a piece gets from q.
Ends(p, s, q) ==
  IF p.many THEN {r \in q..Len(s) : \A j \in q + 1..r : Test(p, s[j])}
  ELSE {r \in 1..Len(s) : r = q + 1 /\ Test(p, s[r])}

\* How far it gets from the places in B.
EndsFrom(p, s, B) == UNION {Ends(p, s, q) : q \in B}

\* The ends of the prefixes of s that the pieces match, one piece after the other.
PrefixEnds(re, s) ==
  LET upTo[k \in 0..Len(re)] ==
        IF k = 0 THEN {0} ELSE EndsFrom(re[k], s, upTo[k - 1])
  IN  upTo[Len(re)]

MatchString(re, s) == Len(s) \in PrefixEnds(re, s)

matchGlob(s, pattern) ==
  LET re == globRE2(pattern) IN ~Malformed(re) /\ MatchString(re, s)

=============================================================================
