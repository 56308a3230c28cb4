-------------------------- MODULE PolicyLoadProofs --------------------------
(* Proofs about module PolicyLoad, for any documents and expressions.      *)
EXTENDS PolicyLoad, SequenceFacts

-----------------------------------------------------------------------------
(* Byte sizes.                                                             *)

\* A suffix is not longer, and is the whole if it is not shorter.
LEMMA SuffixLength ==
  ASSUME NEW X, NEW s \in Seq(X), NEW t \in Seq(X)
  PROVE  /\ HasSuffix(t, s) => Len(s) <= Len(t)
         /\ HasSuffix(t, s) /\ Len(s) = Len(t) => s = t
         /\ HasSuffix(s, s)
<1>1. \A u \in Seq(X) : SubSeq(u, Len(u) - Len(u) + 1, Len(u)) = u
  OBVIOUS
<1> QED
  BY <1>1 DEF HasSuffix

\* What the letters of a size are.
Letter == STRING \cup {"k", "m", "g", "i", "b"}

\* The suffixes, and that none is one of a later one.
LEMMA SuffixesAre ==
  /\ DOMAIN SizeSuffixes = 1..6 /\ \A n \in 1..6 : SizeSuffixes[n] \in Seq(Letter) /\ Len(SizeSuffixes[n]) > 0
  /\ \A n, m \in 1..6 : n < m => /\ Len(SizeSuffixes[n]) >= Len(SizeSuffixes[m])
                                 /\ SizeSuffixes[n] # SizeSuffixes[m]
<1>1. /\ DOMAIN SizeSuffixes = 1..6
      /\ SizeSuffixes[1] = <<"k", "i", "b">> /\ SizeSuffixes[2] = <<"m", "i", "b">>
      /\ SizeSuffixes[3] = <<"g", "i", "b">> /\ SizeSuffixes[4] = <<"k", "b">>
      /\ SizeSuffixes[5] = <<"m", "b">> /\ SizeSuffixes[6] = <<"b">>
  BY DEF SizeSuffixes
<1>2. \A n \in 1..6 : n = 1 \/ n = 2 \/ n = 3 \/ n = 4 \/ n = 5 \/ n = 6
  OBVIOUS
<1>3. /\ \A n \in 1..6 : SizeSuffixes[n] \in Seq(Letter)
      /\ Len(SizeSuffixes[1]) = 3 /\ Len(SizeSuffixes[2]) = 3 /\ Len(SizeSuffixes[3]) = 3
      /\ Len(SizeSuffixes[4]) = 2 /\ Len(SizeSuffixes[5]) = 2 /\ Len(SizeSuffixes[6]) = 1
  <2>1. {"k", "m", "g", "i", "b"} \subseteq Letter
    BY DEF Letter
  <2>2. ASSUME NEW x \in Letter, NEW y \in Letter, NEW z \in Letter
        PROVE  /\ <<x, y, z>> \in Seq(Letter) /\ <<x, y>> \in Seq(Letter) /\ <<x>> \in Seq(Letter)
               /\ Len(<<x, y, z>>) = 3 /\ Len(<<x, y>>) = 2 /\ Len(<<x>>) = 1
    OBVIOUS
  <2>3. "k" \in Letter /\ "m" \in Letter /\ "g" \in Letter /\ "i" \in Letter /\ "b" \in Letter
    BY <2>1
  <2>4. /\ Len(SizeSuffixes[1]) = 3 /\ Len(SizeSuffixes[2]) = 3 /\ Len(SizeSuffixes[3]) = 3
        /\ Len(SizeSuffixes[4]) = 2 /\ Len(SizeSuffixes[5]) = 2 /\ Len(SizeSuffixes[6]) = 1
    BY <1>1
  <2>5. /\ SizeSuffixes[1] \in Seq(Letter) /\ SizeSuffixes[2] \in Seq(Letter)
        /\ SizeSuffixes[3] \in Seq(Letter) /\ SizeSuffixes[4] \in Seq(Letter)
        /\ SizeSuffixes[5] \in Seq(Letter) /\ SizeSuffixes[6] \in Seq(Letter)
    BY <1>1, <2>2, <2>3
  <2>6. \A n \in 1..6 : SizeSuffixes[n] \in Seq(Letter)
    BY <1>2, <2>5, Zenon
  <2> QED
    BY <2>4, <2>6, Zenon
<1>4. \A n \in 1..6 : Len(SizeSuffixes[n]) = IF n \in 1..3 THEN 3 ELSE IF n \in {4, 5} THEN 2 ELSE 1
  <2> TAKE n \in 1..6
  <2>1. CASE n = 1 \/ n = 2 \/ n = 3
    <3>1. Len(SizeSuffixes[n]) = 3
      BY <1>3, <2>1, Zenon
    <3> QED
      BY <2>1, <3>1
  <2>2. CASE n = 4 \/ n = 5
    <3>1. Len(SizeSuffixes[n]) = 2
      BY <1>3, <2>2, Zenon
    <3> QED
      BY <2>2, <3>1
  <2>3. CASE n = 6
    BY <1>3, <2>3
  <2> QED
    BY <1>2, <2>1, <2>2, <2>3
<1>5. \A n, m \in 1..6 : n < m => SizeSuffixes[n] # SizeSuffixes[m]
  <2>1. \A n \in 1..6 : SizeSuffixes[n][1] = IF n \in {1, 4} THEN "k" ELSE IF n \in {2, 5} THEN "m"
                                             ELSE IF n = 3 THEN "g" ELSE "b"
    BY <1>1, <1>2
  <2>2. ASSUME NEW n \in 1..6, NEW m \in 1..6, n < m, SizeSuffixes[n] = SizeSuffixes[m]
        PROVE  FALSE
    <3>1. Len(SizeSuffixes[n]) = Len(SizeSuffixes[m]) /\ SizeSuffixes[n][1] = SizeSuffixes[m][1]
      BY <2>2
    <3> QED
      BY <1>2, <1>4, <2>1, <2>2, <3>1
  <2> QED
    BY <2>2
<1>6. \A n, m \in 1..6 : n < m => Len(SizeSuffixes[n]) >= Len(SizeSuffixes[m])
  <2> TAKE n, m \in 1..6
  <2>1. /\ Len(SizeSuffixes[n]) = IF n \in 1..3 THEN 3 ELSE IF n \in {4, 5} THEN 2 ELSE 1
        /\ Len(SizeSuffixes[m]) = IF m \in 1..3 THEN 3 ELSE IF m \in {4, 5} THEN 2 ELSE 1
    BY <1>4
  <2> QED
    BY <2>1
<1> QED
  <2>1. ASSUME NEW n \in 1..6
        PROVE  Len(SizeSuffixes[n]) > 0
    <3>1. Len(SizeSuffixes[n]) = IF n \in 1..3 THEN 3 ELSE IF n \in {4, 5} THEN 2 ELSE 1
      BY <1>4
    <3> QED
      BY <3>1
  <2> QED
    BY <1>1, <1>3, <1>5, <1>6, <2>1, Zenon

\* The switch finds a suffix it knows, and the whole text if that is one.
LEMMA SuffixFound ==
  ASSUME NEW t \in Seq(Letter)
  PROVE  SuffixOf(t) \in DOMAIN Unit /\ (t \in DOMAIN Unit => SuffixOf(t) = t)
<1> DEFINE cut == {n \in 1..6 : HasSuffix(t, SizeSuffixes[n])}
           first == CHOOSE n \in cut : \A m \in cut : n <= m
<1>1. SuffixOf(t) = IF cut = {} THEN <<>> ELSE SizeSuffixes[first]
  BY SuffixesAre DEF SuffixOf
<1>2. DOMAIN Unit = {SizeSuffixes[n] : n \in 1..6} \cup {<<>>}
  BY UnitAssumption, SuffixesAre DEF Range
<1>3. cut # {} => first \in cut /\ \A m \in cut : first <= m
  <2>0. cut \in SUBSET Nat
    OBVIOUS
  <2> HIDE DEF cut
  <2>1. cut # {} => \E n \in cut : \A m \in cut : n <= m
    BY <2>0, Least
  <2> QED
    BY <2>1
<1>4. ASSUME t \in DOMAIN Unit
      PROVE  SuffixOf(t) = t
  <2>1. CASE t = <<>>
    <3>1. \A n \in 1..6 : ~HasSuffix(t, SizeSuffixes[n])
      <4>1. ASSUME NEW n \in 1..6
            PROVE  Len(SizeSuffixes[n]) > Len(t)
        BY <2>1, SuffixesAre
      <4> QED
        BY <4>1, SuffixesAre, SuffixLength
    <3> QED
      BY <1>1, <2>1, <3>1
  <2>2. ASSUME NEW k \in 1..6, t = SizeSuffixes[k]
        PROVE  SuffixOf(t) = t
    <3>1. k \in cut
      BY <2>2, SuffixLength
    <3>2. ASSUME NEW n \in 1..6, n < k
          PROVE  n \notin cut
      <4>1. Len(SizeSuffixes[n]) >= Len(t) /\ SizeSuffixes[n] # t /\ SizeSuffixes[n] \in Seq(Letter)
        BY <2>2, <3>2, SuffixesAre
      <4>2. Len(SizeSuffixes[n]) \in Nat /\ Len(t) \in Nat
        BY <4>1
      <4>3. HasSuffix(t, SizeSuffixes[n]) => Len(SizeSuffixes[n]) <= Len(t)
        BY <4>1, SuffixLength, Zenon
      <4>4. HasSuffix(t, SizeSuffixes[n]) /\ Len(SizeSuffixes[n]) = Len(t) => SizeSuffixes[n] = t
        BY <4>1, SuffixLength, Zenon
      <4> QED
        BY <4>1, <4>2, <4>3, <4>4
    <3>3. first = k
      BY <1>3, <3>1, <3>2
    <3> QED
      BY <1>1, <2>2, <3>1, <3>3, Zenon
  <2> QED
    BY <1>2, <1>4, <2>1, <2>2
<1> QED
  BY <1>1, <1>2, <1>3, <1>4

\* The product wraps into an int64, and one that fits is kept.
LEMMA Int64Wraps ==
  ASSUME NEW x \in Int
  PROVE  Int64(x) \in -Half..Half - 1 /\ (x \in -Half..Half - 1 => Int64(x) = x)
<1>1. Half \in Nat /\ Half # 0
  BY UnitAssumption
<1>2. PICK w \in Nat : w = 2 * Half /\ w > 0
  BY <1>1
<1>3. (x + Half) % w \in 0..w - 1
  BY <1>1, <1>2
<1>4. x \in -Half..Half - 1 => (x + Half) % w = x + Half
  BY <1>1, <1>2
<1> QED
  BY <1>1, <1>2, <1>3, <1>4 DEF Int64

\* UnmarshalYAML takes the sizes that mean a number of bytes, and multiplies exactly in range.
LEMMA SizeDecoded ==
  ASSUME NEW t \in Size
  PROVE  /\ ParsesSize(t) <=> Means(t)
         /\ UnmarshalSize(t) \in -Half..Half - 1
         /\ Means(t) /\ t.num * Unit[t.letters] \in -Half..Half - 1 =>
              UnmarshalSize(t) = t.num * Unit[t.letters]
<1>1. t.letters \in Seq(Letter) /\ t.num \in Int
  <2>1. \A u \in Seq(STRING) : u \in Seq(Letter)
    BY DEF Letter
  <2> QED
    BY <2>1 DEF Size
<1>2. SuffixOf(t.letters) \in DOMAIN Unit /\ (t.letters \in DOMAIN Unit => SuffixOf(t.letters) = t.letters)
  BY <1>1, SuffixFound, Zenon
<1>3. \A s \in DOMAIN Unit : t.num * Unit[s] \in Int
  BY <1>1, UnitAssumption
<1>4. ParsesSize(t) <=> Means(t)
  BY <1>2, Zenon DEF ParsesSize, Means
<1>5. UnmarshalSize(t) \in -Half..Half - 1
  BY <1>2, <1>3, Int64Wraps, Zenon DEF UnmarshalSize
<1>6. Means(t) /\ t.num * Unit[t.letters] \in -Half..Half - 1 =>
        UnmarshalSize(t) = t.num * Unit[t.letters]
  <2> SUFFICES ASSUME Means(t), t.num * Unit[t.letters] \in -Half..Half - 1
               PROVE  UnmarshalSize(t) = t.num * Unit[t.letters]
    OBVIOUS
  <2>1. SuffixOf(t.letters) = t.letters /\ t.letters \in DOMAIN Unit
    BY <1>2, Zenon DEF Means
  <2>2. Int64(t.num * Unit[t.letters]) = t.num * Unit[t.letters]
    BY <1>3, <2>1, Int64Wraps, Zenon
  <2> QED
    BY <2>1, <2>2, Zenon DEF UnmarshalSize
<1> QED
  BY <1>4, <1>5, <1>6, Zenon

-----------------------------------------------------------------------------
(* The expressions of a configuration.                                     *)

Scopes == {"request", "response"}
Fields == {"match", "headers", "body", "value", "code"}

\* Anything that has the form of an expression's place.
Place == [at : Nat \X Nat \X Nat \X Fields, src : STRING, scope : Scopes, kind : Kinds]

\* The expressions of a mutation, of a rule, of a group and of a configuration, as sets.
OfMutation(mu, g, i, m, scope) ==
  {Site(<<g, i, m>>, f[1], mu[f[1]], scope, f[2]) : f \in Evaluated(mu.op)}
OfRule(r, g, i, scope) ==
  {Site(<<g, i, 0>>, "match", r.match, scope, "bool")}
  \cup UNION {OfMutation(r.mutations[m], g, i, m, scope) : m \in 1..Len(r.mutations)}
OfGroup(grp, g) ==
  (IF Blank(grp.match) THEN {} ELSE {Site(<<g, 0, 0>>, "match", grp.match, ScopeOf(grp), "bool")})
  \cup UNION {OfRule(grp.rules[i], g, i, ScopeOf(grp)) : i \in 1..Len(grp.rules)}
OfGroups(groups) == UNION {OfGroup(groups[g], g) : g \in 1..Len(groups)}

\* A place is one.
LEMMA SiteIsPlace ==
  ASSUME NEW g \in Nat, NEW i \in Nat, NEW m \in Nat, NEW f \in Fields, NEW src \in STRING,
         NEW scope \in Scopes, NEW kind \in Kinds
  PROVE  Site(<<g, i, m>>, f, src, scope, kind) \in Place
BY DEF Place, Site

\* compile() meets the fields of a mutation that resolveMutations evaluates.
LEMMA MutationSitesAre ==
  ASSUME NEW mu \in Mutation, NEW g \in Nat, NEW i \in Nat, NEW m \in Nat, NEW scope \in Scopes
  PROVE  /\ MutationSites(mu, <<g, i, m>>, scope) \in Seq(Place)
         /\ Range(MutationSites(mu, <<g, i, m>>, scope)) = OfMutation(mu, g, i, m, scope)
<1> DEFINE S(f, k) == Site(<<g, i, m>>, f, mu[f], scope, k)
<1>1. \A f \in {"headers", "body", "value", "code"}, k \in Kinds : S(f, k) \in Place
  <2>1. mu["headers"] \in STRING /\ mu["body"] \in STRING /\ mu["value"] \in STRING /\ mu["code"] \in STRING
    BY DEF Mutation
  <2>2. \A f \in {"headers", "body", "value", "code"} : f \in Fields
    BY DEF Fields
  <2>3. \A f \in {"headers", "body", "value", "code"} : mu[f] \in STRING
    BY <2>1, Zenon
  <2> QED
    BY <2>2, <2>3, SiteIsPlace, Zenon
<1>2. \A f, k : <<f, k>>[1] = f /\ <<f, k>>[2] = k
  OBVIOUS
<1> HIDE DEF S
<1>3. OfMutation(mu, g, i, m, scope) = {S(f[1], f[2]) : f \in Evaluated(mu.op)}
  BY Zenon DEF OfMutation, S
<1>4. \A x, y \in Place : /\ <<x>> \in Seq(Place) /\ Range(<<x>>) = {x}
                         /\ <<x, y>> \in Seq(Place) /\ Range(<<x, y>>) = {x, y}
  BY DEF Range
<1>5. CASE mu.op = "directResponse"
  <2>1. MutationSites(mu, <<g, i, m>>, scope) = <<S("headers", "stringmap"), S("body", "string")>>
    BY <1>5 DEF MutationSites, S
  <2>2. Evaluated(mu.op) = {<<"headers", "stringmap">>, <<"body", "string">>}
    BY <1>5 DEF Evaluated
  <2>3. {S(f[1], f[2]) : f \in Evaluated(mu.op)} = {S("headers", "stringmap"), S("body", "string")}
    BY <1>2, <2>2
  <2>4. S("headers", "stringmap") \in Place /\ S("body", "string") \in Place
    BY <1>1 DEF Kinds
  <2>5. /\ <<S("headers", "stringmap"), S("body", "string")>> \in Seq(Place)
        /\ Range(<<S("headers", "stringmap"), S("body", "string")>>) = {S("headers", "stringmap"), S("body", "string")}
    BY <1>4, <2>4, Zenon
  <2> QED
    BY <1>3, <2>1, <2>3, <2>5, Zenon
<1>6. CASE mu.op \in {"setHeader", "appendHeader", "setBody"}
  <2>1. MutationSites(mu, <<g, i, m>>, scope) = <<S("value", "string")>>
    BY <1>6 DEF MutationSites, S
  <2>2. Evaluated(mu.op) = {<<"value", "string">>}
    BY <1>6 DEF Evaluated
  <2>3. {S(f[1], f[2]) : f \in Evaluated(mu.op)} = {S("value", "string")}
    BY <1>2, <2>2
  <2>4. S("value", "string") \in Place
    BY <1>1 DEF Kinds
  <2> QED
    BY <1>3, <1>4, <2>1, <2>3, <2>4, Zenon
<1>7. CASE mu.op = "setStatus"
  <2>1. MutationSites(mu, <<g, i, m>>, scope) = <<S("code", "int")>>
    BY <1>7 DEF MutationSites, S
  <2>2. Evaluated(mu.op) = {<<"code", "int">>}
    BY <1>7 DEF Evaluated
  <2>3. {S(f[1], f[2]) : f \in Evaluated(mu.op)} = {S("code", "int")}
    BY <1>2, <2>2
  <2>4. S("code", "int") \in Place
    BY <1>1 DEF Kinds
  <2> QED
    BY <1>3, <1>4, <2>1, <2>3, <2>4, Zenon
<1>8. CASE mu.op \notin {"directResponse", "setHeader", "appendHeader", "setBody", "setStatus"}
  <2>1. MutationSites(mu, <<g, i, m>>, scope) = <<>> /\ Evaluated(mu.op) = {}
    BY <1>8 DEF MutationSites, Evaluated
  <2>2. <<>> \in Seq(Place) /\ Range(<<>>) = {}
    BY DEF Range
  <2> QED
    BY <1>3, <2>1, <2>2, Zenon
<1> QED
  BY <1>5, <1>6, <1>7, <1>8

\* The expressions of a rule: its match and those of its mutations.
LEMMA RuleSitesAre ==
  ASSUME NEW r \in Rule, NEW g \in Nat, NEW i \in Nat, NEW scope \in Scopes
  PROVE  /\ RuleSites(r, g, i, scope) \in Seq(Place)
         /\ Range(RuleSites(r, g, i, scope)) = OfRule(r, g, i, scope)
<1> DEFINE of(m) == MutationSites(r.mutations[m], <<g, i, m>>, scope)
           ss == [m \in 1..Len(r.mutations) |-> of(m)]
           first == Site(<<g, i, 0>>, "match", r.match, scope, "bool")
<1>1. r.match \in STRING /\ r.mutations \in Seq(Mutation) /\ Len(r.mutations) \in Nat
  BY DEF Rule
<1>2. \A m \in 1..Len(r.mutations) : m \in Nat /\ r.mutations[m] \in Mutation
  BY <1>1
<1>3. \A m \in 1..Len(r.mutations) :
        of(m) \in Seq(Place) /\ Range(of(m)) = OfMutation(r.mutations[m], g, i, m, scope)
  <2> TAKE m \in 1..Len(r.mutations)
  <2>1. PICK mu \in Mutation : m \in Nat /\ mu = r.mutations[m]
    BY <1>2, Zenon
  <2>2. /\ MutationSites(mu, <<g, i, m>>, scope) \in Seq(Place)
        /\ Range(MutationSites(mu, <<g, i, m>>, scope)) = OfMutation(mu, g, i, m, scope)
    BY <2>1, MutationSitesAre, SMTT(30)
  <2> QED
    BY <2>1, <2>2, Zenon
<1>4. first \in Place
  <2>1. 0 \in Nat /\ "match" \in Fields /\ "bool" \in Kinds
    BY DEF Fields, Kinds
  <2> QED
    BY <1>1, <2>1, SiteIsPlace, Zenon
<1> HIDE DEF of, first
<1>5. ss \in Seq(Seq(Place)) /\ Len(ss) = Len(r.mutations)
  BY <1>1, <1>3
<1>6. /\ Flatten(ss) \in Seq(Place)
      /\ Range(Flatten(ss)) = UNION {Range(ss[m]) : m \in 1..Len(ss)}
  BY <1>5, FlattenType, FlattenElements, Zenon
<1>7. UNION {Range(ss[m]) : m \in 1..Len(ss)}
      = UNION {OfMutation(r.mutations[m], g, i, m, scope) : m \in 1..Len(r.mutations)}
  BY <1>3, <1>5, Zenon
<1>8. <<first>> \in Seq(Place) /\ Range(<<first>>) = {first}
  BY <1>4 DEF Range
<1>9. RuleSites(r, g, i, scope) = <<first>> \o Flatten(ss)
  BY Zenon DEF RuleSites, first, of
<1>10. OfRule(r, g, i, scope) = {first} \cup Range(Flatten(ss))
  BY <1>6, <1>7, Zenon DEF OfRule, first
<1> HIDE DEF ss
<1>11. <<first>> \o Flatten(ss) \in Seq(Place)
  BY <1>6, <1>8
<1> QED
  <2>1. Range(<<first>> \o Flatten(ss)) = {first} \cup Range(Flatten(ss))
    BY <1>6, <1>8, ConcatElements
  <2> QED
    BY <1>9, <1>10, <1>11, <2>1, Zenon

\* The expressions of a group: its match, if it has one, and those of its rules.
LEMMA GroupSitesAre ==
  ASSUME NEW grp \in Group, NEW g \in Nat
  PROVE  GroupSites(grp, g) \in Seq(Place) /\ Range(GroupSites(grp, g)) = OfGroup(grp, g)
<1> DEFINE of(i) == RuleSites(grp.rules[i], g, i, ScopeOf(grp))
           ss == [i \in 1..Len(grp.rules) |-> of(i)]
           filter == Site(<<g, 0, 0>>, "match", grp.match, ScopeOf(grp), "bool")
           head == IF Blank(grp.match) THEN <<>> ELSE <<filter>>
<1>1. grp.match \in STRING /\ grp.rules \in Seq(Rule) /\ Len(grp.rules) \in Nat
  BY DEF Group
<1>2. \A i \in 1..Len(grp.rules) : i \in Nat /\ grp.rules[i] \in Rule
  BY <1>1
<1>3. ScopeOf(grp) \in Scopes
  BY DEF ScopeOf, Scopes
<1>4. \A i \in 1..Len(grp.rules) :
        of(i) \in Seq(Place) /\ Range(of(i)) = OfRule(grp.rules[i], g, i, ScopeOf(grp))
  BY <1>2, <1>3, RuleSitesAre, Zenon
<1>5. filter \in Place
  <2>1. 0 \in Nat /\ "match" \in Fields /\ "bool" \in Kinds
    BY DEF Fields, Kinds
  <2> QED
    BY <1>1, <1>3, <2>1, SiteIsPlace, Zenon
<1> HIDE DEF of, filter
<1>6. ss \in Seq(Seq(Place)) /\ Len(ss) = Len(grp.rules)
  BY <1>1, <1>4
<1>7. /\ Flatten(ss) \in Seq(Place)
      /\ Range(Flatten(ss)) = UNION {Range(ss[i]) : i \in 1..Len(ss)}
  BY <1>6, FlattenType, FlattenElements, Zenon
<1>8. UNION {Range(ss[i]) : i \in 1..Len(ss)}
      = UNION {OfRule(grp.rules[i], g, i, ScopeOf(grp)) : i \in 1..Len(grp.rules)}
  BY <1>4, <1>6, Zenon
<1>9. head \in Seq(Place) /\ Range(head) = IF Blank(grp.match) THEN {} ELSE {filter}
  BY <1>5 DEF Range
<1>10. GroupSites(grp, g) = head \o Flatten(ss)
  BY Zenon DEF GroupSites, filter, of
<1>11. OfGroup(grp, g) = Range(head) \cup Range(Flatten(ss))
  BY <1>7, <1>8, <1>9, Zenon DEF OfGroup, filter
<1> HIDE DEF ss, head
<1>12. /\ head \o Flatten(ss) \in Seq(Place)
       /\ Range(head \o Flatten(ss)) = Range(head) \cup Range(Flatten(ss))
  BY <1>7, <1>9, ConcatElements
<1> QED
  BY <1>10, <1>11, <1>12, Zenon

\* The expressions of a configuration.
LEMMA SitesAre ==
  ASSUME NEW cfg, cfg.groups \in Seq(Group)
  PROVE  Sites(cfg) \in Seq(Place) /\ Range(Sites(cfg)) = OfGroups(cfg.groups)
<1> DEFINE ss == [g \in 1..Len(cfg.groups) |-> GroupSites(cfg.groups[g], g)]
<1>1. \A g \in 1..Len(cfg.groups) : g \in Nat /\ cfg.groups[g] \in Group
  OBVIOUS
<1>2. \A g \in 1..Len(cfg.groups) :
        /\ GroupSites(cfg.groups[g], g) \in Seq(Place)
        /\ Range(GroupSites(cfg.groups[g], g)) = OfGroup(cfg.groups[g], g)
  BY <1>1, GroupSitesAre, Zenon
<1>3. ss \in Seq(Seq(Place)) /\ Len(ss) = Len(cfg.groups)
  BY <1>2
<1>4. /\ Flatten(ss) \in Seq(Place)
      /\ Range(Flatten(ss)) = UNION {Range(ss[g]) : g \in 1..Len(ss)}
  BY <1>3, FlattenType, FlattenElements, Zenon
<1>5. UNION {Range(ss[g]) : g \in 1..Len(ss)} = OfGroups(cfg.groups)
  BY <1>2, <1>3, Zenon DEF OfGroups
<1> QED
  BY <1>4, <1>5, Zenon DEF Sites

\* What there is to compile at an address.
KindOf(f) ==
  CASE f = "match" -> "bool" [] f = "headers" -> "stringmap" [] f = "code" -> "int" [] OTHER -> "string"
TextAt(grp, i, m, f) ==
  IF i = 0 THEN grp.match ELSE IF m = 0 THEN grp.rules[i].match ELSE grp.rules[i].mutations[m][f]
SiteAt(groups, a) ==
  Site(a, a[4], TextAt(groups[a[1]], a[2], a[3], a[4]), ScopeOf(groups[a[1]]), KindOf(a[4]))

\* A field is evaluated for one type.
LEMMA EvaluatedKinds ==
  ASSUME NEW op, NEW f \in Evaluated(op)
  PROVE  f[2] = KindOf(f[1])
<1>1. f \in {<<"headers", "stringmap">>, <<"body", "string">>, <<"value", "string">>, <<"code", "int">>}
  BY DEF Evaluated
<1>2. /\ KindOf("headers") = "stringmap" /\ KindOf("body") = "string" /\ KindOf("value") = "string"
      /\ KindOf("code") = "int"
  BY DEF KindOf
<1> QED
  BY <1>1, <1>2

\* No two expressions have the same address.
LEMMA SitesDiffer ==
  ASSUME NEW groups \in Seq(Group), NEW s \in OfGroups(groups)
  PROVE  s = SiteAt(groups, s.at)
<1>1. ASSUME NEW g \in Nat, NEW i \in Nat, NEW m \in Nat, NEW f, NEW src, NEW kind,
             s = Site(<<g, i, m>>, f, src, ScopeOf(groups[g]), kind),
             src = TextAt(groups[g], i, m, f), kind = KindOf(f)
      PROVE  s = SiteAt(groups, s.at)
  <2>1. s.at = <<g, i, m, f>>
    BY <1>1 DEF Site
  <2>2. s.at[1] = g /\ s.at[2] = i /\ s.at[3] = m /\ s.at[4] = f
    BY <2>1
  <2>3. Site(s.at, f, src, ScopeOf(groups[g]), kind) = Site(<<g, i, m>>, f, src, ScopeOf(groups[g]), kind)
    BY <2>2 DEF Site
  <2> QED
    BY <1>1, <2>2, <2>3, Zenon DEF SiteAt
<1>2. PICK g \in 1..Len(groups) : s \in OfGroup(groups[g], g)
  BY DEF OfGroups
<1>3. g \in Nat /\ 0 \in Nat /\ KindOf("match") = "bool"
  BY DEF KindOf
<1>4. CASE s = Site(<<g, 0, 0>>, "match", groups[g].match, ScopeOf(groups[g]), "bool")
  BY <1>1, <1>3, <1>4, Zenon DEF TextAt
<1>5. ASSUME NEW i \in 1..Len(groups[g].rules), s \in OfRule(groups[g].rules[i], g, i, ScopeOf(groups[g]))
      PROVE  s = SiteAt(groups, s.at)
  <2>1. i \in Nat /\ i # 0 /\ groups[g].rules[i] \in Rule
    <3>1. groups[g] \in Group
      OBVIOUS
    <3>2. groups[g].rules \in Seq(Rule)
      BY <3>1 DEF Group
    <3> HIDE DEF Rule
    <3> QED
      BY <3>2
  <2>2. CASE s = Site(<<g, i, 0>>, "match", groups[g].rules[i].match, ScopeOf(groups[g]), "bool")
    BY <1>1, <1>3, <2>1, <2>2, Zenon DEF TextAt
  <2>3. ASSUME NEW m \in 1..Len(groups[g].rules[i].mutations),
               s \in OfMutation(groups[g].rules[i].mutations[m], g, i, m, ScopeOf(groups[g]))
        PROVE  s = SiteAt(groups, s.at)
    <3> DEFINE mu == groups[g].rules[i].mutations[m]
    <3>1. m \in Nat /\ m # 0
      <4>1. groups[g].rules[i].mutations \in Seq(Mutation)
        BY <2>1 DEF Rule
      <4> QED
        BY <4>1
    <3>2. PICK f \in Evaluated(mu.op) : s = Site(<<g, i, m>>, f[1], mu[f[1]], ScopeOf(groups[g]), f[2])
      BY <2>3, Zenon DEF OfMutation
    <3>3. f[2] = KindOf(f[1])
      BY <3>2, EvaluatedKinds, Zenon
    <3>4. mu[f[1]] = TextAt(groups[g], i, m, f[1])
      BY <2>1, <3>1, Zenon DEF TextAt
    <3> QED
      BY <1>1, <1>3, <2>1, <3>1, <3>2, <3>3, <3>4, Zenon
  <2> QED
    BY <1>5, <2>2, <2>3, Zenon DEF OfRule
<1> QED
  BY <1>2, <1>4, <1>5, Zenon DEF OfGroup

\* What the evaluators dereference is at the address of an expression, and is its text, in
\* the scope of its group and for its type.
LEMMA DereferencedAreSites ==
  ASSUME c.groups \in Seq(Group), NEW x \in Dereferenced
  PROVE  /\ x.g \in 1..Len(c.groups)
         /\ \E s \in OfGroups(c.groups) :
              s.at = x.at /\ s.src = x.src /\ s.kind = x.kind /\ s.scope = ScopeOf(c.groups[x.g])
<1> DEFINE Is(s) == s.at = x.at /\ s.src = x.src /\ s.kind = x.kind /\ s.scope = ScopeOf(c.groups[x.g])
           matches(g, grp) == {[g |-> g, at |-> <<g, 0, 0, "match">>, src |-> grp.match, kind |-> "bool"]
                                 : y \in {y \in {1} : ~Blank(grp.match)}}
           rules(g, grp) == {[g |-> g, at |-> <<g, i, 0, "match">>, src |-> grp.rules[i].match,
                              kind |-> "bool"] : i \in DOMAIN grp.rules}
           fields(g, i, m, mu) == {[g |-> g, at |-> <<g, i, m, f[1]>>, src |-> mu[f[1]], kind |-> f[2]]
                                     : f \in Evaluated(mu.op)}
           muts(g, grp) == UNION {UNION {fields(g, i, m, grp.rules[i].mutations[m])
                                           : m \in DOMAIN grp.rules[i].mutations}
                                   : i \in DOMAIN grp.rules}
<1>1. Dereferenced = UNION {matches(g, c.groups[g]) \cup rules(g, c.groups[g]) \cup muts(g, c.groups[g])
                             : g \in DOMAIN c.groups}
  BY Zenon DEF Dereferenced
<1> HIDE DEF matches, rules, muts
<1>2. PICK g \in DOMAIN c.groups : x \in matches(g, c.groups[g]) \cup rules(g, c.groups[g]) \cup muts(g, c.groups[g])
  BY <1>1, Zenon
<1>3. PICK grp \in Group : grp = c.groups[g] /\ g \in 1..Len(c.groups)
  OBVIOUS
<1>4. DOMAIN grp.rules = 1..Len(grp.rules) /\ \A i \in DOMAIN grp.rules : grp.rules[i] \in Rule
  BY <1>3 DEF Group
<1>5. \A i \in DOMAIN grp.rules : DOMAIN grp.rules[i].mutations = 1..Len(grp.rules[i].mutations)
  BY <1>4 DEF Rule
<1>6. OfGroup(grp, g) \subseteq OfGroups(c.groups)
  BY <1>3, Zenon DEF OfGroups
<1>7. ASSUME NEW i, NEW m, NEW f, NEW src, NEW kind,
             x = [g |-> g, at |-> <<g, i, m, f>>, src |-> src, kind |-> kind]
      PROVE  x.g = g /\ Is(Site(<<g, i, m>>, f, src, ScopeOf(grp), kind))
  BY <1>3, <1>7 DEF Site
<1> HIDE DEF Is
<1>8. CASE x \in matches(g, grp)
  <2>1. ~Blank(grp.match) /\ x = [g |-> g, at |-> <<g, 0, 0, "match">>, src |-> grp.match, kind |-> "bool"]
    BY <1>8, Zenon DEF matches
  <2>2. Site(<<g, 0, 0>>, "match", grp.match, ScopeOf(grp), "bool") \in OfGroup(grp, g)
    BY <2>1, Zenon DEF OfGroup
  <2>3. x.g = g /\ Is(Site(<<g, 0, 0>>, "match", grp.match, ScopeOf(grp), "bool"))
    BY <1>7, <2>1, Zenon
  <2> QED
    BY <1>3, <1>6, <2>2, <2>3, Zenon DEF Is
<1>9. CASE x \in rules(g, grp)
  <2>1. PICK i \in DOMAIN grp.rules :
          x = [g |-> g, at |-> <<g, i, 0, "match">>, src |-> grp.rules[i].match, kind |-> "bool"]
    BY <1>9, Zenon DEF rules
  <2>2. Site(<<g, i, 0>>, "match", grp.rules[i].match, ScopeOf(grp), "bool") \in OfGroup(grp, g)
    <3>1. Site(<<g, i, 0>>, "match", grp.rules[i].match, ScopeOf(grp), "bool")
          \in OfRule(grp.rules[i], g, i, ScopeOf(grp))
      BY Zenon DEF OfRule
    <3> QED
      BY <1>4, <2>1, <3>1, Zenon DEF OfGroup
  <2>3. x.g = g /\ Is(Site(<<g, i, 0>>, "match", grp.rules[i].match, ScopeOf(grp), "bool"))
    BY <1>7, <2>1, Zenon
  <2> QED
    BY <1>3, <1>6, <2>2, <2>3, Zenon DEF Is
<1>10. CASE x \in muts(g, grp)
  <2>1. PICK i \in DOMAIN grp.rules : \E m \in DOMAIN grp.rules[i].mutations :
          x \in fields(g, i, m, grp.rules[i].mutations[m])
    BY <1>10, SMTT(30) DEF muts
  <2>2. PICK m \in DOMAIN grp.rules[i].mutations : x \in fields(g, i, m, grp.rules[i].mutations[m])
    BY <2>1, Zenon
  <2>3. PICK mu : mu = grp.rules[i].mutations[m]
    OBVIOUS
  <2>4. PICK f \in Evaluated(mu.op) : x = [g |-> g, at |-> <<g, i, m, f[1]>>, src |-> mu[f[1]], kind |-> f[2]]
    BY <2>2, <2>3, Zenon
  <2>5. Site(<<g, i, m>>, f[1], mu[f[1]], ScopeOf(grp), f[2]) \in OfRule(grp.rules[i], g, i, ScopeOf(grp))
    <3>1. Site(<<g, i, m>>, f[1], mu[f[1]], ScopeOf(grp), f[2]) \in OfMutation(mu, g, i, m, ScopeOf(grp))
      BY <2>4, Zenon DEF OfMutation
    <3> QED
      BY <1>5, <2>2, <2>3, <3>1, Zenon DEF OfRule
  <2>6. Site(<<g, i, m>>, f[1], mu[f[1]], ScopeOf(grp), f[2]) \in OfGroup(grp, g)
    BY <1>4, <2>5, Zenon DEF OfGroup
  <2>7. x.g = g /\ Is(Site(<<g, i, m>>, f[1], mu[f[1]], ScopeOf(grp), f[2]))
    BY <1>7, <2>4, Zenon
  <2> QED
    BY <1>3, <1>6, <2>6, <2>7, Zenon DEF Is
<1> QED
  BY <1>2, <1>3, <1>8, <1>9, <1>10, Zenon

-----------------------------------------------------------------------------
(* The inductive invariant: where LoadFile stands and what it has built.   *)

Decoded(d) == [d EXCEPT !.limit = UnmarshalSize(@), !.procLimit = UnmarshalSize(@)]

\* The document has been decoded, and compile() has started.
IsDecoded   == pc \notin {"read", "unmarshal", "no file", "bad yaml"}
IsCompiling == pc \in {"compile", "loaded", "bad expression"}

Staged ==
  /\ pc \in {"read", "unmarshal", "applyDefaults", "validate", "new", "compile", "loaded"} \cup Errors
  /\ doc \in Document
  /\ pc = "bad yaml" => ~ParsesSize(doc.limit) \/ ~ParsesSize(doc.procLimit)
  /\ IsDecoded => /\ ParsesSize(doc.limit) /\ ParsesSize(doc.procLimit)
                  /\ c = IF pc = "applyDefaults" THEN Decoded(doc) ELSE applyDefaults(Decoded(doc))
  /\ pc \in {"new", "compile", "loaded"} => validate(c)

Program(s) == [src |-> s.src, scope |-> s.scope]

Compiling ==
  /\ ~IsCompiling => next = 0 /\ progs = <<>> /\ cache = <<>>
  /\ IsCompiling =>
       /\ next \in 0..Len(Sites(c)) /\ (pc = "loaded" => next = Len(Sites(c)))
       /\ \A n \in 1..next : Sites(c)[n].at \in DOMAIN progs
       /\ \A a \in DOMAIN progs : /\ progs[a] = Program(SiteAt(c.groups, a))
                                  /\ Compiles(SiteAt(c.groups, a))
       /\ \A k \in DOMAIN cache : \E s \in Range(Sites(c)) :
            k = cacheKey(s) /\ cache[k] = Program(s) /\ Compiles(s)

IInv == Staged /\ Compiling

\* k is what a document decodes to, and z what applyDefaults makes of it.
Configured(d, k, z) ==
  LET mib == Unit[<<"m", "i", "b">>] IN
  /\ k.limit = UnmarshalSize(d.limit) /\ k.procLimit = UnmarshalSize(d.procLimit)
  /\ z.limit = Or(UnmarshalSize(d.limit), 0, mib)
  /\ z.procLimit = Or(UnmarshalSize(d.procLimit), 0, mib)
  /\ z.groups = d.groups /\ z.allowOnError = d.allowOnError /\ z.dryRun = d.dryRun
  /\ z.denyStatus = Or(d.denyStatus, 0, 403)
  /\ {k.limit, k.procLimit} \subseteq -Half..Half - 1
  /\ {z.limit, z.procLimit} \subseteq (-Half..Half - 1) \ {0}

\* What decoding and the defaults leave alone, and what they set.
LEMMA ConfigIs ==
  ASSUME NEW d \in Document
  PROVE  Configured(d, Decoded(d), applyDefaults(Decoded(d)))
<1> DEFINE k == Decoded(d)
           z == applyDefaults(k)
           mib == Unit[<<"m", "i", "b">>]
<1>1. DOMAIN d = {"action", "denyStatus", "allowOnError", "dryRun", "limit", "procLimit",
                  "onBodyOverflow", "level", "format", "excludeHeaders", "redactHeaders",
                  "redactReveal", "redactQueryParams", "facts", "groups"}
  BY DEF Document
<1>2. /\ DOMAIN k = DOMAIN d
      /\ k.limit = UnmarshalSize(d.limit) /\ k.procLimit = UnmarshalSize(d.procLimit)
      /\ k.groups = d.groups /\ k.allowOnError = d.allowOnError /\ k.dryRun = d.dryRun
      /\ k.denyStatus = d.denyStatus
  BY <1>1 DEF Decoded
<1> HIDE DEF k
<1>3. /\ z.limit = Or(k.limit, 0, mib) /\ z.procLimit = Or(k.procLimit, 0, mib)
      /\ z.groups = k.groups /\ z.allowOnError = k.allowOnError /\ z.dryRun = k.dryRun
      /\ z.denyStatus = Or(k.denyStatus, 0, 403)
  BY <1>1, <1>2 DEF applyDefaults
<1> HIDE DEF z
<1>4. d.limit \in Size /\ d.procLimit \in Size
  BY DEF Document
<1>5. UnmarshalSize(d.limit) \in -Half..Half - 1 /\ UnmarshalSize(d.procLimit) \in -Half..Half - 1
  BY <1>4, SizeDecoded, Zenon
<1>6. mib \in (-Half..Half - 1) \ {0}
  <2>1. <<"m", "i", "b">> \in DOMAIN Unit
    <3>1. SizeSuffixes[2] = <<"m", "i", "b">> /\ 2 \in DOMAIN SizeSuffixes
      BY DEF SizeSuffixes
    <3> QED
      BY <3>1, UnitAssumption, Zenon DEF Range
  <2> QED
    BY <2>1, UnitAssumption
<1>7. \A v \in -Half..Half - 1 : Or(v, 0, mib) \in (-Half..Half - 1) \ {0}
  BY <1>6 DEF Or
<1>8. z.limit \in (-Half..Half - 1) \ {0} /\ z.procLimit \in (-Half..Half - 1) \ {0}
  BY <1>2, <1>3, <1>5, <1>7
<1>9. /\ {k.limit, k.procLimit} \subseteq -Half..Half - 1
      /\ {z.limit, z.procLimit} \subseteq (-Half..Half - 1) \ {0}
  BY <1>2, <1>5, <1>8, Zenon
<1>10. /\ z.limit = Or(UnmarshalSize(d.limit), 0, mib)
       /\ z.procLimit = Or(UnmarshalSize(d.procLimit), 0, mib)
       /\ z.groups = d.groups /\ z.allowOnError = d.allowOnError /\ z.dryRun = d.dryRun
       /\ z.denyStatus = Or(d.denyStatus, 0, 403)
  <2>1. z.limit = Or(UnmarshalSize(d.limit), 0, mib)
    BY <1>2, <1>3, Zenon
  <2>2. z.procLimit = Or(UnmarshalSize(d.procLimit), 0, mib)
    BY <1>2, <1>3, Zenon
  <2>3. z.denyStatus = Or(d.denyStatus, 0, 403)
    BY <1>2, <1>3, Zenon
  <2>4. z.groups = d.groups /\ z.allowOnError = d.allowOnError /\ z.dryRun = d.dryRun
    BY <1>2, <1>3, Zenon
  <2> QED
    BY <2>1, <2>2, <2>3, <2>4, Zenon
<1>11. Configured(d, k, z)
  BY <1>2, <1>9, <1>10, Zenon DEF Configured
<1> QED
  BY <1>11, Zenon DEF k, z

\* The expressions of a decoded configuration.
LEMMA ConfigSites ==
  ASSUME Staged, IsCompiling
  PROVE  /\ c.groups \in Seq(Group) /\ Sites(c) \in Seq(Place)
         /\ \A s \in Range(Sites(c)) : s = SiteAt(c.groups, s.at)
         /\ Range(Sites(c)) = OfGroups(c.groups)
         /\ Range(Sites(c)) = {Sites(c)[n] : n \in 1..Len(Sites(c))}
<1>1. c = applyDefaults(Decoded(doc)) /\ doc \in Document
  BY DEF Staged, IsDecoded, IsCompiling
<1>2. c.groups = doc.groups
  <2>1. Configured(doc, Decoded(doc), c)
    BY <1>1, ConfigIs, Zenon
  <2> QED
    BY <2>1, Zenon DEF Configured
<1>3. c.groups \in Seq(Group)
  BY <1>1, <1>2 DEF Document
<1>4. Sites(c) \in Seq(Place) /\ Range(Sites(c)) = OfGroups(c.groups)
  BY <1>3, SitesAre, Zenon
<1>5. \A s \in Range(Sites(c)) : s = SiteAt(c.groups, s.at)
  BY <1>3, <1>4, SitesDiffer, Zenon
<1>6. Range(Sites(c)) = {Sites(c)[n] : n \in 1..Len(Sites(c))}
  BY <1>4 DEF Range
<1> QED
  BY <1>3, <1>4, <1>5, <1>6, Zenon

\* It holds of the initial states.
LEMMA IInvInit == Init => IInv
<1> SUFFICES ASSUME Init PROVE IInv
  OBVIOUS
<1>1. doc \in Document
  BY DocumentAssumption DEF Init
<1> QED
  BY <1>1 DEF Init, IInv, Staged, Compiling, IsDecoded, IsCompiling

\* A site compiled, from the cache or not, is one more program.
LEMMA SiteCompiled ==
  ASSUME Staged, Compiling, HasSite, Compiles(AtSite), UNCHANGED <<pc, doc, c>>, next' = next + 1,
         progs' = Put(progs, AtSite.at, Program(AtSite)),
         \/ UNCHANGED cache
         \/ cache' = Put(cache, cacheKey(AtSite), Program(AtSite))
  PROVE  Compiling'
<1>1. /\ pc = "compile" /\ IsCompiling /\ next \in Nat /\ next < Len(Sites(c))
      /\ \A n \in 1..next : Sites(c)[n].at \in DOMAIN progs
  BY DEF HasSite, IsCompiling, Compiling
<1>2. /\ Len(Sites(c)) \in Nat
      /\ \A s \in Range(Sites(c)) : s = SiteAt(c.groups, s.at)
      /\ Range(Sites(c)) = {Sites(c)[n] : n \in 1..Len(Sites(c))}
  BY <1>1, ConfigSites
<1>3. PICK s : s = AtSite /\ s = Sites(c)[next + 1]
  BY DEF AtSite
<1>4. s \in Range(Sites(c)) /\ s = SiteAt(c.groups, s.at) /\ Compiles(s)
  <2>1. next + 1 \in 1..Len(Sites(c))
    BY <1>1, <1>2
  <2> QED
    BY <1>2, <1>3, <2>1, Zenon
<1>5. /\ DOMAIN progs' = DOMAIN progs \cup {s.at}
      /\ \A a \in DOMAIN progs : a # s.at => progs'[a] = progs[a]
      /\ progs'[s.at] = Program(s)
  BY <1>3 DEF Put
<1>6. \A n \in 1..next' : Sites(c)[n].at \in DOMAIN progs'
  <2>1. \A n \in 1..next' : n \in 1..next \/ n = next + 1
    BY <1>1
  <2> QED
    BY <1>1, <1>3, <1>5, <2>1, Zenon
<1>7. next' \in 0..Len(Sites(c))
  BY <1>1, <1>2
<1>8. \A a \in DOMAIN progs' : /\ progs'[a] = Program(SiteAt(c.groups, a))
                               /\ Compiles(SiteAt(c.groups, a))
  BY <1>1, <1>4, <1>5, Zenon DEF Compiling
<1>9. \A k \in DOMAIN cache' : \E t \in Range(Sites(c)) :
        k = cacheKey(t) /\ cache'[k] = Program(t) /\ Compiles(t)
  <2>0. \A k \in DOMAIN cache : \E t \in Range(Sites(c)) :
          k = cacheKey(t) /\ cache[k] = Program(t) /\ Compiles(t)
    BY <1>1, Zenon DEF Compiling
  <2>1. CASE UNCHANGED cache
    BY <2>0, <2>1, Zenon
  <2>2. CASE cache' = Put(cache, cacheKey(AtSite), Program(AtSite))
    <3>1. /\ DOMAIN cache' = DOMAIN cache \cup {cacheKey(s)}
          /\ \A k \in DOMAIN cache : k # cacheKey(s) => cache'[k] = cache[k]
          /\ cache'[cacheKey(s)] = Program(s)
      BY <1>3, <2>2 DEF Put
    <3> QED
      BY <1>4, <2>0, <3>1, Zenon
  <2> QED
    BY <2>1, <2>2
<1>10. IsCompiling' /\ pc' # "loaded" /\ Sites(c)' = Sites(c) /\ c' = c
  BY <1>1 DEF IsCompiling
<1> QED
  BY <1>6, <1>7, <1>8, <1>9, <1>10 DEF Compiling

\* Every step keeps it.
LEMMA IInvStep == IInv /\ [Next]_vars => IInv'
<1> SUFFICES ASSUME Staged, Compiling, [Next]_vars
             PROVE  Staged' /\ Compiling'
  BY DEF IInv
<1> USE DEF Errors
<1>1. CASE ReadFile
  <2>1. pc = "read" /\ pc' \in {"unmarshal", "no file"} /\ UNCHANGED <<doc, c, cache, next, progs>>
    BY <1>1 DEF ReadFile, Pass
  <2> QED
    BY <2>1 DEF Staged, Compiling, IsDecoded, IsCompiling
<1>2. CASE Unmarshal
  <2>1. pc = "unmarshal" /\ UNCHANGED <<doc, cache, next, progs>>
    BY <1>2 DEF Unmarshal
  <2>2. CASE ParsesSize(doc.limit) /\ ParsesSize(doc.procLimit)
    <3>1. pc' = "applyDefaults" /\ c' = Decoded(doc)
      BY <1>2, <2>2 DEF Unmarshal, Pass, Decoded
    <3> QED
      BY <2>1, <2>2, <3>1 DEF Staged, Compiling, IsDecoded, IsCompiling
  <2>3. CASE ~(ParsesSize(doc.limit) /\ ParsesSize(doc.procLimit))
    <3>1. pc' = "bad yaml"
      BY <1>2, <2>3 DEF Unmarshal, Pass
    <3> QED
      BY <2>1, <2>3, <3>1 DEF Staged, Compiling, IsDecoded, IsCompiling
  <2> QED
    BY <2>2, <2>3
<1>3. CASE ApplyDefaults
  <2>1. /\ pc = "applyDefaults" /\ pc' = "validate" /\ c' = applyDefaults(c)
        /\ UNCHANGED <<doc, cache, next, progs>>
    BY <1>3 DEF ApplyDefaults
  <2> QED
    BY <2>1 DEF Staged, Compiling, IsDecoded, IsCompiling
<1>4. CASE Validate
  <2>1. /\ pc = "validate" /\ pc' = (IF validate(c) THEN "new" ELSE "invalid")
        /\ UNCHANGED <<doc, c, cache, next, progs>>
    BY <1>4 DEF Validate, Pass
  <2>2. pc' \in {"new", "invalid"} /\ (pc' = "new" => validate(c))
    BY <2>1
  <2>3. validate(c)' = validate(c)
    BY <2>1
  <2> QED
    BY <2>1, <2>2, <2>3 DEF Staged, Compiling, IsDecoded, IsCompiling
<1>5. CASE NewEnv
  <2>1. /\ pc = "new" /\ pc' \in {"compile", "bad facts"} /\ cache' = <<>>
        /\ UNCHANGED <<doc, c, next, progs>>
    BY <1>5 DEF NewEnv, Pass
  <2>2. next = 0 /\ progs = <<>>
    BY <2>1 DEF Compiling, IsCompiling
  <2>3. validate(c)' = validate(c) /\ Sites(c)' = Sites(c)
    BY <2>1
  <2>4. Staged'
    BY <2>1, <2>3 DEF Staged, IsDecoded
  <2>5. CASE pc' = "bad facts"
    BY <2>1, <2>2, <2>4, <2>5 DEF Compiling, IsCompiling
  <2>6. CASE pc' = "compile"
    <3>1. Sites(c)' \in Seq(Place)
      <4>1. IsCompiling'
        BY <2>6 DEF IsCompiling
      <4>2. doc \in Document /\ c = applyDefaults(Decoded(doc))
        BY <2>1 DEF Staged, IsDecoded
      <4>3. c.groups = doc.groups /\ doc.groups \in Seq(Group)
        <5>1. Configured(doc, Decoded(doc), c)
          BY <4>2, ConfigIs, Zenon
        <5> QED
          BY <4>2, <5>1 DEF Configured, Document
      <4> QED
        BY <2>3, <4>3, SitesAre, Zenon
    <3>2. 0 \in 0..Len(Sites(c)')
      BY <3>1
    <3> QED
      BY <2>1, <2>2, <2>3, <2>4, <2>6, <3>2 DEF Compiling, IsCompiling
  <2> QED
    BY <2>1, <2>5, <2>6
<1>6. CASE CacheHit
  <2>1. /\ HasSite /\ UNCHANGED <<pc, doc, c, cache>> /\ next' = next + 1
        /\ cacheKey(AtSite) \in DOMAIN cache
        /\ progs' = Put(progs, AtSite.at, cache[cacheKey(AtSite)])
    BY <1>6 DEF CacheHit
  <2>2. PICK s \in Range(Sites(c)) :
          cacheKey(AtSite) = cacheKey(s) /\ cache[cacheKey(AtSite)] = Program(s) /\ Compiles(s)
    BY <2>1 DEF Compiling, HasSite, IsCompiling
  <2>3. AtSite.src = s.src /\ AtSite.scope = s.scope /\ AtSite.kind = s.kind
    BY <2>2 DEF cacheKey
  <2>4. Program(AtSite) = Program(s) /\ Compiles(AtSite)
    BY <2>2, <2>3 DEF Program, Compiles
  <2>5. Compiling'
    BY <2>1, <2>2, <2>4, SiteCompiled
  <2>6. validate(c)' = validate(c)
    BY <2>1
  <2> QED
    BY <2>1, <2>5, <2>6 DEF Staged, IsDecoded
<1>7. CASE CacheMiss
  <2>1. /\ HasSite /\ UNCHANGED <<pc, doc, c>> /\ next' = next + 1 /\ Compiles(AtSite)
        /\ progs' = Put(progs, AtSite.at, Program(AtSite))
        /\ cache' = Put(cache, cacheKey(AtSite), Program(AtSite))
    BY <1>7 DEF CacheMiss, Program
  <2>2. Compiling'
    BY <2>1, SiteCompiled
  <2>3. validate(c)' = validate(c)
    BY <2>1
  <2> QED
    BY <2>1, <2>2, <2>3 DEF Staged, IsDecoded
<1>8. CASE CompileFails \/ Compiled
  <2>1. /\ pc = "compile" /\ pc' \in {"bad expression", "loaded"}
        /\ UNCHANGED <<doc, c, cache, next, progs>>
        /\ pc' = "loaded" => ~(next < Len(Sites(c)))
    BY <1>8 DEF CompileFails, Compiled, HasSite
  <2>2. validate(c)' = validate(c) /\ Sites(c)' = Sites(c)
    BY <2>1
  <2>3. Sites(c) \in Seq(Place)
    BY <2>1, ConfigSites DEF IsCompiling
  <2>4. next \in 0..Len(Sites(c)) /\ (pc' = "loaded" => next = Len(Sites(c)))
    <3>1. IsCompiling
      BY <2>1 DEF IsCompiling
    <3>2. next \in 0..Len(Sites(c))
      BY <3>1, Zenon DEF Compiling
    <3>3. PICK L \in Nat : L = Len(Sites(c))
      BY <2>3
    <3>4. next \in 0..L /\ (pc' = "loaded" => ~(next < L))
      BY <2>1, <3>2, <3>3, Zenon
    <3>5. pc' = "loaded" => next = L
      BY <3>4
    <3> QED
      BY <3>2, <3>3, <3>5, Zenon
  <2>5. Compiling'
    <3>1. IsCompiling /\ IsCompiling'
      BY <2>1 DEF IsCompiling
    <3> QED
      BY <2>1, <2>2, <2>4, <3>1, Zenon DEF Compiling
  <2> QED
    BY <2>1, <2>2, <2>5 DEF Staged, IsDecoded
<1>9. CASE UNCHANGED vars
  <2>1. validate(c)' = validate(c) /\ Sites(c)' = Sites(c) /\ UNCHANGED <<pc, doc, c, cache, next, progs>>
    BY <1>9 DEF vars
  <2> QED
    BY <2>1 DEF Staged, Compiling, IsDecoded, IsCompiling
<1> QED
  BY <1>1, <1>2, <1>3, <1>4, <1>5, <1>6, <1>7, <1>8, <1>9 DEF Next

\* The invariant of LoadFile.
LEMMA Invariance == Spec => []IInv
<1> QED
  BY IInvInit, IInvStep, PTL DEF Spec

-----------------------------------------------------------------------------
(* The theorems.                                                           *)

\* LoadFile keeps its types: a limit stays an int64 through multiplication and defaults,
\* and only expressions that parse are cached or stored.
THEOREM TypesCorrect == Spec => []TypeOK
<1>1. IInv => TypeOK
  <2> SUFFICES ASSUME Staged, Compiling PROVE TypeOK
    BY DEF IInv
  <2>1. IsDecoded => {c.limit, c.procLimit} \subseteq -Half..Half - 1
    <3> SUFFICES ASSUME IsDecoded PROVE {c.limit, c.procLimit} \subseteq -Half..Half - 1
      OBVIOUS
    <3>1. doc \in Document /\ (c = Decoded(doc) \/ c = applyDefaults(Decoded(doc)))
      BY DEF Staged
    <3>0. PICK k, z : k = Decoded(doc) /\ z = applyDefaults(Decoded(doc)) /\ Configured(doc, k, z)
      BY <3>1, ConfigIs, Zenon
    <3>2. {k.limit, k.procLimit} \subseteq -Half..Half - 1
      BY <3>0, Zenon DEF Configured
    <3>3. {z.limit, z.procLimit} \subseteq -Half..Half - 1
      BY <3>0, Zenon DEF Configured
    <3> QED
      BY <3>0, <3>1, <3>2, <3>3, Zenon
  <2>2. CASE ~IsCompiling
    <3>1. next \in Nat /\ DOMAIN cache = {} /\ DOMAIN progs = {}
      BY <2>2 DEF Compiling
    <3> QED
      BY <2>1, <3>1 DEF TypeOK, Staged, IsDecoded
  <2>3. CASE IsCompiling
    <3>1. next \in Nat
      BY <2>3, ConfigSites DEF Compiling
    <3>2. \A k \in DOMAIN cache : cache[k].src \in DOMAIN Uses
      BY <2>3 DEF Compiling, Program, Compiles
    <3>3. \A a \in DOMAIN progs : progs[a].src \in DOMAIN Uses
      BY <2>3 DEF Compiling, Program, Compiles
    <3> QED
      BY <2>1, <3>1, <3>2, <3>3 DEF TypeOK, Staged, IsDecoded
  <2> QED
    BY <2>2, <2>3
<1> QED
  BY <1>1, Invariance, PTL

\* A loaded policy has, at every address its evaluators dereference, a program that was
\* accepted for the text, the scope and the type of that address.
LEMMA Found ==
  ASSUME Staged, Compiling, pc = "loaded", NEW x \in Dereferenced
  PROVE  /\ x.g \in 1..Len(c.groups) /\ c.groups \in Seq(Group) /\ validate(c)
         /\ x.at \in DOMAIN progs /\ progs[x.at].src = x.src
         /\ Uses[x.src] \subseteq Declared(ScopeOf(c.groups[x.g]))
         /\ Type[x.src] \in {x.kind, "dyn"}
<1>1. IsCompiling
  BY DEF IsCompiling
<1>2. /\ c.groups \in Seq(Group) /\ Sites(c) \in Seq(Place)
      /\ \A s \in Range(Sites(c)) : s = SiteAt(c.groups, s.at)
      /\ Range(Sites(c)) = OfGroups(c.groups)
      /\ Range(Sites(c)) = {Sites(c)[n] : n \in 1..Len(Sites(c))}
  BY <1>1, ConfigSites, Zenon
<1>3. x.g \in 1..Len(c.groups) /\ \E s \in OfGroups(c.groups) :
        s.at = x.at /\ s.src = x.src /\ s.kind = x.kind /\ s.scope = ScopeOf(c.groups[x.g])
  BY <1>2, DereferencedAreSites, Zenon
<1>4. PICK s \in Range(Sites(c)) :
        s.at = x.at /\ s.src = x.src /\ s.kind = x.kind /\ s.scope = ScopeOf(c.groups[x.g])
  BY <1>2, <1>3, Zenon
<1>5. \A n \in 1..Len(Sites(c)) : Sites(c)[n].at \in DOMAIN progs
  BY <1>1, Zenon DEF Compiling
<1>6. s.at \in DOMAIN progs
  BY <1>2, <1>4, <1>5, Zenon
<1>7. progs[s.at] = Program(s) /\ Compiles(s)
  BY <1>1, <1>2, <1>4, <1>6, Zenon DEF Compiling
<1>8. progs[x.at].src = x.src
  BY <1>4, <1>7 DEF Program
<1>9. Uses[x.src] \subseteq Declared(ScopeOf(c.groups[x.g])) /\ Type[x.src] \in {x.kind, "dyn"}
  BY <1>4, <1>7 DEF Compiles
<1>10. validate(c)
  BY DEF Staged
<1> QED
  BY <1>2, <1>3, <1>4, <1>6, <1>8, <1>9, <1>10, Zenon

\* No evaluator of a loaded policy meets a program compile() did not make: every field it
\* dereferences holds the program of its own text.
THEOREM AllCompiled == Spec => []ProgramsPresent
<1>1. IInv => ProgramsPresent
  BY Found, Zenon DEF IInv, ProgramsPresent
<1> QED
  BY <1>1, Invariance, PTL

\* A program from the cache fits wherever it ends up: its variables are supplied and its
\* type is the one asked for, whatever group, phase or field first compiled it.
THEOREM SharedProgramsFit == Spec => []ProgramsFit
<1>1. IInv => ProgramsFit
  <2> SUFFICES ASSUME Staged, Compiling, pc = "loaded", NEW x \in Dereferenced
               PROVE  /\ Uses[progs[x.at].src] \subseteq Supplied(c.groups[x.g])
                      /\ Type[progs[x.at].src] \in {x.kind, "dyn"}
    BY Zenon DEF IInv, ProgramsFit
  <2>1. PICK grp : grp = c.groups[x.g]
    OBVIOUS
  <2>2. ValidGroup(grp)
    BY <2>1, Found DEF validate
  <2>3. Declared(ScopeOf(grp)) \subseteq Supplied(grp)
    BY <2>2 DEF ValidGroup, Declared, ScopeOf, Supplied, Phases, RequestPhases, ResponsePhases
  <2> QED
    BY <2>1, <2>3, Found
<1> QED
  BY <1>1, Invariance, PTL

\* A function on 1..n is a sequence.
LEMMA IsSeqOf ==
  ASSUME NEW n \in Nat, NEW s, DOMAIN s = 1..n, s = [x \in 1..n |-> s[x]]
  PROVE  IsSeq(s) /\ Len(s) = n
<1>1. s \in Seq({s[x] : x \in 1..n}) /\ Len(s) = n
  OBVIOUS
<1> QED
  BY <1>1 DEF IsSeq

\* A rule and a group with the shape that EvaluateProc takes for granted.
RuleFits(rule, phase) ==
  LET ms == rule.mutations IN
  /\ rule.dryRun \in BOOLEAN /\ IsSeq(ms)
  /\ \A m \in DOMAIN ms :
       /\ ms[m].op = "directResponse" => Len(ms) = 1 /\ phase \in ResponsePhases
       /\ ms[m].op = "setBody" => phase \in Bodies
       /\ ms[m].op = "setStatus" => phase \in ResponsePhases
GroupFits(grp) ==
  /\ grp.match \in BOOLEAN /\ IsSeq(grp.rules)
  /\ grp.engine = "extProc" =>
       grp.mode \in {"firstMatch", "applyAll"} /\ grp.phase \in Phases
  /\ \A i \in DOMAIN grp.rules : RuleFits(grp.rules[i], grp.phase)

\* A loaded policy has the shape the two engines take for granted.
THEOREM EnginesServed == Spec => []LoadedFitsEngines
<1>1. IInv => LoadedFitsEngines
  <2> SUFFICES ASSUME Staged, pc = "loaded"
               PROVE  AuthzPolicy(AuthzView, Half) /\ ProcPolicy(ProcView)
    BY DEF IInv, LoadedFitsEngines
  <2>1. validate(c) /\ doc \in Document /\ c = applyDefaults(Decoded(doc))
    BY DEF Staged, IsDecoded
  <2>2. /\ c.groups = doc.groups /\ c.allowOnError = doc.allowOnError /\ c.dryRun = doc.dryRun
        /\ c.denyStatus = Or(doc.denyStatus, 0, 403)
        /\ {c.limit, c.procLimit} \subseteq (-Half..Half - 1) \ {0}
    <3>1. Configured(doc, Decoded(doc), c)
      BY <2>1, ConfigIs, Zenon
    <3> QED
      BY <3>1, Zenon DEF Configured
  <2>3. /\ {c.allowOnError, c.dryRun} \subseteq BOOLEAN /\ c.denyStatus \in Int \ {0}
        /\ c.groups \in Seq(Group)
    BY <2>1, <2>2 DEF Document, Or
  <2>4. c.action \in {"allow", "deny"} /\ c.onBodyOverflow \in {"skip", "fail"}
    BY <2>1 DEF validate
  <2>5. ASSUME NEW g \in DOMAIN c.groups
        PROVE  /\ c.groups[g] \in Group /\ ValidGroup(c.groups[g])
               /\ c.groups[g].rules \in Seq(Rule) /\ c.groups[g].rules # <<>>
    <3>1. c.groups[g] \in Group
      BY <2>3
    <3>2. ValidGroup(c.groups[g])
      BY <2>1, Zenon DEF validate
    <3> QED
      BY <3>1, <3>2 DEF Group, ValidGroup
  <2>6. ASSUME NEW g \in DOMAIN c.groups, NEW i \in DOMAIN c.groups[g].rules
        PROVE  /\ c.groups[g].rules[i] \in Rule /\ c.groups[g].rules[i].dryRun \in BOOLEAN
               /\ c.groups[g].rules[i].mutations \in Seq(Mutation)
    <3>1. c.groups[g].rules[i] \in Rule
      <4> HIDE DEF Rule
      <4> QED
        BY <2>5
    <3> QED
      BY <3>1 DEF Rule
  <2>7. AuthzPolicy(AuthzView, Half)
    <3>1. PICK gs : gs = [g \in DOMAIN c.groups |-> AuthzGroup(c.groups[g], HasMatch(g))]
      OBVIOUS
    <3>2. /\ AuthzView.action = c.action /\ AuthzView.allowOnError = c.allowOnError
          /\ AuthzView.dryRun = c.dryRun /\ AuthzView.denyStatus = c.denyStatus
          /\ AuthzView.limit = c.limit /\ AuthzView.groups = gs
          /\ DOMAIN gs = DOMAIN c.groups
      BY <3>1 DEF AuthzView
    <3>3. ASSUME NEW g \in DOMAIN c.groups
          PROVE  /\ gs[g].engine = c.groups[g].engine /\ gs[g].mode = c.groups[g].mode
                 /\ gs[g].match \in BOOLEAN
                 /\ gs[g].rules = [i \in DOMAIN c.groups[g].rules |-> AuthzRule(c.groups[g].rules[i])]
      <4>1. PICK grp, b : grp = c.groups[g] /\ b = HasMatch(g) /\ b \in BOOLEAN
        <5>1. HasMatch(g) \in BOOLEAN
          BY DEF HasMatch
        <5> QED
          BY <5>1, Zenon
      <4>2. gs[g] = AuthzGroup(grp, b)
        BY <3>1, <4>1, Zenon
      <4> QED
        BY <4>1, <4>2 DEF AuthzGroup
    <3> HIDE DEF AuthzView
    <3>4. IsSeq(gs)
      <4>1. PICK n \in Nat : DOMAIN c.groups = 1..n
        BY <2>3
      <4>2. gs = [g \in 1..n |-> gs[g]] /\ DOMAIN gs = 1..n
        BY <3>1, <4>1
      <4> QED
        BY <4>2, IsSeqOf, Zenon
    <3>5. ASSUME NEW g \in DOMAIN c.groups
          PROVE  IsSeq(gs[g].rules) /\ gs[g].rules # <<>>
      <4>1. PICK n \in Nat : n = Len(c.groups[g].rules) /\ DOMAIN c.groups[g].rules = 1..n /\ n # 0
        BY <2>5
      <4>2. PICK rs : rs = gs[g].rules
        OBVIOUS
      <4>3. rs = [i \in 1..n |-> rs[i]] /\ DOMAIN rs = 1..n
        BY <3>3, <4>1, <4>2
      <4>4. IsSeq(rs) /\ Len(rs) = n
        BY <4>3, IsSeqOf, Zenon
      <4>5. rs # <<>>
        BY <4>1, <4>4
      <4> QED
        BY <4>2, <4>4, <4>5, Zenon
    <3>6. ASSUME NEW g \in DOMAIN c.groups, c.groups[g].engine = "extAuthz"
          PROVE  /\ c.groups[g].mode \in {"firstMatch", "matchAll"}
                 /\ \A i \in DOMAIN c.groups[g].rules :
                      c.groups[g].rules[i].validation # <<>> /\ c.groups[g].rules[i].validation[1] \in {"allow", "deny"}
      <4>1. PICK grp : grp = c.groups[g] /\ grp.engine = "extAuthz" /\ ValidGroup(grp)
        BY <2>5, <3>6, Zenon
      <4>2. grp.mode \in {"firstMatch", "matchAll"}
        BY <4>1 DEF ValidGroup
      <4>3. \A i \in DOMAIN grp.rules : ValidAuthzRule(grp.rules[i], grp)
        BY <4>1, Zenon DEF ValidGroup
      <4> QED
        BY <4>1, <4>2, <4>3, Zenon DEF ValidAuthzRule
    <3>7. ASSUME NEW g \in DOMAIN c.groups
          PROVE  /\ gs[g].engine \in {"extAuthz", "extProc"} /\ gs[g].match \in BOOLEAN
                 /\ \A i \in DOMAIN gs[g].rules : gs[g].rules[i].dryRun \in BOOLEAN
                 /\ gs[g].engine = "extAuthz" =>
                      /\ gs[g].mode \in {"firstMatch", "matchAll"}
                      /\ \A i \in DOMAIN gs[g].rules : gs[g].rules[i].action \in {"allow", "deny"}
      <4>1. c.groups[g].engine \in {"extAuthz", "extProc"}
        BY <2>5 DEF ValidGroup
      <4>0. /\ DOMAIN gs[g].rules = DOMAIN c.groups[g].rules
            /\ \A i \in DOMAIN c.groups[g].rules : gs[g].rules[i] = AuthzRule(c.groups[g].rules[i])
        BY <3>3, Zenon
      <4>2. \A i \in DOMAIN gs[g].rules : gs[g].rules[i].dryRun \in BOOLEAN
        <5>1. \A r : AuthzRule(r).dryRun = r.dryRun
          BY DEF AuthzRule
        <5> QED
          BY <2>6, <4>0, <5>1, Zenon
      <4>5. \A r : r.validation # <<>> => AuthzRule(r).action = r.validation[1]
        BY DEF AuthzRule
      <4>3. gs[g].engine = "extAuthz" =>
                      /\ gs[g].mode \in {"firstMatch", "matchAll"}
                      /\ \A i \in DOMAIN gs[g].rules : gs[g].rules[i].action \in {"allow", "deny"}
        <5> SUFFICES ASSUME c.groups[g].engine = "extAuthz"
                     PROVE  /\ c.groups[g].mode \in {"firstMatch", "matchAll"}
                            /\ \A i \in DOMAIN c.groups[g].rules :
                                 AuthzRule(c.groups[g].rules[i]).action \in {"allow", "deny"}
          BY <3>3, <4>0, Zenon
        <5> QED
          BY <3>6, <4>5, Zenon
      <4> QED
        BY <3>3, <4>1, <4>2, <4>3, Zenon
    <3>8. AuthzView.limit \in (-Half..Half - 1) \ {0}
      BY <2>2, <3>2, Zenon
    <3> QED
      BY <2>3, <2>4, <3>1, <3>2, <3>4, <3>5, <3>7, <3>8, Zenon DEF AuthzPolicy
  <2>8. ProcPolicy(ProcView)
    <3>1. PICK gs : gs = [g \in DOMAIN c.groups |-> [c.groups[g] EXCEPT !.match = HasMatch(g)]]
      OBVIOUS
    <3>2. /\ ProcView.groups = gs /\ ProcView.dryRun = c.dryRun /\ ProcView.limit = c.procLimit
          /\ ProcView.onBodyOverflow = c.onBodyOverflow
      BY <3>1 DEF ProcView
    <3>3. ASSUME NEW g \in DOMAIN c.groups
          PROVE  /\ gs[g].engine = c.groups[g].engine /\ gs[g].mode = c.groups[g].mode
                 /\ gs[g].phase = c.groups[g].phase /\ gs[g].rules = c.groups[g].rules
                 /\ gs[g].match \in BOOLEAN
      <4>1. PICK grp \in Group, b \in BOOLEAN : grp = c.groups[g] /\ b = HasMatch(g)
        <5>1. HasMatch(g) \in BOOLEAN
          BY DEF HasMatch
        <5> QED
          BY <2>5, <5>1, Zenon
      <4>2. gs[g] = [grp EXCEPT !.match = b]
        BY <3>1, <4>1, Zenon
      <4> QED
        BY <4>1, <4>2 DEF Group
    <3> HIDE DEF ProcView
    <3>4. IsSeq(gs) /\ DOMAIN gs = DOMAIN c.groups
      <4>1. PICK n \in Nat : DOMAIN c.groups = 1..n
        BY <2>3
      <4>2. gs = [g \in 1..n |-> gs[g]] /\ DOMAIN gs = 1..n
        BY <3>1, <4>1
      <4> QED
        BY <4>1, <4>2, IsSeqOf, Zenon
    <3>5. ASSUME NEW g \in DOMAIN c.groups
          PROVE  /\ IsSeq(c.groups[g].rules)
                 /\ c.groups[g].engine = "extProc" =>
                      c.groups[g].mode \in {"firstMatch", "applyAll"} /\ c.groups[g].phase \in Phases
      <4>1. PICK grp \in Group, rs \in Seq(Rule) : grp = c.groups[g] /\ rs = grp.rules /\ ValidGroup(grp)
        BY <2>5, Zenon
      <4>2. IsSeq(rs)
        BY DEF IsSeq
      <4>3. grp.engine = "extProc" => grp.mode \in {"firstMatch", "applyAll"} /\ grp.phase \in Phases
        BY <4>1 DEF ValidGroup
      <4> QED
        BY <4>1, <4>2, <4>3, Zenon
    <3>6. ASSUME NEW g \in DOMAIN c.groups, NEW i \in DOMAIN c.groups[g].rules
          PROVE  LET ms == c.groups[g].rules[i].mutations IN
                 /\ c.groups[g].rules[i].dryRun \in BOOLEAN /\ IsSeq(ms)
                 /\ \A m \in DOMAIN ms :
                      /\ ms[m].op = "directResponse" => Len(ms) = 1 /\ c.groups[g].phase \in ResponsePhases
                      /\ ms[m].op = "setBody" => c.groups[g].phase \in Bodies
                      /\ ms[m].op = "setStatus" => c.groups[g].phase \in ResponsePhases
      <4>a. PICK ph : ph = c.groups[g].phase
        BY Zenon
      <4>b. PICK r \in Rule, ms \in Seq(Mutation) : r = c.groups[g].rules[i] /\ ms = r.mutations
        BY <2>6, Zenon
      <4>1. r = c.groups[g].rules[i] /\ ms = r.mutations /\ ph = c.groups[g].phase
        BY <4>a, <4>b, Zenon
      <4>2. \/ ValidAuthzRule(r, c.groups[g]) \/ ValidProcRule(r, c.groups[g])
        BY <2>5, <4>1, Zenon DEF ValidGroup
      <4>3. CASE ValidAuthzRule(r, c.groups[g])
        <5>1. ms = <<>>
          BY <4>1, <4>3 DEF ValidAuthzRule
        <5> QED
          BY <2>6, <4>1, <5>1, SMTT(30) DEF IsSeq
      <4>4. CASE ValidProcRule(r, c.groups[g])
        <5>1. ASSUME NEW m \in DOMAIN ms
              PROVE  /\ ms[m].op = "directResponse" => Len(ms) <= 1
                     /\ ValidMutation(ms[m], ph)
          <6>1. /\ "directResponse" \in {ms[n].op : n \in DOMAIN ms} => Len(ms) <= 1
                /\ ValidMutation(ms[m], ph)
            BY <4>1, <4>4, Zenon DEF ValidProcRule
          <6> QED
            BY <6>1, Zenon
        <5>2. ASSUME NEW m \in DOMAIN ms
              PROVE  /\ ms[m].op = "directResponse" => Len(ms) = 1 /\ ph \in ResponsePhases
                     /\ ms[m].op = "setBody" => ph \in Bodies
                     /\ ms[m].op = "setStatus" => ph \in ResponsePhases
          <6>1. Len(ms) <= 1 => Len(ms) = 1
            <7>1. DOMAIN ms = 1..Len(ms) /\ Len(ms) \in Nat
              OBVIOUS
            <7> QED
              BY <7>1
          <6> QED
            BY <5>1, <6>1, ZenonT(30) DEF ValidMutation
        <5>3. IsSeq(ms)
          BY DEF IsSeq
        <5> QED
          BY <2>6, <4>1, <5>2, <5>3, Zenon
      <4> QED
        BY <4>2, <4>3, <4>4
    <3>7. c.procLimit \in Int \ {0}
      BY <2>2
    <3>8. ASSUME NEW g \in DOMAIN gs
          PROVE  /\ gs[g].match \in BOOLEAN /\ IsSeq(gs[g].rules)
                 /\ gs[g].engine = "extProc" =>
                      gs[g].mode \in {"firstMatch", "applyAll"} /\ gs[g].phase \in Phases
      BY <3>3, <3>4, <3>5, Zenon
    <3>9. ASSUME NEW g \in DOMAIN gs, NEW i \in DOMAIN gs[g].rules
          PROVE  RuleFits(gs[g].rules[i], gs[g].phase)
      <4>1. g \in DOMAIN c.groups /\ gs[g].rules = c.groups[g].rules /\ gs[g].phase = c.groups[g].phase
        BY <3>3, <3>4, Zenon
      <4>2. i \in DOMAIN c.groups[g].rules
        BY <3>9, <4>1, Zenon
      <4>3. RuleFits(c.groups[g].rules[i], c.groups[g].phase)
        BY <3>6, <4>1, <4>2, Zenon DEF RuleFits
      <4> QED
        BY <4>1, <4>3, Zenon
    <3>10. \A g \in DOMAIN gs : GroupFits(gs[g])
      BY <3>8, <3>9, Zenon DEF GroupFits
    <3>11. PICK q : q = ProcView
      OBVIOUS
    <3>12. \A g \in DOMAIN q.groups : GroupFits(q.groups[g])
      BY <3>2, <3>10, <3>11, Zenon
    <3>13. /\ q.dryRun \in BOOLEAN /\ q.limit \in Int \ {0}
           /\ q.onBodyOverflow \in {"skip", "fail"} /\ IsSeq(q.groups)
      BY <2>3, <2>4, <3>2, <3>4, <3>7, <3>11, Zenon
    <3>14. ProcPolicy(q)
      BY <3>12, <3>13, Zenon DEF ProcPolicy, GroupFits, RuleFits
    <3> QED
      BY <3>11, <3>14, Zenon
  <2> QED
    BY <2>7, <2>8
<1> QED
  BY <1>1, Invariance, PTL

\* A size with a known suffix is not refused, and the limit of a loaded policy is the
\* number of bytes written, where an int64 holds it and it is not zero.
THEOREM SizesKept == Spec => []SizesExact
<1>1. IInv => SizesExact
  <2> SUFFICES ASSUME Staged PROVE SizesExact
    BY DEF IInv
  <2>1. doc.limit \in Size /\ doc.procLimit \in Size
    BY DEF Staged, Document
  <2>2. pc = "bad yaml" => ~Means(doc.limit) \/ ~Means(doc.procLimit)
    BY <2>1, SizeDecoded, Zenon DEF Staged
  <2>3. ASSUME pc = "loaded"
        PROVE  /\ Means(doc.limit) /\ Means(doc.procLimit)
               /\ c.limit = Or(UnmarshalSize(doc.limit), 0, Unit[<<"m", "i", "b">>])
               /\ c.procLimit = Or(UnmarshalSize(doc.procLimit), 0, Unit[<<"m", "i", "b">>])
    <3>1. /\ doc \in Document /\ c = applyDefaults(Decoded(doc))
          /\ ParsesSize(doc.limit) /\ ParsesSize(doc.procLimit)
      BY <2>3 DEF Staged, IsDecoded
    <3>2. Configured(doc, Decoded(doc), c)
      BY <3>1, ConfigIs, Zenon
    <3>3. Means(doc.limit) /\ Means(doc.procLimit)
      BY <2>1, <3>1, SizeDecoded, Zenon
    <3> QED
      BY <3>2, <3>3, Zenon DEF Configured
  <2>4. ASSUME NEW t \in Size, NEW v, Means(t), v = Or(UnmarshalSize(t), 0, Unit[<<"m", "i", "b">>]),
               t.num * Unit[t.letters] \in -Half..Half - 1, t.num * Unit[t.letters] # 0
        PROVE  v = t.num * Unit[t.letters]
    BY <2>4, SizeDecoded, Zenon DEF Or
  <2>5. ASSUME pc = "loaded", NEW x \in {<<doc.limit, c.limit>>, <<doc.procLimit, c.procLimit>>},
               x[1].num * Unit[x[1].letters] \in -Half..Half - 1, x[1].num * Unit[x[1].letters] # 0
        PROVE  x[2] = x[1].num * Unit[x[1].letters]
    <3>1. \/ x[1] = doc.limit /\ x[2] = c.limit
          \/ x[1] = doc.procLimit /\ x[2] = c.procLimit
      BY <2>5
    <3> QED
      BY <2>1, <2>3, <2>4, <2>5, <3>1, Zenon
  <2> QED
    BY <2>2, <2>5, Zenon DEF SizesExact
<1> QED
  BY <1>1, Invariance, PTL
====
