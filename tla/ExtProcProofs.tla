--------------------------- MODULE ExtProcProofs ---------------------------
(* Proofs about module ExtProc, for any policies that LoadBytes lets       *)
(* through and bodies of any length.                                       *)
EXTENDS ExtProc, SequenceFacts, TLAPS

-----------------------------------------------------------------------------
(* The loops of EvaluateProc.                                              *)

\* A turn that appends something or nothing.
LEMMA WhenType ==
  ASSUME NEW X, NEW b, NEW s \in Seq(X)
  PROVE  When(b, s) \in Seq(X)
BY DEF When

\* A loop over what a turn appended.
LEMMA FlatMapWhen ==
  ASSUME NEW X, NEW Y, NEW f, Maps(f, X, Y), NEW b, NEW s \in Seq(X)
  PROVE  FlatMap(f, When(b, s)) = When(b, FlatMap(f, s))
<1>1. FlatMap(f, <<>>) = <<>>
  BY FlatMapAppend, Zenon
<1>2. CASE b
  BY <1>2, Zenon DEF When
<1>3. CASE ~b
  BY <1>1, <1>3, Zenon DEF When
<1> QED
  BY <1>2, <1>3

\* The turns of a loop that appends t[i] where b[i] holds.
Turns(b, t) == [i \in 1..Len(t) |-> When(b[i], t[i])]

\* A loop over what a loop appended.
LEMMA FlatMapTurns ==
  ASSUME NEW X, NEW Y, NEW f, Maps(f, X, Y), NEW b, NEW t \in Seq(Seq(X))
  PROVE  /\ Flatten(Turns(b, t)) \in Seq(X)
         /\ FlatMap(f, Flatten(Turns(b, t))) = Flatten(Turns(b, Each(f, t)))
<1> DEFINE ss == Turns(b, t)
<1>1. \A i \in 1..Len(t) : When(b[i], t[i]) \in Seq(X)
  BY WhenType
<1>2. ss \in Seq(Seq(X)) /\ Len(ss) = Len(t) /\ Len(t) \in Nat
  BY <1>1 DEF Turns
<1>3. \A i \in 1..Len(t) : FlatMap(f, ss[i]) = When(b[i], FlatMap(f, t[i]))
  <2> TAKE i \in 1..Len(t)
  <2>1. t[i] \in Seq(X) /\ ss[i] = When(b[i], t[i])
    BY DEF Turns
  <2> HIDE DEF ss
  <2>2. FlatMap(f, When(b[i], t[i])) = When(b[i], FlatMap(f, t[i]))
    BY <2>1, FlatMapWhen, Z3
  <2> QED
    BY <2>1, <2>2, Zenon
<1> HIDE DEF ss
<1>4. Flatten(ss) \in Seq(X)
  BY <1>2, FlattenType, Zenon
<1>5. FlatMap(f, Flatten(ss)) = Flatten(Each(f, ss))
  BY <1>2, FlatMapFlatten, Z3
<1>6. Each(f, ss) = Turns(b, Each(f, t))
  <2>1. Len(Each(f, t)) = Len(t) /\ \A i \in 1..Len(t) : Each(f, t)[i] = FlatMap(f, t[i])
    BY <1>2 DEF Each
  <2>2. Each(f, ss) = [i \in 1..Len(t) |-> FlatMap(f, ss[i])]
    BY <1>2, Zenon DEF Each
  <2>3. Turns(b, Each(f, t)) = [i \in 1..Len(t) |-> When(b[i], Each(f, t)[i])]
    BY <2>1, Zenon DEF Turns
  <2> QED
    BY <1>3, <2>1, <2>2, <2>3, Zenon
<1> QED
  BY <1>4, <1>5, <1>6, Zenon DEF ss

\* What ProcPolicy says of the lengths.
LEMMA PolicyIs ==
  ASSUME NEW q, ProcPolicy(q)
  PROVE  /\ q.dryRun \in BOOLEAN
         /\ Len(q.groups) \in Nat /\ DOMAIN q.groups = 1..Len(q.groups)
         /\ \A g \in 1..Len(q.groups) :
              /\ q.groups[g].match \in BOOLEAN
              /\ Len(q.groups[g].rules) \in Nat
              /\ DOMAIN q.groups[g].rules = 1..Len(q.groups[g].rules)
              /\ \A i \in 1..Len(q.groups[g].rules) :
                   LET r == q.groups[g].rules[i] IN
                   /\ r.dryRun \in BOOLEAN
                   /\ Len(r.mutations) \in Nat /\ DOMAIN r.mutations = 1..Len(r.mutations)
BY Zenon DEF ProcPolicy, IsSeq

\* And of the mutations of a rule.
LEMMA RuleIs ==
  ASSUME NEW q, ProcPolicy(q), NEW g \in 1..Len(q.groups), NEW i \in 1..Len(q.groups[g].rules),
         NEW r, r = q.groups[g].rules[i]
  PROVE  /\ Len(r.mutations) \in Nat /\ DOMAIN r.mutations = 1..Len(r.mutations)
         /\ \A m \in 1..Len(r.mutations) :
              r.mutations[m].op = "directResponse" => Len(r.mutations) = 1
<1>1. g \in DOMAIN q.groups
  BY PolicyIs, Zenon
<1>2. PICK u : u = q.groups[g]
  OBVIOUS
<1>3. i \in DOMAIN u.rules
  BY <1>2, PolicyIs, Zenon
<1>4. PICK ms : ms = r.mutations
  OBVIOUS
<1>5. IsSeq(ms) /\ \A m \in DOMAIN ms : ms[m].op = "directResponse" => Len(ms) = 1
  BY <1>1, <1>2, <1>3, <1>4, Zenon DEF ProcPolicy
<1> QED
  BY <1>2, <1>4, <1>5, Zenon DEF IsSeq

\* The mutations of a rule, and all that EvaluateProc may give.
MutsOf(r, g, i) == {Resolved(r, g, i, m) : m \in 1..Len(r.mutations)}
Muts(q) == UNION {UNION {MutsOf(q.groups[g].rules[i], g, i) : i \in 1..Len(q.groups[g].rules)}
                    : g \in 1..Len(q.groups)}

\* resolveMutations gives mutations of its rule.
LEMMA ResolveType ==
  ASSUME NEW r, NEW h, NEW g, NEW i, Len(r.mutations) \in Nat
  PROVE  resolveMutations(r, h, g, i) \in Seq(MutsOf(r, g, i))
<1> DEFINE n == Len(r.mutations)
           X == MutsOf(r, g, i)
           b(m) == r.mutations[m].op = "removeHeader" \/ <<g, i, m>> \in h
           ss == [m \in 1..n |-> When(b(m), <<Resolved(r, g, i, m)>>)]
<1>1. \A m \in 1..n : Resolved(r, g, i, m) \in X
  BY Zenon DEF MutsOf
<1> HIDE DEF X
<1>2. \A x \in X : <<x>> \in Seq(X)
  OBVIOUS
<1>3. \A m \in 1..n : <<Resolved(r, g, i, m)>> \in Seq(X)
  BY <1>1, <1>2, Zenon
<1>4. \A m \in 1..n : When(b(m), <<Resolved(r, g, i, m)>>) \in Seq(X)
  BY <1>3, WhenType, Zenon
<1> HIDE DEF b
<1>5. \A e : e \in [1..n -> Seq(X)] => e \in Seq(Seq(X))
  OBVIOUS
<1>6. ss \in Seq(Seq(X))
  BY <1>4, <1>5, Zenon
<1>7. Flatten(ss) \in Seq(X)
  BY <1>6, FlattenType, Zenon
<1> QED
  BY <1>7, Zenon DEF resolveMutations, X, b

\* A sequence of elements of a smaller set.
LEMMA SeqMono ==
  ASSUME NEW A, NEW B, A \subseteq B, NEW s \in Seq(A)
  PROVE  s \in Seq(B)
OBVIOUS

\* They are among those of the policy.
LEMMA ResolveMuts ==
  ASSUME NEW q, ProcPolicy(q), NEW h, NEW g \in 1..Len(q.groups), NEW i \in 1..Len(q.groups[g].rules)
  PROVE  /\ MutsOf(q.groups[g].rules[i], g, i) \subseteq Muts(q)
         /\ resolveMutations(q.groups[g].rules[i], h, g, i) \in Seq(Muts(q))
<1>1. MutsOf(q.groups[g].rules[i], g, i) \subseteq Muts(q)
  BY DEF Muts
<1>2. Len(q.groups[g].rules[i].mutations) \in Nat
  BY PolicyIs, Zenon
<1>3. resolveMutations(q.groups[g].rules[i], h, g, i) \in Seq(MutsOf(q.groups[g].rules[i], g, i))
  BY <1>2, ResolveType, Zenon
<1> QED
  BY <1>1, <1>3, SeqMono

\* The loops of EvaluateProc around a loop over what resolveMutations gives.
Loops(q, phase, h, f) ==
  Flatten([g \in 1..Len(q.groups) |->
    When(Runs(q.groups[g], phase, h, g),
         Flatten([i \in 1..Len(q.groups[g].rules) |->
           When(i \in Chosen(q.groups[g], h, g),
                FlatMap(f, resolveMutations(q.groups[g].rules[i], h, g, i)))]))])

\* A loop over what EvaluateProc gives is the loops of EvaluateProc with that loop inside.
LEMMA EvaluateMap ==
  ASSUME NEW q, ProcPolicy(q), NEW phase, NEW h, NEW Y, NEW f, Maps(f, Muts(q), Y)
  PROVE  /\ EvaluateProc(q, phase, h) \in Seq(Muts(q))
         /\ \A g \in 1..Len(q.groups) : \A i \in 1..Len(q.groups[g].rules) :
              FlatMap(f, resolveMutations(q.groups[g].rules[i], h, g, i)) \in Seq(Y)
         /\ FlatMap(f, EvaluateProc(q, phase, h)) = Loops(q, phase, h, f)
<1> DEFINE X == Muts(q)
           N == Len(q.groups)
           M(g) == Len(q.groups[g].rules)
           res(g, i) == resolveMutations(q.groups[g].rules[i], h, g, i)
           in(g, i) == i \in Chosen(q.groups[g], h, g)
           grp(g) == GroupMutations(q.groups[g], h, g)
           run(g) == Runs(q.groups[g], phase, h, g)
           part(g) == Flatten([i \in 1..M(g) |-> When(in(g, i), FlatMap(f, res(g, i)))])
<1>1. N \in Nat /\ \A g \in 1..N : M(g) \in Nat
  BY PolicyIs, Zenon
<1>2. \A g \in 1..N : \A i \in 1..M(g) : res(g, i) \in Seq(X)
  BY ResolveMuts, Zenon
<1>3. \A g \in 1..N : grp(g) = Flatten([i \in 1..M(g) |-> When(in(g, i), res(g, i))])
  BY Zenon DEF GroupMutations
<1>4. EvaluateProc(q, phase, h) = Flatten([g \in 1..N |-> When(run(g), grp(g))])
  BY Zenon DEF EvaluateProc
<1>f. Maps(f, X, Y)
  OBVIOUS
<1> HIDE DEF X, N, M, res, in, grp, run
<1>5. \A g \in 1..N : \A i \in 1..M(g) : FlatMap(f, res(g, i)) \in Seq(Y)
  BY <1>f, <1>2, FlatMapType, Zenon
<1>6. \A g \in 1..N : grp(g) \in Seq(X) /\ FlatMap(f, grp(g)) = part(g)
  <2> SUFFICES ASSUME NEW g \in 1..N PROVE grp(g) \in Seq(X) /\ FlatMap(f, grp(g)) = part(g)
    OBVIOUS
  <2> DEFINE b == [i \in 1..M(g) |-> in(g, i)]
             t == [i \in 1..M(g) |-> res(g, i)]
  <2>1. t \in Seq(Seq(X)) /\ Len(t) = M(g)
    BY <1>1, <1>2
  <2>2. Turns(b, t) = [i \in 1..M(g) |-> When(in(g, i), res(g, i))]
    BY <2>1, Zenon DEF Turns
  <2>3. Turns(b, Each(f, t)) = [i \in 1..M(g) |-> When(in(g, i), FlatMap(f, res(g, i)))]
    <3>1. Each(f, t) = [i \in 1..M(g) |-> FlatMap(f, res(g, i))]
      BY <2>1, Zenon DEF Each
    <3>2. Len(Each(f, t)) = M(g)
      BY <1>1, <3>1
    <3> HIDE DEF t
    <3>3. \A i \in 1..M(g) : Each(f, t)[i] = FlatMap(f, res(g, i))
      BY <3>1, Zenon
    <3> QED
      BY <3>2, <3>3, Zenon DEF Turns
  <2> HIDE DEF b, t
  <2>4. /\ Flatten(Turns(b, t)) \in Seq(X)
        /\ FlatMap(f, Flatten(Turns(b, t))) = Flatten(Turns(b, Each(f, t)))
    BY <1>f, <2>1, FlatMapTurns, Z3
  <2> QED
    BY <1>3, <2>2, <2>3, <2>4, Zenon
<1>7. /\ EvaluateProc(q, phase, h) \in Seq(X)
      /\ FlatMap(f, EvaluateProc(q, phase, h)) = Flatten([g \in 1..N |-> When(run(g), part(g))])
  <2> HIDE DEF part
  <2> DEFINE b == [g \in 1..N |-> run(g)]
             t == [g \in 1..N |-> grp(g)]
  <2>1. t \in Seq(Seq(X)) /\ Len(t) = N
    BY <1>1, <1>6
  <2>2. Turns(b, t) = [g \in 1..N |-> When(run(g), grp(g))]
    BY <2>1, Zenon DEF Turns
  <2>3. Turns(b, Each(f, t)) = [g \in 1..N |-> When(run(g), part(g))]
    <3>1. Each(f, t) = [g \in 1..N |-> part(g)]
      BY <1>6, <2>1, Zenon DEF Each
    <3>2. Len(Each(f, t)) = N
      BY <1>1, <3>1
    <3> HIDE DEF t
    <3>3. \A g \in 1..N : Each(f, t)[g] = part(g)
      BY <3>1, Zenon
    <3> QED
      BY <3>2, <3>3, Zenon DEF Turns
  <2> HIDE DEF b, t
  <2>4. /\ Flatten(Turns(b, t)) \in Seq(X)
        /\ FlatMap(f, Flatten(Turns(b, t))) = Flatten(Turns(b, Each(f, t)))
    BY <1>f, <2>1, FlatMapTurns, Z3
  <2> QED
    BY <1>4, <2>2, <2>3, <2>4, Zenon
<1> QED
  BY <1>5, <1>7, Zenon DEF X, N, M, res, in, run, part, Loops

-----------------------------------------------------------------------------
(* The loops of handleProcResult over what EvaluateProc gave.              *)

Kept(q, X)      == [x \in X |-> When(~Dry(q, x), <<x>>)]
DirectOf(q, X)  == [x \in X |-> When(x.op = "directResponse" /\ ~Dry(q, x), <<x>>)]
AppliedOf(q, X) == [x \in X |-> When(x.op # "directResponse" /\ ~Dry(q, x), <<x>>)]

\* They keep or drop each mutation.
LEMMA FiltersMap ==
  ASSUME NEW q, NEW X
  PROVE  Maps(Kept(q, X), X, X) /\ Maps(DirectOf(q, X), X, X) /\ Maps(AppliedOf(q, X), X, X)
<1>1. \A x \in X : <<x>> \in Seq(X)
  OBVIOUS
<1>2. \A x \in X : /\ When(~Dry(q, x), <<x>>) \in Seq(X)
                   /\ When(x.op = "directResponse" /\ ~Dry(q, x), <<x>>) \in Seq(X)
                   /\ When(x.op # "directResponse" /\ ~Dry(q, x), <<x>>) \in Seq(X)
  BY <1>1, WhenType, Zenon
<1> QED
  BY <1>2, Zenon DEF Maps, Kept, DirectOf, AppliedOf

\* The loops as loops over a function's values.
LEMMA FiltersAre ==
  ASSUME NEW q, NEW X, NEW s \in Seq(X)
  PROVE  /\ Direct(q, s) = FlatMap(DirectOf(q, X), s)
         /\ Applied(q, s) = FlatMap(AppliedOf(q, X), s)
<1>1. \A n \in 1..Len(s) : s[n] \in X
  OBVIOUS
<1>2. /\ [n \in 1..Len(s) |-> DirectOf(q, X)[s[n]]]
         = [n \in 1..Len(s) |-> When(s[n].op = "directResponse" /\ ~Dry(q, s[n]), <<s[n]>>)]
      /\ [n \in 1..Len(s) |-> AppliedOf(q, X)[s[n]]]
         = [n \in 1..Len(s) |-> When(s[n].op # "directResponse" /\ ~Dry(q, s[n]), <<s[n]>>)]
  BY <1>1, Zenon DEF DirectOf, AppliedOf
<1> QED
  BY <1>2, Zenon DEF Direct, Applied, FlatMap

\* The turns of a loop over the enforced ones.
KeptTurns(q, f, s) == [n \in 1..Len(s) |-> When(~Dry(q, s[n]), f[s[n]])]

\* A loop over the enforced mutations.
LEMMA FlatMapKept ==
  ASSUME NEW q, NEW X, NEW Y, NEW f, Maps(f, X, Y), NEW s \in Seq(X)
  PROVE  /\ FlatMap(Kept(q, X), s) \in Seq(X)
         /\ FlatMap(f, FlatMap(Kept(q, X), s)) = Flatten(KeptTurns(q, f, s))
<1> DEFINE k == Kept(q, X)
           t == [n \in 1..Len(s) |-> k[s[n]]]
<1>1. Maps(k, X, X)
  BY FiltersMap, Zenon
<1>2. \A n \in 1..Len(s) : s[n] \in X /\ <<s[n]>> \in Seq(X)
  OBVIOUS
<1>3. \A n \in 1..Len(s) : k[s[n]] = When(~Dry(q, s[n]), <<s[n]>>)
  BY <1>2, Zenon DEF Kept
<1> HIDE DEF k
<1>4. t \in Seq(Seq(X)) /\ FlatMap(k, s) \in Seq(X)
  BY <1>1, FlatMapType, Z3
<1>5. FlatMap(k, s) = Flatten(t)
  BY Zenon DEF FlatMap
<1>6. Len(t) = Len(s) /\ \A n \in 1..Len(s) : t[n] = k[s[n]]
  OBVIOUS
<1>7. \A n \in 1..Len(s) : FlatMap(f, k[s[n]]) = When(~Dry(q, s[n]), f[s[n]])
  <2> TAKE n \in 1..Len(s)
  <2>1. PICK x \in X : x = s[n]
    BY <1>2, Zenon
  <2>2. FlatMap(f, <<x>>) = f[x] /\ <<x>> \in Seq(X)
    BY FlatMapOne, Z3
  <2>3. FlatMap(f, When(~Dry(q, x), <<x>>)) = When(~Dry(q, x), FlatMap(f, <<x>>))
    BY <2>2, FlatMapWhen, Z3
  <2> QED
    BY <1>3, <2>1, <2>2, <2>3, Zenon
<1>8. Each(f, t) = KeptTurns(q, f, s)
  BY <1>6, <1>7, Zenon DEF Each, KeptTurns
<1> HIDE DEF t
<1>9. FlatMap(f, Flatten(t)) = Flatten(Each(f, t))
  BY <1>4, FlatMapFlatten, Z3
<1> QED
  BY <1>4, <1>5, <1>8, <1>9, Zenon DEF k

\* handleProcResult looks at the enforced mutations only.
LEMMA HandleKept ==
  ASSUME NEW q, NEW p, ~p.dryRun, NEW X, NEW s \in Seq(X), NEW phase
  PROVE  handleProcResult(p, phase, FlatMap(Kept(q, X), s)) = handleProcResult(q, phase, s)
<1> DEFINE u == FlatMap(Kept(q, X), s)
<1>1. \A x : /\ When(~Dry(q, x), When(x.op = "directResponse" /\ ~Dry(p, x), <<x>>))
                = When(x.op = "directResponse" /\ ~Dry(q, x), <<x>>)
             /\ When(~Dry(q, x), When(x.op # "directResponse" /\ ~Dry(p, x), <<x>>))
                = When(x.op # "directResponse" /\ ~Dry(q, x), <<x>>)
  BY Zenon DEF When, Dry
<1>2. \A n \in 1..Len(s) : s[n] \in X
  OBVIOUS
<1>3. u \in Seq(X)
  BY FlatMapType, FiltersMap, Z3
<1>4. Direct(p, u) = Direct(q, s)
  <2>1. Direct(p, u) = FlatMap(DirectOf(p, X), u)
    BY <1>3, FiltersAre, Zenon
  <2>2. FlatMap(DirectOf(p, X), u) = Flatten(KeptTurns(q, DirectOf(p, X), s))
    <3>1. Maps(DirectOf(p, X), X, X)
      BY FiltersMap, Zenon
    <3> QED
      BY <3>1, FlatMapKept, Z3
  <2>3. KeptTurns(q, DirectOf(p, X), s)
        = [n \in 1..Len(s) |-> When(s[n].op = "directResponse" /\ ~Dry(q, s[n]), <<s[n]>>)]
    BY <1>1, <1>2, Zenon DEF DirectOf, KeptTurns
  <2> QED
    BY <2>1, <2>2, <2>3, Zenon DEF Direct
<1>5. Applied(p, u) = Applied(q, s)
  <2>1. Applied(p, u) = FlatMap(AppliedOf(p, X), u)
    BY <1>3, FiltersAre, Zenon
  <2>2. FlatMap(AppliedOf(p, X), u) = Flatten(KeptTurns(q, AppliedOf(p, X), s))
    <3>1. Maps(AppliedOf(p, X), X, X)
      BY FiltersMap, Zenon
    <3> QED
      BY <3>1, FlatMapKept, Z3
  <2>3. KeptTurns(q, AppliedOf(p, X), s)
        = [n \in 1..Len(s) |-> When(s[n].op # "directResponse" /\ ~Dry(q, s[n]), <<s[n]>>)]
    BY <1>1, <1>2, Zenon DEF AppliedOf, KeptTurns
  <2> QED
    BY <2>1, <2>2, <2>3, Zenon DEF Applied
<1> QED
  BY <1>4, <1>5, Zenon DEF handleProcResult

\* What a stripped rule gives is what is kept of the rule's.
StripsTo(q, h, g, i) ==
  resolveMutations(StripRule(q, q.groups[g].rules[i]), h, g, i)
    = FlatMap(Kept(q, Muts(q)), resolveMutations(q.groups[g].rules[i], h, g, i))

\* A rule without its mutations, if it is shadowed, gives what is kept of it.
LEMMA StripResolves ==
  ASSUME NEW q, ProcPolicy(q), NEW h, NEW g \in 1..Len(q.groups), NEW i \in 1..Len(q.groups[g].rules)
  PROVE  StripsTo(q, h, g, i)
<1> USE DEF StripsTo
<1>1. PICK r : r = q.groups[g].rules[i]
  OBVIOUS
<1> DEFINE s == resolveMutations(r, h, g, i)
           X == Muts(q)
           k == Kept(q, X)
<1>2. s \in Seq(MutsOf(r, g, i)) /\ s \in Seq(X) /\ MutsOf(r, g, i) \subseteq X
  <2>1. Len(r.mutations) \in Nat
    BY <1>1, PolicyIs, Zenon
  <2> QED
    BY <1>1, <2>1, ResolveMuts, ResolveType, Zenon
<1>3. \A x \in MutsOf(r, g, i) : x.dryRun = r.dryRun
  BY DEF MutsOf, Resolved
<1>4. Maps(k, X, X) /\ \A x \in X : k[x] = When(~Dry(q, x), <<x>>)
  BY FiltersMap, Zenon DEF Kept
<1> HIDE DEF s, X, k
<1>5. \A n \in 1..Len(s) : s[n] \in MutsOf(r, g, i)
  BY <1>2
<1>6. CASE q.dryRun \/ r.dryRun
  <2>1. Drops(k, s)
    BY <1>2, <1>3, <1>4, <1>5, <1>6, Zenon DEF When, Dry, Drops
  <2>2. FlatMap(k, s) = <<>>
    BY <1>2, <1>4, <2>1, FlatMapUniform, Z3
  <2>3. StripRule(q, r).mutations = <<>>
    BY <1>6 DEF StripRule
  <2>4. PICK p : p = StripRule(q, r)
    OBVIOUS
  <2>5. resolveMutations(p, h, g, i) = Flatten(<<>>)
    BY <2>3, <2>4 DEF resolveMutations
  <2> QED
    BY <1>1, <2>2, <2>4, <2>5, FlattenEmpty, Zenon DEF s, X, k
<1>7. CASE ~(q.dryRun \/ r.dryRun)
  <2>1. Keeps(k, s)
    BY <1>2, <1>3, <1>4, <1>5, <1>7, Zenon DEF When, Dry, Keeps
  <2>2. FlatMap(k, s) = s
    BY <1>2, <1>4, <2>1, FlatMapUniform, Z3
  <2>3. PICK p : p = StripRule(q, r)
    OBVIOUS
  <2>4. p.mutations = r.mutations /\ p.dryRun = r.dryRun
    BY <1>7, <2>3 DEF StripRule
  <2>5. \A m : Resolved(p, g, i, m) = Resolved(r, g, i, m)
    BY <2>4, Zenon DEF Resolved
  <2>6. resolveMutations(p, h, g, i) = resolveMutations(r, h, g, i)
    BY <2>4, <2>5, Zenon DEF resolveMutations
  <2> QED
    BY <1>1, <2>2, <2>3, <2>6, Zenon DEF s, X, k
<1> QED
  BY <1>6, <1>7

\* The stripped policy gives what is kept of the policy.
LEMMA StripEvaluates ==
  ASSUME NEW q, ProcPolicy(q), NEW phase, NEW h
  PROVE  EvaluateProc(Stripped(q), phase, h) = FlatMap(Kept(q, Muts(q)), EvaluateProc(q, phase, h))
<1> DEFINE p == Stripped(q)
           N == Len(q.groups)
<1>1. N \in Nat /\ DOMAIN q.groups = 1..N
  BY PolicyIs, Zenon
<1>2. Len(p.groups) = N /\ \A g \in 1..N : p.groups[g] = StripGroup(q, q.groups[g])
  BY <1>1 DEF Stripped
<1>3. ASSUME NEW g \in 1..N
      PROVE  /\ Runs(p.groups[g], phase, h, g) = Runs(q.groups[g], phase, h, g)
             /\ GroupMutations(p.groups[g], h, g)
                = Flatten([i \in 1..Len(q.groups[g].rules) |->
                    When(i \in Chosen(q.groups[g], h, g),
                         FlatMap(Kept(q, Muts(q)), resolveMutations(q.groups[g].rules[i], h, g, i)))])
  <2>1. PICK u, v : u = q.groups[g] /\ v = StripGroup(q, u)
    OBVIOUS
  <2> DEFINE M == Len(u.rules)
  <2>2. M \in Nat /\ DOMAIN u.rules = 1..M
    BY <2>1, PolicyIs, Zenon
  <2>3. /\ v.engine = u.engine /\ v.phase = u.phase /\ v.mode = u.mode /\ v.match = u.match
        /\ v.rules = [i \in DOMAIN u.rules |-> StripRule(q, u.rules[i])]
    BY <2>1 DEF StripGroup
  <2>4. Len(v.rules) = M /\ DOMAIN v.rules = 1..M /\ \A i \in 1..M : v.rules[i] = StripRule(q, u.rules[i])
    BY <2>2, <2>3
  <2>5. Runs(v, phase, h, g) = Runs(u, phase, h, g)
    BY <2>3, Zenon DEF Runs
  <2>6. Chosen(v, h, g) = Chosen(u, h, g)
    BY <2>2, <2>3, <2>4, Zenon DEF Chosen
  <2>7. \A i \in 1..M : resolveMutations(v.rules[i], h, g, i)
                        = FlatMap(Kept(q, Muts(q)), resolveMutations(u.rules[i], h, g, i))
    <3> TAKE i \in 1..M
    <3>1. g \in 1..Len(q.groups) /\ i \in 1..Len(q.groups[g].rules)
      BY <1>1, <2>1, Zenon
    <3>2. StripsTo(q, h, g, i)
      BY <3>1, StripResolves, Zenon
    <3> QED
      BY <2>1, <2>4, <3>2, Zenon DEF StripsTo
  <2>8. GroupMutations(v, h, g)
        = Flatten([i \in 1..M |->
            When(i \in Chosen(u, h, g), FlatMap(Kept(q, Muts(q)), resolveMutations(u.rules[i], h, g, i)))])
    BY <2>4, <2>6, <2>7, Zenon DEF GroupMutations
  <2>9. p.groups[g] = v
    BY <1>2, <2>1, Zenon
  <2> QED
    BY <2>1, <2>5, <2>8, <2>9, Zenon
<1>4. Maps(Kept(q, Muts(q)), Muts(q), Muts(q))
  BY FiltersMap, Zenon
<1> HIDE DEF p, N
<1>5. EvaluateProc(p, phase, h) = Loops(q, phase, h, Kept(q, Muts(q)))
  BY <1>2, <1>3, Zenon DEF EvaluateProc, Loops, N
<1>6. FlatMap(Kept(q, Muts(q)), EvaluateProc(q, phase, h)) = Loops(q, phase, h, Kept(q, Muts(q)))
  BY <1>4, EvaluateMap, Z3
<1> QED
  BY <1>5, <1>6, Zenon DEF p

\* Under global dry-run there is nothing to serve and nothing to apply.
LEMMA DryHandled ==
  ASSUME NEW q, q.dryRun, NEW X, NEW s \in Seq(X), NEW phase
  PROVE  handleProcResult(q, phase, s) = Continue(phase, NoMutation)
<1>1. \A n \in 1..Len(s) : s[n] \in X
  OBVIOUS
<1>2. \A x \in X : DirectOf(q, X)[x] = <<>> /\ AppliedOf(q, X)[x] = <<>>
  BY Zenon DEF DirectOf, AppliedOf, When, Dry
<1>3. FlatMap(DirectOf(q, X), s) = <<>> /\ FlatMap(AppliedOf(q, X), s) = <<>>
  <2>1. PICK f, e : f = DirectOf(q, X) /\ e = AppliedOf(q, X)
    OBVIOUS
  <2>2. Maps(f, X, X) /\ Drops(f, s) /\ Maps(e, X, X) /\ Drops(e, s)
    BY <1>1, <1>2, <2>1, FiltersMap, Zenon DEF Drops
  <2>3. FlatMap(f, s) = <<>> /\ FlatMap(e, s) = <<>>
    BY <2>2, FlatMapUniform, Z3
  <2> QED
    BY <2>1, <2>3, Zenon
<1>4. Direct(q, s) = <<>> /\ Applied(q, s) = <<>>
  BY <1>3, FiltersAre, Zenon
<1>5. buildMutations(<<>>) = NoMutation
  BY FlattenEmpty DEF buildMutations, setHeaders, removeHeaders, bodies, NoMutation, When
<1> QED
  BY <1>4, <1>5, Zenon DEF handleProcResult

-----------------------------------------------------------------------------
(* The first directResponse.                                               *)

\* One sequence alone.
LEMMA FlattenOne ==
  ASSUME NEW X, NEW s \in Seq(X)
  PROVE  Flatten(<<s>>) = s
<1>0. <<>> \in Seq(Seq(X))
  OBVIOUS
<1>1. PICK e \in Seq(Seq(X)) : e = <<>>
  BY <1>0, Zenon
<1>2. <<s>> = Append(e, s)
  BY <1>1
<1>3. Flatten(Append(e, s)) = Flatten(e) \o s
  BY FlattenAppend, Z3
<1>4. <<>> \o s = s
  OBVIOUS
<1> QED
  BY <1>1, <1>2, <1>3, <1>4, FlattenEmpty, Zenon

\* Rule i of group g gives a directResponse that is enforced.
Serves(q, h, g, i) ==
  LET r == q.groups[g].rules[i] IN
  /\ ~q.dryRun /\ ~r.dryRun
  /\ \E m \in DOMAIN r.mutations : r.mutations[m].op = "directResponse" /\ <<g, i, m>> \in h

\* A rule gives a direct response exactly if it serves one, and then its own.
ServesIs(q, h, g, i) ==
  LET r == q.groups[g].rules[i]
      d == FlatMap(DirectOf(q, Muts(q)), resolveMutations(r, h, g, i))
  IN  /\ d # <<>> <=> Serves(q, h, g, i)
      /\ d # <<>> => d[1].value = r.mutations[1].value

\* The directResponse of a rule, which is its only mutation.
LEMMA RuleServes ==
  ASSUME NEW q, ProcPolicy(q), NEW h, NEW g \in 1..Len(q.groups), NEW i \in 1..Len(q.groups[g].rules)
  PROVE  ServesIs(q, h, g, i)
<1> USE DEF ServesIs
<1>1. PICK r : r = q.groups[g].rules[i]
  OBVIOUS
<1> DEFINE s == resolveMutations(r, h, g, i)
           X == Muts(q)
           f == DirectOf(q, X)
<1>2. /\ Len(r.mutations) \in Nat /\ DOMAIN r.mutations = 1..Len(r.mutations)
      /\ \A m \in DOMAIN r.mutations : r.mutations[m].op = "directResponse" => Len(r.mutations) = 1
  <2>1. /\ Len(r.mutations) \in Nat /\ DOMAIN r.mutations = 1..Len(r.mutations)
        /\ \A m \in 1..Len(r.mutations) :
             r.mutations[m].op = "directResponse" => Len(r.mutations) = 1
    BY <1>1, RuleIs, ZenonT(30)
  <2> QED
    BY <2>1, Zenon
<1>3. s \in Seq(MutsOf(r, g, i)) /\ s \in Seq(X) /\ MutsOf(r, g, i) \subseteq X
  BY <1>1, <1>2, ResolveMuts, ResolveType, Zenon
<1>4. \A m \in 1..Len(r.mutations) :
        LET x == Resolved(r, g, i, m) IN
        /\ x \in MutsOf(r, g, i)
        /\ x.op = r.mutations[m].op /\ x.value = r.mutations[m].value /\ x.dryRun = r.dryRun
  BY Zenon DEF MutsOf, Resolved
<1>5. Maps(f, X, X) /\ \A x \in X : f[x] = When(x.op = "directResponse" /\ ~Dry(q, x), <<x>>)
  BY FiltersMap, Zenon DEF DirectOf
<1> HIDE DEF X, f
<1>6. CASE \E m \in DOMAIN r.mutations : r.mutations[m].op = "directResponse"
  <2>1. Len(r.mutations) = 1 /\ DOMAIN r.mutations = {1} /\ r.mutations[1].op = "directResponse"
    <3>1. PICK m \in DOMAIN r.mutations : r.mutations[m].op = "directResponse"
      BY <1>6
    <3>2. Len(r.mutations) = 1
      BY <1>2, <3>1, Zenon
    <3>3. DOMAIN r.mutations = {1}
      BY <1>2, <3>2
    <3> QED
      BY <3>1, <3>2, <3>3, Zenon
  <2>2. PICK x : x = Resolved(r, g, i, 1)
    OBVIOUS
  <2>3. /\ x \in X /\ x.op = "directResponse" /\ x.value = r.mutations[1].value
        /\ x.dryRun = r.dryRun
    <3>1. 1 \in 1..Len(r.mutations)
      BY <2>1
    <3> QED
      BY <1>3, <1>4, <2>1, <2>2, <3>1, Zenon
  <2>4. s = When(<<g, i, 1>> \in h, <<x>>)
    <3> DEFINE turn(m) == When(r.mutations[m].op = "removeHeader" \/ <<g, i, m>> \in h,
                               <<Resolved(r, g, i, m)>>)
    <3>1. s = Flatten([m \in 1..1 |-> turn(m)])
      BY <2>1, Zenon DEF resolveMutations
    <3>2. turn(1) = When(<<g, i, 1>> \in h, <<x>>)
      <4>1. "directResponse" # "removeHeader"
        OBVIOUS
      <4> QED
        BY <2>1, <2>2, <4>1, Zenon DEF When
    <3>3. <<x>> \in Seq(X)
      BY <2>3
    <3> HIDE DEF turn
    <3>4. [m \in 1..1 |-> turn(m)] = <<turn(1)>>
      OBVIOUS
    <3>5. turn(1) \in Seq(X)
      BY <3>2, <3>3, WhenType, Zenon
    <3> QED
      BY <3>1, <3>2, <3>4, <3>5, FlattenOne, Zenon
  <2>5. FlatMap(f, s) = When(<<g, i, 1>> \in h, When(x.op = "directResponse" /\ ~Dry(q, x), <<x>>))
    <3>1. FlatMap(f, <<x>>) = f[x] /\ <<x>> \in Seq(X)
      BY <1>5, <2>3, FlatMapOne, Z3
    <3>2. PICK b, y : b = (<<g, i, 1>> \in h) /\ y = <<x>>
      BY Zenon
    <3>3. FlatMap(f, When(b, y)) = When(b, FlatMap(f, y))
      <4>1. Maps(f, X, X) /\ y \in Seq(X)
        BY <1>5, <3>1, <3>2, Zenon
      <4> QED
        BY <4>1, FlatMapWhen, Z3
    <3> QED
      BY <1>5, <2>3, <2>4, <3>1, <3>2, <3>3, Zenon
  <2>6. Serves(q, h, g, i) <=> ~q.dryRun /\ ~r.dryRun /\ <<g, i, 1>> \in h
    BY <1>1, <2>1, Zenon DEF Serves
  <2>7. <<x>> # <<>> /\ <<x>>[1] = x
    OBVIOUS
  <2> QED
    BY <1>1, <2>3, <2>5, <2>6, <2>7, Zenon DEF When, Dry, f, X
<1>7. CASE ~\E m \in DOMAIN r.mutations : r.mutations[m].op = "directResponse"
  <2>1. \A x \in MutsOf(r, g, i) : x.op # "directResponse"
    BY <1>2, <1>7 DEF MutsOf, Resolved
  <2>2. \A n \in 1..Len(s) : s[n] \in MutsOf(r, g, i)
    BY <1>3
  <2>3. Drops(f, s)
    BY <1>3, <1>5, <2>1, <2>2, Zenon DEF Drops, When
  <2>4. FlatMap(f, s) = <<>>
    BY <1>3, <1>5, <2>3, FlatMapUniform, Z3
  <2>5. ~Serves(q, h, g, i)
    BY <1>1, <1>7, Zenon DEF Serves
  <2> QED
    BY <1>1, <2>4, <2>5, Zenon DEF f, X
<1> QED
  BY <1>6, <1>7

\* The turn of rule i of group g appends something, and it is the first that does.
Gives(q, phase, h, f, g, i) ==
  /\ Runs(q.groups[g], phase, h, g) /\ i \in Chosen(q.groups[g], h, g)
  /\ FlatMap(f, resolveMutations(q.groups[g].rules[i], h, g, i)) # <<>>
GivesFirst(q, phase, h, f, g, i) ==
  /\ Gives(q, phase, h, f, g, i)
  /\ \A k \in 1..g - 1 : \A j \in 1..Len(q.groups[k].rules) : ~Gives(q, phase, h, f, k, j)
  /\ \A j \in 1..i - 1 : ~Gives(q, phase, h, f, g, j)

\* The loops give nothing where no turn gives anything, and start as the first turn that
\* does.
HeadIs(q, phase, h, f) ==
  /\ Loops(q, phase, h, f) = <<>> <=>
       \A g \in 1..Len(q.groups) : \A i \in 1..Len(q.groups[g].rules) :
         ~Gives(q, phase, h, f, g, i)
  /\ \A g \in 1..Len(q.groups) : \A i \in 1..Len(q.groups[g].rules) :
       GivesFirst(q, phase, h, f, g, i) =>
         Loops(q, phase, h, f)[1] = FlatMap(f, resolveMutations(q.groups[g].rules[i], h, g, i))[1]

\* That is what they give.
LEMMA LoopsHead ==
  ASSUME NEW q, ProcPolicy(q), NEW phase, NEW h, NEW Y, NEW f, Maps(f, Muts(q), Y)
  PROVE  HeadIs(q, phase, h, f)
<1> DEFINE d(g, i) == FlatMap(f, resolveMutations(q.groups[g].rules[i], h, g, i))
           run(g) == Runs(q.groups[g], phase, h, g)
           ch(g, i) == i \in Chosen(q.groups[g], h, g)
           in(g, i) == run(g) /\ ch(g, i) /\ d(g, i) # <<>>
           N == Len(q.groups)
           M(g) == Len(q.groups[g].rules)
           t(g) == [i \in 1..M(g) |-> When(ch(g, i), d(g, i))]
           tt == [g \in 1..N |-> When(run(g), Flatten(t(g)))]
<1>1. N \in Nat /\ \A g \in 1..N : M(g) \in Nat
  BY PolicyIs, Zenon
<1>2. \A g \in 1..N : \A i \in 1..M(g) : d(g, i) \in Seq(Y)
  <2> TAKE g \in 1..N
  <2> TAKE i \in 1..M(g)
  <2>1. PICK s \in Seq(Muts(q)) : s = resolveMutations(q.groups[g].rules[i], h, g, i)
    BY ResolveMuts, Zenon
  <2>2. FlatMap(f, s) \in Seq(Y)
    BY FlatMapType, Z3
  <2> QED
    BY <2>1, <2>2, Zenon
<1>3. Loops(q, phase, h, f) = Flatten(tt)
  BY Zenon DEF Loops
<1> HIDE DEF d, run, ch, N, M
<1>4. ASSUME NEW g \in 1..N
      PROVE  /\ t(g) \in Seq(Seq(Y)) /\ Len(t(g)) = M(g)
             /\ Flatten(t(g)) \in Seq(Y)
             /\ Flatten(t(g)) = <<>> <=> \A i \in 1..M(g) : ~(ch(g, i) /\ d(g, i) # <<>>)
             /\ \A i \in 1..M(g) :
                  ch(g, i) /\ d(g, i) # <<>> /\ (\A j \in 1..i - 1 : ~(ch(g, j) /\ d(g, j) # <<>>))
                  => Flatten(t(g))[1] = d(g, i)[1]
  <2>1. \A i \in 1..M(g) : When(ch(g, i), d(g, i)) \in Seq(Y)
    BY <1>2, WhenType, Zenon
  <2>2. PICK n \in Nat : n = M(g)
    BY <1>1, Zenon
  <2>3. PICK s : s = t(g)
    BY Zenon
  <2>4. s \in Seq(Seq(Y)) /\ Len(s) = n
    BY <2>1, <2>2, <2>3
  <2>5. \A i \in 1..n : s[i] = When(ch(g, i), d(g, i))
    BY <2>2, <2>3, Zenon
  <2> HIDE DEF t
  <2>6. \A i \in 1..n : s[i] = <<>> <=> ~(ch(g, i) /\ d(g, i) # <<>>)
    BY <2>5, Zenon DEF When
  <2>7. \A i \in 1..n : \A j \in 1..i - 1 : j \in 1..n
    OBVIOUS
  <2>8. /\ Flatten(s) = <<>> <=> \A i \in 1..n : s[i] = <<>>
        /\ \A k \in 1..n :
              s[k] # <<>> /\ (\A i \in 1..k - 1 : s[i] = <<>>) => Flatten(s)[1] = s[k][1]
    BY <2>4, FlattenHead, Zenon
  <2>9. \A i \in 1..n : ch(g, i) => s[i] = d(g, i)
    BY <2>5, Zenon DEF When
  <2>10. Flatten(s) \in Seq(Y)
    BY <2>4, FlattenType, Zenon
  <2> QED
    BY <2>2, <2>3, <2>4, <2>6, <2>7, <2>8, <2>9, <2>10, Zenon
<1>5. PICK n \in Nat : n = N
  BY <1>1, Zenon
<1>6. tt \in Seq(Seq(Y)) /\ Len(tt) = n
  <2>1. \A g \in 1..N : When(run(g), Flatten(t(g))) \in Seq(Y)
    BY <1>4, WhenType, Zenon
  <2> HIDE DEF t
  <2> QED
    BY <1>5, <2>1
<1>7. \A g \in 1..n : tt[g] = When(run(g), Flatten(t(g)))
  BY <1>5, Zenon
<1> HIDE DEF t, tt
<1>8. \A g \in 1..n : tt[g] = <<>> <=> \A i \in 1..M(g) : ~in(g, i)
  BY <1>4, <1>5, <1>7, Zenon DEF When
<1>9. /\ Flatten(tt) = <<>> <=> \A g \in 1..n : tt[g] = <<>>
      /\ \A k \in 1..n :
            tt[k] # <<>> /\ (\A i \in 1..k - 1 : tt[i] = <<>>) => Flatten(tt)[1] = tt[k][1]
  BY <1>6, FlattenHead, Zenon
<1>10. \A g \in 1..n : \A k \in 1..g - 1 : k \in 1..n
  OBVIOUS
<1>11. Flatten(tt) = <<>> <=> \A g \in 1..n : \A i \in 1..M(g) : ~in(g, i)
  BY <1>8, <1>9, Zenon
<1>12. ASSUME NEW g \in 1..n, NEW i \in 1..M(g), in(g, i),
              \A k \in 1..g - 1 : \A j \in 1..M(k) : ~in(k, j),
              \A j \in 1..i - 1 : ~in(g, j)
       PROVE  Flatten(tt)[1] = d(g, i)[1]
  <2>1. tt[g] # <<>> /\ \A k \in 1..g - 1 : tt[k] = <<>>
    BY <1>8, <1>10, <1>12, Zenon
  <2>2. tt[g] = Flatten(t(g))
    BY <1>7, <1>12, Zenon DEF When
  <2>3. Flatten(t(g))[1] = d(g, i)[1]
    BY <1>4, <1>5, <1>12, Zenon
  <2> QED
    BY <1>9, <2>1, <2>2, <2>3, Zenon
<1>13. ASSUME NEW g \in 1..n, NEW i \in 1..M(g)
       PROVE  /\ in(g, i)
              /\ \A k \in 1..g - 1 : \A j \in 1..M(k) : ~in(k, j)
              /\ \A j \in 1..i - 1 : ~in(g, j)
              => Flatten(tt)[1] = d(g, i)[1]
  BY <1>12, Zenon
<1> DEFINE first(g, i) == /\ in(g, i)
                          /\ \A k \in 1..g - 1 : \A j \in 1..M(k) : ~in(k, j)
                          /\ \A j \in 1..i - 1 : ~in(g, j)
<1> HIDE DEF in
<1>14. \A g \in 1..n : \A i \in 1..M(g) : first(g, i) => Flatten(tt)[1] = d(g, i)[1]
  BY <1>13, Zenon
<1> HIDE DEF first
<1>15. \A g \in 1..N : \A i \in 1..M(g) : first(g, i) => Loops(q, phase, h, f)[1] = d(g, i)[1]
  <2> TAKE g \in 1..N
  <2> TAKE i \in 1..M(g)
  <2>1. g \in 1..n
    BY <1>5, Zenon
  <2>2. first(g, i) => Flatten(tt)[1] = d(g, i)[1]
    BY <1>14, <2>1, Zenon
  <2> QED
    BY <1>3, <2>2
<1>16. \A g, i : Gives(q, phase, h, f, g, i) <=> in(g, i)
  BY Zenon DEF Gives, in, d, run, ch
<1>17. \A g, i : GivesFirst(q, phase, h, f, g, i) => first(g, i)
  BY <1>16, Zenon DEF GivesFirst, first, M
<1>18. Loops(q, phase, h, f) = <<>> <=>
         \A g \in 1..N : \A i \in 1..M(g) : ~Gives(q, phase, h, f, g, i)
  BY <1>3, <1>5, <1>11, <1>16, Zenon
<1>19. \A g \in 1..N : \A i \in 1..M(g) :
         GivesFirst(q, phase, h, f, g, i) => Loops(q, phase, h, f)[1] = d(g, i)[1]
  BY <1>15, <1>17, Zenon
<1> QED
  BY <1>18, <1>19, Zenon DEF HeadIs, d, N, M

\* The expressions that are a rule's match.
LEMMA RuleExprs ==
  ASSUME NEW q, ProcPolicy(q), NEW phase, NEW x \in Exprs(q, phase), x[2] # 0, x[3] = 0
  PROVE  \E g \in 1..Len(q.groups) : \E i \in 1..Len(q.groups[g].rules) :
           /\ x = <<g, i, 0>>
           /\ q.groups[g].engine = "extProc" /\ q.groups[g].phase = phase
<1> DEFINE groups == {g \in DOMAIN q.groups : q.groups[g].engine = "extProc"
                                             /\ q.groups[g].phase = phase}
           rules  == UNION {{<<g, i, 0>> : i \in DOMAIN q.groups[g].rules} : g \in groups}
           ops(r) == q.groups[r[1]].rules[r[2]].mutations
           own(r) == {<<r[1], r[2], m>> : m \in {n \in DOMAIN ops(r) : ops(r)[n].op # "removeHeader"}}
<1>1. \/ x \in {<<g, 0, 0>> : g \in {h \in groups : q.groups[h].match}}
      \/ x \in rules
      \/ \E r \in rules : x \in own(r)
  BY Zenon DEF Exprs
<1>2. \A y \in rules : \E g \in 1..Len(q.groups) : \E i \in 1..Len(q.groups[g].rules) :
        /\ y = <<g, i, 0>>
        /\ q.groups[g].engine = "extProc" /\ q.groups[g].phase = phase
  <2> TAKE y \in rules
  <2>1. PICK g \in groups : y \in {<<g, i, 0>> : i \in DOMAIN q.groups[g].rules}
    BY Zenon
  <2>2. PICK i \in DOMAIN q.groups[g].rules : y = <<g, i, 0>>
    BY <2>1, Zenon
  <2>3. g \in DOMAIN q.groups /\ q.groups[g].engine = "extProc" /\ q.groups[g].phase = phase
    BY Zenon
  <2>4. g \in 1..Len(q.groups)
    BY <2>3, PolicyIs, Zenon
  <2>5. i \in 1..Len(q.groups[g].rules)
    BY <2>2, <2>4, PolicyIs, Zenon
  <2> QED
    BY <2>2, <2>3, <2>4, <2>5, Zenon
<1>3. ASSUME NEW r \in rules, x \in own(r)
      PROVE  FALSE
  <2>1. PICK m \in DOMAIN ops(r) : x = <<r[1], r[2], m>>
    BY <1>3, Zenon
  <2>2. PICK g \in 1..Len(q.groups) : \E i \in 1..Len(q.groups[g].rules) : r = <<g, i, 0>>
    BY <1>2, Zenon
  <2>3. PICK i \in 1..Len(q.groups[g].rules) : r = <<g, i, 0>>
    BY <2>2, Zenon
  <2>4. r[1] = g /\ r[2] = i /\ x[3] = m
    BY <2>1, <2>3
  <2>5. PICK p : p = q.groups[g].rules[i]
    OBVIOUS
  <2>6. Len(p.mutations) \in Nat /\ DOMAIN p.mutations = 1..Len(p.mutations)
    BY <2>5, PolicyIs, ZenonT(30)
  <2>7. m \in DOMAIN p.mutations
    BY <2>1, <2>4, <2>5, Zenon
  <2> QED
    BY <2>4, <2>6, <2>7
<1>4. CASE x \in {<<g, 0, 0>> : g \in {h \in groups : q.groups[h].match}}
  <2>1. PICK g : x = <<g, 0, 0>>
    BY <1>4, Zenon
  <2> QED
    BY <2>1
<1> QED
  BY <1>1, <1>2, <1>3, <1>4, Zenon

\* Rule i of group g is due.
IsDue(g, i) ==
  /\ Runs(used.groups[g], Phase, holds, g) /\ i \in Chosen(used.groups[g], holds, g)
  /\ Serves(used, holds, g, i)

\* Due holds the rules that the loops get to and that serve a response.
LEMMA DueIs ==
  ASSUME ProcPolicy(used), holds \subseteq Exprs(used, Phase)
  PROVE  /\ \A x \in Due : \E g \in 1..Len(used.groups) : \E i \in 1..Len(used.groups[g].rules) :
              x = <<g, i, 0>> /\ IsDue(g, i)
         /\ \A g \in 1..Len(used.groups) : \A i \in 1..Len(used.groups[g].rules) :
              IsDue(g, i) => <<g, i, 0>> \in Due
<1>1. ASSUME NEW g \in 1..Len(used.groups), NEW i \in 1..Len(used.groups[g].rules), <<g, i, 0>> \in holds
      PROVE  LET grp == used.groups[g] IN
             i \in Chosen(grp, holds, g)
             <=> (grp.mode = "firstMatch" => \A j \in 1..i - 1 : <<g, j, 0>> \notin holds)
  <2>1. PICK grp : grp = used.groups[g]
    OBVIOUS
  <2>2. PICK n \in Nat : n = Len(grp.rules)
    BY <2>1, PolicyIs, Zenon
  <2>3. DOMAIN grp.rules = 1..n /\ i \in 1..n
    BY <2>1, <2>2, PolicyIs, Zenon
  <2> DEFINE matched == {k \in 1..n : <<g, k, 0>> \in holds}
  <2>4. /\ grp.mode = "firstMatch" => Chosen(grp, holds, g) = {k \in matched : \A j \in matched : k <= j}
        /\ grp.mode # "firstMatch" => Chosen(grp, holds, g) = matched
    BY <2>3, Zenon DEF Chosen
  <2>5. i \in matched
    BY <1>1, <2>3, Zenon
  <2>6. (\A j \in matched : i <= j) <=> \A j \in 1..i - 1 : <<g, j, 0>> \notin holds
    <3>1. ASSUME NEW j \in 1..i - 1, \A k \in matched : i <= k
          PROVE  <<g, j, 0>> \notin holds
      <4>1. j \in 1..n /\ ~(i <= j)
        BY <2>3
      <4> QED
        BY <3>1, <4>1, Zenon
    <3>2. ASSUME NEW j \in matched, \A k \in 1..i - 1 : <<g, k, 0>> \notin holds
          PROVE  i <= j
      <4>1. j \in 1..n /\ j \notin 1..i - 1
        BY <3>2, Zenon
      <4> QED
        BY <2>3, <4>1
    <3> QED
      BY <3>1, <3>2, Zenon
  <2> HIDE DEF matched
  <2>7. CASE grp.mode = "firstMatch"
    <3>1. i \in Chosen(grp, holds, g) <=> \A j \in matched : i <= j
      BY <2>4, <2>5, <2>7, Zenon
    <3> QED
      BY <2>1, <2>6, <2>7, <3>1, Zenon
  <2>8. CASE grp.mode # "firstMatch"
    BY <2>1, <2>4, <2>5, <2>8, Zenon
  <2> QED
    BY <2>7, <2>8, Zenon
<1>2. ASSUME NEW x \in Due
      PROVE  \E g \in 1..Len(used.groups) : \E i \in 1..Len(used.groups[g].rules) :
               x = <<g, i, 0>> /\ IsDue(g, i)
  <2>1. x \in holds /\ x[2] # 0 /\ x[3] = 0
    BY Zenon DEF Due
  <2>2. PICK g \in 1..Len(used.groups) : \E i \in 1..Len(used.groups[g].rules) :
           /\ x = <<g, i, 0>>
           /\ used.groups[g].engine = "extProc" /\ used.groups[g].phase = Phase
    <3>1. x \in Exprs(used, Phase)
      BY <2>1, Zenon
    <3> QED
      BY <2>1, <3>1, RuleExprs, Z3
  <2>3. PICK i \in 1..Len(used.groups[g].rules) :
           /\ x = <<g, i, 0>>
           /\ used.groups[g].engine = "extProc" /\ used.groups[g].phase = Phase
    BY <2>2, Zenon
  <2>4. x[1] = g /\ x[2] = i
    BY <2>3
  <2>5. PICK grp : grp = used.groups[g]
    OBVIOUS
  <2>6. /\ grp.match => <<g, 0, 0>> \in holds
        /\ grp.mode = "firstMatch" => \A j \in 1..i - 1 : <<g, j, 0>> \notin holds
        /\ ~used.dryRun /\ ~grp.rules[i].dryRun
        /\ \E m \in DOMAIN grp.rules[i].mutations :
             grp.rules[i].mutations[m].op = "directResponse" /\ <<g, i, m>> \in holds
    BY <2>4, <2>5, Zenon DEF Due
  <2>7. Runs(grp, Phase, holds, g)
    BY <2>3, <2>5, <2>6, Zenon DEF Runs
  <2>8. i \in Chosen(grp, holds, g)
    BY <1>1, <2>1, <2>3, <2>5, <2>6, Zenon
  <2>9. Serves(used, holds, g, i)
    BY <2>5, <2>6, Zenon DEF Serves
  <2> QED
    BY <2>3, <2>5, <2>7, <2>8, <2>9, Zenon DEF IsDue
<1>3. ASSUME NEW g \in 1..Len(used.groups), NEW i \in 1..Len(used.groups[g].rules), IsDue(g, i)
      PROVE  <<g, i, 0>> \in Due
  <2>1. PICK grp : grp = used.groups[g]
    OBVIOUS
  <2>2. <<g, i, 0>> \in holds
    BY <1>3, Zenon DEF IsDue, Chosen
  <2>3. grp.mode = "firstMatch" => \A j \in 1..i - 1 : <<g, j, 0>> \notin holds
    BY <1>1, <1>3, <2>1, <2>2, Zenon DEF IsDue
  <2>4. grp.match => <<g, 0, 0>> \in holds
    BY <1>3, <2>1, Zenon DEF IsDue, Runs
  <2>5. /\ ~used.dryRun /\ ~grp.rules[i].dryRun
        /\ \E m \in DOMAIN grp.rules[i].mutations :
             grp.rules[i].mutations[m].op = "directResponse" /\ <<g, i, m>> \in holds
    BY <1>3, <2>1, Zenon DEF IsDue, Serves
  <2>6. PICK x : x = <<g, i, 0>>
    BY Zenon
  <2>7. i # 0
    <3>1. i \in 1..Len(used.groups[g].rules) /\ Len(used.groups[g].rules) \in Nat
      BY PolicyIs, Zenon
    <3> QED
      BY <3>1
  <2>8. x[1] = g /\ x[2] = i /\ x[3] = 0
    BY <2>6
  <2> QED
    BY <2>1, <2>2, <2>3, <2>4, <2>5, <2>6, <2>7, <2>8, Zenon DEF Due
<1> QED
  BY <1>2, <1>3, Zenon

\* One of them is before all others.
LEMMA DueFirst ==
  ASSUME ProcPolicy(used), holds \subseteq Exprs(used, Phase), Due # {}
  PROVE  \E x \in Due : \A y \in Due : Before(x, y)
<1>0. \A x \in Due : \E g \in Nat, i \in Nat : x = <<g, i, 0>>
  <2> TAKE x \in Due
  <2>1. PICK g \in 1..Len(used.groups) : \E i \in 1..Len(used.groups[g].rules) : x = <<g, i, 0>>
    BY DueIs, Zenon
  <2>2. PICK i \in 1..Len(used.groups[g].rules) : x = <<g, i, 0>>
    BY <2>1, Zenon
  <2>3. Len(used.groups) \in Nat /\ Len(used.groups[g].rules) \in Nat
    BY PolicyIs, Zenon
  <2>4. g \in Nat /\ i \in Nat
    BY <2>3
  <2> QED
    BY <2>2, <2>4, Zenon
<1> DEFINE G == {g \in Nat : \E i \in Nat : <<g, i, 0>> \in Due}
<1>1. G # {} /\ G \in SUBSET Nat
  BY <1>0, Zenon
<1>2. PICK g \in G : \A k \in G : g <= k
  BY <1>1, Least, Zenon
<1> DEFINE I == {i \in Nat : <<g, i, 0>> \in Due}
<1>3. I # {} /\ I \in SUBSET Nat
  BY <1>2, Zenon
<1>4. PICK i \in I : \A j \in I : i <= j
  BY <1>3, Least, Zenon
<1>5. <<g, i, 0>> \in Due
  BY Zenon
<1>6. ASSUME NEW y \in Due PROVE Before(<<g, i, 0>>, y)
  <2>1. PICK k \in Nat, j \in Nat : y = <<k, j, 0>>
    BY <1>0, Zenon
  <2>2. k \in G /\ (k = g => j \in I)
    BY <2>1, Zenon
  <2>3. g <= k /\ (k = g => i <= j) /\ g \in Nat
    BY <1>2, <1>4, <2>2, Zenon
  <2>4. g < k \/ g = k
    BY <2>3
  <2>5. <<g, i, 0>>[1] = g /\ <<g, i, 0>>[2] = i /\ y[1] = k /\ y[2] = j
    BY <2>1
  <2> QED
    BY <2>3, <2>4, <2>5, Zenon DEF Before
<1> QED
  BY <1>5, <1>6, Zenon

\* The first of them is the one that is served.
LEMMA DirectFirst ==
  ASSUME ProcPolicy(used), holds \subseteq Exprs(used, Phase)
  PROVE  LET d == Direct(used, EvaluateProc(used, Phase, holds)) IN
         /\ d # <<>> <=> Due # {}
         /\ \A x \in Due : (\A y \in Due : Before(x, y)) =>
              d[1].value = used.groups[x[1]].rules[x[2]].mutations[1].value
<1> DEFINE q == used
           f == DirectOf(q, Muts(q))
           s == EvaluateProc(q, Phase, holds)
           d(g, i) == FlatMap(f, resolveMutations(q.groups[g].rules[i], holds, g, i))
<1>1. Maps(f, Muts(q), Muts(q))
  BY FiltersMap, Zenon
<1>2. Direct(q, s) = Loops(q, Phase, holds, f)
  <2> HIDE DEF f
  <2>1. s \in Seq(Muts(q)) /\ FlatMap(f, s) = Loops(q, Phase, holds, f)
    BY <1>1, EvaluateMap, Z3
  <2> QED
    BY <2>1, FiltersAre, Zenon DEF f
<1>3. \A g \in 1..Len(q.groups) : \A i \in 1..Len(q.groups[g].rules) :
        /\ d(g, i) # <<>> <=> Serves(q, holds, g, i)
        /\ d(g, i) # <<>> => d(g, i)[1].value = q.groups[g].rules[i].mutations[1].value
  <2> TAKE g \in 1..Len(q.groups)
  <2> TAKE i \in 1..Len(q.groups[g].rules)
  <2>1. ServesIs(q, holds, g, i)
    BY RuleServes, Zenon
  <2> QED
    BY <2>1, Zenon DEF ServesIs
<1> DEFINE in(g, i) == Gives(q, Phase, holds, f, g, i)
<1>4. /\ Loops(q, Phase, holds, f) = <<>> <=>
           \A g \in 1..Len(q.groups) : \A i \in 1..Len(q.groups[g].rules) : ~in(g, i)
      /\ \A g \in 1..Len(q.groups) : \A i \in 1..Len(q.groups[g].rules) :
           GivesFirst(q, Phase, holds, f, g, i) => Loops(q, Phase, holds, f)[1] = d(g, i)[1]
  <2> HIDE DEF f
  <2>1. HeadIs(q, Phase, holds, f)
    BY <1>1, LoopsHead, Z3
  <2> QED
    BY <2>1, Zenon DEF HeadIs
<1>5. \A g \in 1..Len(q.groups) : \A i \in 1..Len(q.groups[g].rules) : in(g, i) <=> IsDue(g, i)
  BY <1>3, Zenon DEF IsDue, Gives
<1> HIDE DEF in, d, f, s
<1>6. Loops(q, Phase, holds, f) # <<>> <=> Due # {}
  BY <1>4, <1>5, DueIs, Zenon
<1>7. ASSUME NEW x \in Due, \A y \in Due : Before(x, y)
      PROVE  Loops(q, Phase, holds, f)[1].value = used.groups[x[1]].rules[x[2]].mutations[1].value
  <2>1. PICK g \in 1..Len(q.groups) : \E i \in 1..Len(q.groups[g].rules) : x = <<g, i, 0>> /\ IsDue(g, i)
    BY DueIs, Zenon
  <2>2. PICK i \in 1..Len(q.groups[g].rules) : x = <<g, i, 0>> /\ IsDue(g, i)
    BY <2>1, Zenon
  <2>3. x[1] = g /\ x[2] = i
    BY <2>2
  <2>4. Len(q.groups) \in Nat /\ Len(q.groups[g].rules) \in Nat
    BY PolicyIs, Zenon
  <2>5. \A k, j : <<k, j, 0>> \in Due => g < k \/ (g = k /\ i <= j)
    <3> SUFFICES ASSUME NEW k, NEW j, <<k, j, 0>> \in Due PROVE g < k \/ (g = k /\ i <= j)
      OBVIOUS
    <3>1. <<k, j, 0>>[1] = k /\ <<k, j, 0>>[2] = j
      OBVIOUS
    <3>2. Before(x, <<k, j, 0>>)
      BY <1>7, Zenon
    <3> QED
      BY <2>3, <3>1, <3>2, Zenon DEF Before
  <2>6. ASSUME NEW k \in 1..g - 1, NEW j \in 1..Len(q.groups[k].rules)
        PROVE  ~in(k, j)
    <3>1. k \in 1..Len(q.groups) /\ ~(g < k) /\ g # k
      BY <2>4
    <3> QED
      BY <1>5, <2>5, <3>1, DueIs, Zenon
  <2>7. ASSUME NEW j \in 1..i - 1
        PROVE  ~in(g, j)
    <3>1. j \in 1..Len(q.groups[g].rules) /\ ~(i <= j) /\ ~(g < g)
      BY <2>4
    <3> QED
      BY <1>5, <2>5, <3>1, DueIs, Zenon
  <2>8. in(g, i)
    BY <1>5, <2>2, Zenon
  <2>9. Loops(q, Phase, holds, f)[1] = d(g, i)[1]
    <3>1. GivesFirst(q, Phase, holds, f, g, i)
      BY <2>6, <2>7, <2>8, Zenon DEF GivesFirst, in
    <3> QED
      BY <1>4, <3>1, Zenon
  <2>10. d(g, i)[1].value = q.groups[g].rules[i].mutations[1].value
    BY <1>3, <2>8, Zenon DEF in, Gives, d
  <2> QED
    BY <2>3, <2>9, <2>10, Zenon
<1> QED
  BY <1>2, <1>6, <1>7, Zenon DEF s

-----------------------------------------------------------------------------
(* Edits one after the other.                                              *)

\* The function Edited is defined with.
IsEdited(f, v, es) == f = [k \in 0..Len(es) |-> IF k = 0 THEN v ELSE EditBy(f[k - 1], es[k])]

\* There is one.
LEMMA EditedExists ==
  ASSUME NEW v, NEW es, Len(es) \in Nat
  PROVE  \E f : IsEdited(f, v, es)
<1> DEFINE Upto(f, n) == f = [k \in 0..n |-> IF k = 0 THEN v ELSE EditBy(f[k - 1], es[k])]
           N == {n \in Nat : \E f : Upto(f, n)}
<1>1. 0 \in N
  <2>1. PICK f : f = [k \in 0..0 |-> v]
    BY Zenon
  <2>2. \A k \in 0..0 : k = 0
    OBVIOUS
  <2>3. Upto(f, 0)
    BY <2>1, <2>2, Zenon
  <2>4. 0 \in Nat
    OBVIOUS
  <2> QED
    BY <2>3, <2>4, Zenon
<1>2. ASSUME NEW n \in Nat, n \in N
      PROVE  n + 1 \in N
  <2>1. PICK f : Upto(f, n)
    BY <1>2
  <2> DEFINE e == EditBy(f[n], es[n + 1])
             g == [k \in 0..n + 1 |-> IF k = n + 1 THEN e ELSE f[k]]
  <2>2. ASSUME NEW k \in 0..n + 1
        PROVE  g[k] = IF k = 0 THEN v ELSE EditBy(g[k - 1], es[k])
    <3>1. CASE k = n + 1
      <4>1. k # 0 /\ k - 1 \in 0..n + 1 /\ k - 1 # n + 1 /\ k - 1 = n
        BY <3>1
      <4>2. g[k] = e /\ g[k - 1] = f[n]
        BY <3>1, <4>1, Zenon
      <4> QED
        BY <3>1, <4>1, <4>2, Zenon
    <3>2. CASE k \in 0..n
      <4>1. k # n + 1 /\ (k # 0 => k - 1 \in 0..n + 1 /\ k - 1 # n + 1)
        BY <3>2
      <4>2. g[k] = f[k] /\ (k # 0 => g[k - 1] = f[k - 1])
        BY <4>1, Zenon
      <4>3. f[k] = IF k = 0 THEN v ELSE EditBy(f[k - 1], es[k])
        BY <2>1, <3>2, Zenon
      <4> QED
        BY <4>2, <4>3, Zenon
    <3> QED
      BY <3>1, <3>2
  <2>3. g = [k \in 0..n + 1 |-> g[k]]
    OBVIOUS
  <2> HIDE DEF g
  <2>4. Upto(g, n + 1)
    BY <2>2, <2>3, Zenon
  <2>5. n + 1 \in Nat
    OBVIOUS
  <2> QED
    BY <2>4, <2>5, Zenon
<1> HIDE DEF N
<1>3. Len(es) \in N
  BY <1>1, <1>2, NatInduct
<1> QED
  BY <1>3, Zenon DEF N, IsEdited

\* Its values are what the edits make, one after the other.
Makes(f, v, es, n) ==
  /\ Edited(v, es) = f[n] /\ f[0] = v
  /\ \A k \in Nat : k + 1 <= n => f[k + 1] = EditBy(f[k], es[k + 1])

\* There is one for all edits.
LEMMA EditedIs ==
  ASSUME NEW v, NEW es, NEW n \in Nat, Len(es) = n
  PROVE  \E f : Makes(f, v, es, n)
<1> DEFINE f == CHOOSE f : IsEdited(f, v, es)
<1>1. IsEdited(f, v, es)
  BY EditedExists, Zenon
<1>2. Edited(v, es) = f[Len(es)]
  BY Zenon DEF Edited, IsEdited
<1> HIDE DEF f
<1>3. \A k \in 0..n : f[k] = IF k = 0 THEN v ELSE EditBy(f[k - 1], es[k])
  BY <1>1, Zenon DEF IsEdited
<1>4. 0 \in 0..n /\ \A k \in Nat : k + 1 <= n => k + 1 \in 0..n /\ k + 1 # 0 /\ (k + 1) - 1 = k
  OBVIOUS
<1>5. Makes(f, v, es, n)
  BY <1>2, <1>3, <1>4, Zenon DEF Makes
<1> QED
  BY <1>5, Zenon

\* No edit leaves the values as they are.
LEMMA EditedNone ==
  ASSUME NEW v
  PROVE  Edited(v, <<>>) = v
<1>1. PICK es : es = <<>>
  OBVIOUS
<1>2. Len(es) = 0 /\ 0 \in Nat
  BY <1>1
<1>3. PICK f : Makes(f, v, es, 0)
  BY <1>2, EditedIs, Zenon
<1> QED
  BY <1>1, <1>3, Zenon DEF Makes

\* One edit more is performed last.
LEMMA EditedGrows ==
  ASSUME NEW v, NEW E, NEW es \in Seq(E), NEW e \in E
  PROVE  Edited(v, Append(es, e)) = EditBy(Edited(v, es), e)
<1>1. PICK n \in Nat : Len(es) = n
  OBVIOUS
<1>2. PICK ds : ds = Append(es, e)
  BY Zenon
<1>3. Len(ds) = n + 1 /\ n + 1 \in Nat /\ ds[n + 1] = e /\ \A k \in 1..n : ds[k] = es[k]
  BY <1>1, <1>2
<1>4. PICK f : /\ Edited(v, ds) = f[n + 1] /\ f[0] = v
               /\ \A k \in Nat : k + 1 <= n + 1 => f[k + 1] = EditBy(f[k], ds[k + 1])
  <2>1. PICK m \in Nat : m = n + 1
    BY <1>3, Zenon
  <2>2. PICK f : Makes(f, v, ds, m)
    BY <1>3, <2>1, EditedIs, Zenon
  <2> QED
    BY <2>1, <2>2, Zenon DEF Makes
<1>5. PICK g : /\ Edited(v, es) = g[n] /\ g[0] = v
               /\ \A k \in Nat : k + 1 <= n => g[k + 1] = EditBy(g[k], es[k + 1])
  <2>1. PICK m : Makes(m, v, es, n)
    BY <1>1, EditedIs
  <2> QED
    BY <2>1, Zenon DEF Makes
<1> DEFINE N == {k \in Nat : k <= n => f[k] = g[k]}
<1>6. 0 \in N
  BY <1>4, <1>5
<1>7. ASSUME NEW k \in Nat, k \in N
      PROVE  k + 1 \in N
  <2>1. CASE k + 1 <= n
    <3>1. k <= n /\ k + 1 <= n + 1 /\ k + 1 \in 1..n /\ k + 1 \in Nat
      BY <2>1
    <3>2. f[k] = g[k] /\ ds[k + 1] = es[k + 1]
      BY <1>3, <1>7, <3>1, Zenon
    <3>3. f[k + 1] = EditBy(f[k], ds[k + 1]) /\ g[k + 1] = EditBy(g[k], es[k + 1])
      BY <1>4, <1>5, <2>1, <3>1, Zenon
    <3> QED
      BY <3>1, <3>2, <3>3, Zenon
  <2>2. CASE ~(k + 1 <= n)
    BY <2>2
  <2> QED
    BY <2>1, <2>2
<1> HIDE DEF N
<1>8. n \in N
  BY <1>6, <1>7, NatInduct, Zenon
<1>9. f[n] = g[n]
  <2>1. n <= n
    OBVIOUS
  <2> QED
    BY <1>8, <2>1, Zenon DEF N
<1>10. f[n + 1] = EditBy(f[n], e)
  <2>1. n + 1 <= n + 1
    OBVIOUS
  <2> QED
    BY <1>3, <1>4, <2>1, Zenon
<1> QED
  BY <1>2, <1>4, <1>5, <1>9, <1>10, Zenon

-----------------------------------------------------------------------------
(* Loops that append one element or none in a turn.                        *)

Optional(f, X) == f = [x \in X |-> f[x]] /\ \A x \in X : f[x] = <<>> \/ f[x] = <<f[x][1]>>
Gets(f, X)     == {f[x][1] : x \in X}

\* What is appended to u in such a turn.
Plus(u, v) == IF v = <<>> THEN u ELSE Append(u, v[1])

\* Such a loop, turn by turn.
LEMMA OptionalGrows ==
  ASSUME NEW X, NEW f, Optional(f, X)
  PROVE  /\ FlatMap(f, <<>>) = <<>>
         /\ \A s \in Seq(X) : FlatMap(f, s) \in Seq(Gets(f, X))
         /\ \A s \in Seq(X), x \in X : FlatMap(f, Append(s, x)) = Plus(FlatMap(f, s), f[x])
<1> DEFINE Y == Gets(f, X)
<1>1. Maps(f, X, Y)
  <2>1. \A x \in X : f[x][1] \in Y
    BY Zenon DEF Gets
  <2> HIDE DEF Y
  <2>2. \A y \in Y : <<y>> \in Seq(Y)
    OBVIOUS
  <2>3. <<>> \in Seq(Y)
    OBVIOUS
  <2>4. \A x \in X : f[x] \in Seq(Y)
    BY <2>1, <2>2, <2>3, Zenon DEF Optional
  <2> QED
    BY <2>4, Zenon DEF Optional, Maps
<1>2. \A s \in Seq(X) : FlatMap(f, s) \in Seq(Y)
  <2> HIDE DEF Y
  <2> TAKE s \in Seq(X)
  <2> QED
    BY <1>1, FlatMapType, Z3
<1>3. ASSUME NEW s \in Seq(X), NEW x \in X
      PROVE  FlatMap(f, Append(s, x)) = Plus(FlatMap(f, s), f[x])
  <2> HIDE DEF Y
  <2>1. FlatMap(f, Append(s, x)) = FlatMap(f, s) \o f[x]
    BY <1>1, FlatMapAppend, Z3
  <2>2. PICK u \in Seq(Y) : u = FlatMap(f, s)
    BY <1>2, Zenon
  <2>3. u \o <<>> = u
    OBVIOUS
  <2>4. PICK y : y = f[x][1]
    OBVIOUS
  <2>5. CASE f[x] = <<>>
    BY <2>1, <2>2, <2>3, <2>5, Zenon DEF Plus
  <2>6. CASE f[x] # <<>>
    <3>1. f[x] = <<y>> /\ y \in Y
      BY <2>4, <2>6, Zenon DEF Optional, Y, Gets
    <3>2. u \o <<y>> = Append(u, y)
      BY <3>1
    <3> QED
      BY <2>1, <2>2, <2>4, <2>6, <3>1, <3>2, Zenon DEF Plus
  <2> QED
    BY <2>5, <2>6
<1>4. FlatMap(f, <<>>) = <<>>
  <2> HIDE DEF Y
  <2> QED
    BY <1>1, FlatMapAppend, Z3
<1> QED
  BY <1>2, <1>3, <1>4, Zenon

-----------------------------------------------------------------------------
(* The mutations of a reply.                                               *)

\* What a mutation other than a removal asks for is what the settings it becomes do.
LEMMA Options ==
  ASSUME NEW x, NEW n
  PROVE  /\ HeaderOption(x) = <<>> \/ HeaderOption(x) = <<HeaderOption(x)[1]>>
         /\ Performs(n, x) = <<>> \/ Performs(n, x) = <<Performs(n, x)[1]>>
         /\ x.op = "removeHeader" => HeaderOption(x) = <<>> /\ Performs(n, x) = When(x.name = n, Edit(FALSE, <<>>))
         /\ x.op # "removeHeader" =>
              Performs(n, x) = IF HeaderOption(x) = <<>> THEN <<>> ELSE Sets(n, HeaderOption(x)[1])
<1> DEFINE o(k, b) == [key |-> k, value |-> x.value, append |-> b]
<1>0. \A k, b : <<o(k, b)>> # <<>> /\ <<o(k, b)>>[1] = o(k, b) /\ o(k, b).key = k
                /\ o(k, b).value = x.value /\ o(k, b).append = b
  OBVIOUS
<1>e. \A k, a : Edit(k, a) = <<Edit(k, a)[1]>>
  BY DEF Edit
<1>w. \A p, k, a : When(p, Edit(k, a)) = <<>> \/ When(p, Edit(k, a)) = <<When(p, Edit(k, a))[1]>>
  BY DEF Edit, When
<1>t. \A p, y : p = <<y>> => p = <<p[1]>>
  OBVIOUS
<1>s. "setHeader" # "removeHeader" /\ "appendHeader" # "removeHeader" /\ "setBody" # "removeHeader"
      /\ "setStatus" # "removeHeader"
  OBVIOUS
<1> HIDE DEF o
<1>1. CASE x.op = "setHeader"
  <2>1. HeaderOption(x) = <<o(x.name, FALSE)>>
    BY <1>1, Zenon DEF HeaderOption, o
  <2>2. Performs(n, x) = When(x.name = n, Edit(FALSE, <<x.value>>))
    BY <1>1 DEF Performs, When
  <2>3. HeaderOption(x) # <<>> /\ HeaderOption(x)[1] = o(x.name, FALSE)
    BY <1>0, <2>1, Zenon
  <2>4. Sets(n, o(x.name, FALSE)) = When(x.name = n, Edit(FALSE, <<x.value>>))
    BY <1>0, Zenon DEF Sets
  <2>5. HeaderOption(x) = <<HeaderOption(x)[1]>>
    BY <2>1, <2>3
  <2>6. Performs(n, x) = Sets(n, HeaderOption(x)[1])
    BY <2>2, <2>3, <2>4, Zenon
  <2>7. Performs(n, x) = <<>> \/ Performs(n, x) = <<Performs(n, x)[1]>>
    BY <1>t, <2>2, Zenon DEF Edit, When
  <2> QED
    BY <1>s, <1>1, <2>3, <2>5, <2>6, <2>7, Zenon
<1>2. CASE x.op = "appendHeader"
  <2>1. HeaderOption(x) = <<o(x.name, TRUE)>>
    BY <1>2, Zenon DEF HeaderOption, o
  <2>2. Performs(n, x) = When(x.name = n, Edit(TRUE, <<x.value>>))
    BY <1>2 DEF Performs, When
  <2>3. HeaderOption(x) # <<>> /\ HeaderOption(x)[1] = o(x.name, TRUE)
    BY <1>0, <2>1, Zenon
  <2>4. Sets(n, o(x.name, TRUE)) = When(x.name = n, Edit(TRUE, <<x.value>>))
    BY <1>0, Zenon DEF Sets
  <2>5. HeaderOption(x) = <<HeaderOption(x)[1]>>
    BY <2>1, <2>3
  <2>6. Performs(n, x) = Sets(n, HeaderOption(x)[1])
    BY <2>2, <2>3, <2>4, Zenon
  <2>7. Performs(n, x) = <<>> \/ Performs(n, x) = <<Performs(n, x)[1]>>
    BY <1>t, <2>2, Zenon DEF Edit, When
  <2> QED
    BY <1>s, <1>2, <2>3, <2>5, <2>6, <2>7, Zenon
<1>3. CASE x.op = "setBody"
  <2>1. HeaderOption(x) = <<o("content-length", FALSE)>>
    BY <1>3, Zenon DEF HeaderOption, o
  <2>2. Performs(n, x) = When("content-length" = n, Edit(FALSE, <<x.value>>))
    BY <1>3, Zenon DEF Performs, When
  <2>3. HeaderOption(x) # <<>> /\ HeaderOption(x)[1] = o("content-length", FALSE)
    BY <1>0, <2>1, Zenon
  <2>4. Sets(n, o("content-length", FALSE)) = When("content-length" = n, Edit(FALSE, <<x.value>>))
    BY <1>0, Zenon DEF Sets
  <2>5. HeaderOption(x) = <<HeaderOption(x)[1]>>
    BY <2>1, <2>3
  <2>6. Performs(n, x) = Sets(n, HeaderOption(x)[1])
    BY <2>2, <2>3, <2>4, Zenon
  <2>7. Performs(n, x) = <<>> \/ Performs(n, x) = <<Performs(n, x)[1]>>
    BY <1>t, <2>2, Zenon DEF Edit, When
  <2> QED
    BY <1>s, <1>3, <2>3, <2>5, <2>6, <2>7, Zenon
<1>4. CASE x.op = "setStatus"
  <2>1. HeaderOption(x) = <<o(":status", FALSE)>>
    BY <1>4, Zenon DEF HeaderOption, o
  <2>2. Performs(n, x) = When(":status" = n, Edit(FALSE, <<x.value>>))
    BY <1>4, Zenon DEF Performs, When
  <2>3. HeaderOption(x) # <<>> /\ HeaderOption(x)[1] = o(":status", FALSE)
    BY <1>0, <2>1, Zenon
  <2>4. Sets(n, o(":status", FALSE)) = When(":status" = n, Edit(FALSE, <<x.value>>))
    BY <1>0, Zenon DEF Sets
  <2>5. HeaderOption(x) = <<HeaderOption(x)[1]>>
    BY <2>1, <2>3
  <2>6. Performs(n, x) = Sets(n, HeaderOption(x)[1])
    BY <2>2, <2>3, <2>4, Zenon
  <2>7. Performs(n, x) = <<>> \/ Performs(n, x) = <<Performs(n, x)[1]>>
    BY <1>t, <2>2, Zenon DEF Edit, When
  <2> QED
    BY <1>s, <1>4, <2>3, <2>5, <2>6, <2>7, Zenon
<1>5. CASE x.op = "removeHeader"
  <2>1. HeaderOption(x) = <<>>
    BY <1>5 DEF HeaderOption
  <2>2. Performs(n, x) = When(x.name = n, Edit(FALSE, <<>>))
    BY <1>5 DEF Performs, When
  <2> QED
    BY <1>5, <1>e, <2>1, <2>2, Zenon DEF When
<1>6. CASE x.op \notin {"setHeader", "appendHeader", "setBody", "setStatus", "removeHeader"}
  <2>1. HeaderOption(x) = <<>> /\ Performs(n, x) = <<>>
    BY <1>6, Zenon DEF HeaderOption, Performs
  <2> QED
    BY <1>6, <2>1, Zenon
<1> QED
  BY <1>1, <1>2, <1>3, <1>4, <1>5, <1>6, Zenon

\* The loops of buildMutations, and those the property is stated with, turn by turn.
BuildTurns(X, n) ==
  /\ setHeaders(<<>>) = <<>> /\ removeHeaders(<<>>) = <<>> /\ bodies(<<>>) = <<>>
  /\ WantedEdits(n, <<>>) = <<>>
  /\ \A s \in Seq(X), x \in X :
       /\ setHeaders(Append(s, x)) = Plus(setHeaders(s), HeaderOption(x))
       /\ removeHeaders(Append(s, x)) = Plus(removeHeaders(s), When(x.op = "removeHeader", <<x.name>>))
       /\ bodies(Append(s, x)) = Plus(bodies(s), When(x.op = "setBody", <<x.value>>))
       /\ WantedEdits(n, Append(s, x)) = Plus(WantedEdits(n, s), Performs(n, x))
  /\ \E O, N, B, E : \A s \in Seq(X) :
       /\ setHeaders(s) \in Seq(O) /\ removeHeaders(s) \in Seq(N)
       /\ bodies(s) \in Seq(B) /\ WantedEdits(n, s) \in Seq(E)

\* The loops are what they seem for any mutations.
LEMMA BuildGrows ==
  ASSUME NEW X, NEW n
  PROVE  BuildTurns(X, n)
<1> DEFINE a == [x \in X |-> HeaderOption(x)]
           b == [x \in X |-> When(x.op = "removeHeader", <<x.name>>)]
           c == [x \in X |-> When(x.op = "setBody", <<x.value>>)]
           d == [x \in X |-> Performs(n, x)]
<1>1. Optional(a, X) /\ Optional(d, X)
  BY Options, Zenon DEF Optional
<1>2. \A p, y : When(p, <<y>>) = <<>> \/ When(p, <<y>>) = <<When(p, <<y>>)[1]>>
  BY DEF When
<1>3. Optional(b, X) /\ Optional(c, X)
  BY <1>2, SMTT(30) DEF Optional
<1>4. \A x \in X : /\ a[x] = HeaderOption(x) /\ b[x] = When(x.op = "removeHeader", <<x.name>>)
                   /\ c[x] = When(x.op = "setBody", <<x.value>>) /\ d[x] = Performs(n, x)
  BY Zenon
<1>5. ASSUME NEW s \in Seq(X)
      PROVE  /\ setHeaders(s) = FlatMap(a, s) /\ removeHeaders(s) = FlatMap(b, s)
             /\ bodies(s) = FlatMap(c, s) /\ WantedEdits(n, s) = FlatMap(d, s)
  <2>1. \A k \in 1..Len(s) : s[k] \in X
    OBVIOUS
  <2> QED
    BY <1>4, <2>1, Zenon DEF setHeaders, removeHeaders, bodies, WantedEdits, FlatMap
<1> HIDE DEF a, b, c, d
<1>6. <<>> \in Seq(X) /\ \A s \in Seq(X), x \in X : Append(s, x) \in Seq(X)
  OBVIOUS
<1>7. ASSUME NEW f \in {a, b, c, d}
      PROVE  /\ FlatMap(f, <<>>) = <<>>
             /\ \A s \in Seq(X) : FlatMap(f, s) \in Seq(Gets(f, X))
             /\ \A s \in Seq(X), x \in X : FlatMap(f, Append(s, x)) = Plus(FlatMap(f, s), f[x])
  <2>1. Optional(f, X)
    BY <1>1, <1>3, Zenon
  <2> QED
    BY <2>1, OptionalGrows, Zenon
<1>8. /\ setHeaders(<<>>) = <<>> /\ removeHeaders(<<>>) = <<>> /\ bodies(<<>>) = <<>>
      /\ WantedEdits(n, <<>>) = <<>>
  BY <1>5, <1>6, <1>7, Zenon
<1>9. ASSUME NEW s \in Seq(X), NEW x \in X
      PROVE  /\ setHeaders(Append(s, x)) = Plus(setHeaders(s), HeaderOption(x))
             /\ removeHeaders(Append(s, x)) = Plus(removeHeaders(s), When(x.op = "removeHeader", <<x.name>>))
             /\ bodies(Append(s, x)) = Plus(bodies(s), When(x.op = "setBody", <<x.value>>))
             /\ WantedEdits(n, Append(s, x)) = Plus(WantedEdits(n, s), Performs(n, x))
  <2>1. PICK t \in Seq(X) : t = Append(s, x)
    BY <1>6, Zenon
  <2>2. setHeaders(t) = Plus(setHeaders(s), HeaderOption(x))
    BY <1>4, <1>5, <1>7, <2>1, Zenon
  <2>3. removeHeaders(t) = Plus(removeHeaders(s), When(x.op = "removeHeader", <<x.name>>))
    BY <1>4, <1>5, <1>7, <2>1, Zenon
  <2>4. bodies(t) = Plus(bodies(s), When(x.op = "setBody", <<x.value>>))
    BY <1>4, <1>5, <1>7, <2>1, ZenonT(30)
  <2>5. WantedEdits(n, t) = Plus(WantedEdits(n, s), Performs(n, x))
    BY <1>4, <1>5, <1>7, <2>1, Zenon
  <2> QED
    BY <2>1, <2>2, <2>3, <2>4, <2>5, Zenon
<1>10. \A s \in Seq(X) :
         /\ setHeaders(s) \in Seq(Gets(a, X)) /\ bodies(s) \in Seq(Gets(c, X))
         /\ WantedEdits(n, s) \in Seq(Gets(d, X)) /\ removeHeaders(s) \in Seq(Gets(b, X))
  BY <1>5, <1>7, Zenon
<1> QED
  BY <1>8, <1>9, <1>10, Zenon DEF BuildTurns

\* The edits of settings, turn by turn.
LEMMA SetGrows ==
  ASSUME NEW O, NEW n
  PROVE  /\ SetEdits(n, <<>>) = <<>>
         /\ \A u \in Seq(O), o \in O : SetEdits(n, Append(u, o)) = Plus(SetEdits(n, u), Sets(n, o))
         /\ \E E : \A u \in Seq(O) : SetEdits(n, u) \in Seq(E)
<1> DEFINE f == [o \in O |-> Sets(n, o)]
<1>1. \A o : Sets(n, o) = <<>> \/ Sets(n, o) = <<Sets(n, o)[1]>>
  BY DEF Sets, When, Edit
<1>2. Optional(f, O) /\ \A o \in O : f[o] = Sets(n, o)
  BY <1>1, Zenon DEF Optional
<1>3. ASSUME NEW u \in Seq(O)
      PROVE  SetEdits(n, u) = FlatMap(f, u)
  <2>1. \A k \in 1..Len(u) : u[k] \in O
    OBVIOUS
  <2> QED
    BY <1>2, <2>1, Zenon DEF SetEdits, FlatMap
<1> HIDE DEF f
<1>4. <<>> \in Seq(O) /\ \A u \in Seq(O), o \in O : Append(u, o) \in Seq(O)
  OBVIOUS
<1>5. /\ FlatMap(f, <<>>) = <<>>
      /\ \A s \in Seq(O) : FlatMap(f, s) \in Seq(Gets(f, O))
      /\ \A s \in Seq(O), x \in O : FlatMap(f, Append(s, x)) = Plus(FlatMap(f, s), f[x])
  BY <1>2, OptionalGrows, Zenon
<1>6. \A u \in Seq(O) : SetEdits(n, u) \in Seq(Gets(f, O))
  BY <1>3, <1>5, Zenon
<1>7. \A u \in Seq(O), o \in O : SetEdits(n, Append(u, o)) = Plus(SetEdits(n, u), Sets(n, o))
  BY <1>2, <1>3, <1>4, <1>5, Zenon
<1>8. SetEdits(n, <<>>) = <<>>
  BY <1>3, <1>4, <1>5, Zenon
<1> QED
  BY <1>6, <1>7, <1>8, Zenon

\* The values v after an edit, if there is one.
After(v, e) == IF e = <<>> THEN v ELSE EditBy(v, e[1])

\* What the settings mutations ms become make of the values v of header n.
Made(v, n, ms) == Edited(v, SetEdits(n, setHeaders(ms)))

\* What a mutation does to header n by the settings of the reply.
Through(n, x) == IF HeaderOption(x) = <<>> THEN <<>> ELSE Sets(n, HeaderOption(x)[1])

\* An edit more, if any, is performed last.
LEMMA EditedPlus ==
  ASSUME NEW v, NEW E, NEW es \in Seq(E), NEW e, Plus(es, e) \in Seq(E)
  PROVE  Edited(v, Plus(es, e)) = After(Edited(v, es), e)
<1>1. CASE e = <<>>
  BY <1>1, Zenon DEF Plus, After
<1>2. CASE e # <<>>
  <2>1. Plus(es, e) = Append(es, e[1])
    BY <1>2, Zenon DEF Plus
  <2>2. Append(es, e[1])[Len(es) + 1] = e[1] /\ Len(Append(es, e[1])) = Len(es) + 1 /\ Len(es) \in Nat
    OBVIOUS
  <2>3. e[1] \in E
    BY <2>1, <2>2
  <2>4. Edited(v, Append(es, e[1])) = EditBy(Edited(v, es), e[1])
    BY <2>3, EditedGrows, Z3
  <2> QED
    BY <1>2, <2>1, <2>4, Zenon DEF After
<1> QED
  BY <1>1, <1>2

\* Performing the mutations, and the settings they become, turn by turn.
MadeTurns(X, n) ==
  /\ Wanted(n, <<>>) = <<0>> /\ \A v : Made(v, n, <<>>) = v
  /\ \A s \in Seq(X), x \in X :
       /\ Wanted(n, Append(s, x)) = After(Wanted(n, s), Performs(n, x))
       /\ \A v : Made(v, n, Append(s, x)) = After(Made(v, n, s), Through(n, x))

\* Both are folds.
LEMMA MadeGrows ==
  ASSUME NEW X, NEW n
  PROVE  MadeTurns(X, n)
<1>0. BuildTurns(X, n)
  BY BuildGrows, Zenon
<1>1. PICK O : \A s \in Seq(X) : setHeaders(s) \in Seq(O)
  BY <1>0, Zenon DEF BuildTurns
<1>2. PICK E : \A s \in Seq(X) : WantedEdits(n, s) \in Seq(E)
  BY <1>0, Zenon DEF BuildTurns
<1>3. PICK F : \A u \in Seq(O) : SetEdits(n, u) \in Seq(F)
  BY SetGrows, Zenon
<1>4. \A v : Edited(v, <<>>) = v
  BY EditedNone, Zenon
<1>5. WantedEdits(n, <<>>) = <<>> /\ setHeaders(<<>>) = <<>> /\ SetEdits(n, <<>>) = <<>>
  BY <1>0, SetGrows, Zenon DEF BuildTurns
<1>6. ASSUME NEW s \in Seq(X), NEW x \in X
      PROVE  /\ Wanted(n, Append(s, x)) = After(Wanted(n, s), Performs(n, x))
             /\ \A v : Made(v, n, Append(s, x)) = After(Made(v, n, s), Through(n, x))
  <2>0. Append(s, x) \in Seq(X)
    OBVIOUS
  <2>1. PICK t \in Seq(X) : t = Append(s, x)
    BY <2>0, Zenon
  <2>2. WantedEdits(n, t) = Plus(WantedEdits(n, s), Performs(n, x))
        /\ setHeaders(t) = Plus(setHeaders(s), HeaderOption(x))
    BY <1>0, <2>1, Zenon DEF BuildTurns
  <2>3. Wanted(n, t) = After(Wanted(n, s), Performs(n, x))
    <3>1. WantedEdits(n, s) \in Seq(E) /\ Plus(WantedEdits(n, s), Performs(n, x)) \in Seq(E)
      BY <1>2, <2>2, Zenon
    <3> QED
      BY <2>2, <3>1, EditedPlus, Z3 DEF Wanted
  <2>4. PICK u \in Seq(O) : u = setHeaders(s)
    BY <1>1, Zenon
  <2>5. SetEdits(n, setHeaders(t)) = Plus(SetEdits(n, u), Through(n, x))
    <3>1. CASE HeaderOption(x) = <<>>
      BY <2>2, <2>4, <3>1, Zenon DEF Plus, Through
    <3>2. CASE HeaderOption(x) # <<>>
      <4>1. PICK o : o = HeaderOption(x)[1]
        OBVIOUS
      <4>2. setHeaders(t) = Append(u, o)
        BY <2>2, <2>4, <3>2, <4>1, Zenon DEF Plus
      <4>3. Append(u, o)[Len(u) + 1] = o /\ Len(Append(u, o)) = Len(u) + 1 /\ Len(u) \in Nat
        OBVIOUS
      <4>4. Append(u, o) \in Seq(O)
        BY <1>1, <4>2, Zenon
      <4>5. o \in O
        BY <4>3, <4>4
      <4>6. SetEdits(n, Append(u, o)) = Plus(SetEdits(n, u), Sets(n, o))
        <5>1. \A r \in Seq(O), y \in O : SetEdits(n, Append(r, y)) = Plus(SetEdits(n, r), Sets(n, y))
          BY SetGrows, Zenon
        <5> QED
          BY <4>5, <5>1, Zenon
      <4> QED
        BY <3>2, <4>1, <4>2, <4>6, Zenon DEF Through
    <3> QED
      BY <3>1, <3>2
  <2>6. ASSUME NEW v
        PROVE  Made(v, n, t) = After(Made(v, n, s), Through(n, x))
    <3>1. SetEdits(n, u) \in Seq(F) /\ Plus(SetEdits(n, u), Through(n, x)) \in Seq(F)
      BY <1>1, <1>3, <2>4, <2>5, Zenon
    <3> QED
      BY <2>4, <2>5, <3>1, EditedPlus, Z3 DEF Made
  <2> QED
    BY <2>1, <2>3, <2>6, Zenon
<1> QED
  BY <1>4, <1>5, <1>6, Zenon DEF Wanted, Made, MadeTurns

\* No mutation but a removal touches header n.
Calm(n, ms) == \A i \in DOMAIN ms : ms[i].op # "removeHeader" => Performs(n, ms[i]) = <<>>

\* A mutation does through the settings what it asks for, unless it removes.
LEMMA ThroughIs ==
  ASSUME NEW n, NEW x
  PROVE  /\ x.op = "removeHeader" => Through(n, x) = <<>> /\ HeaderOption(x) = <<>>
         /\ x.op # "removeHeader" => Through(n, x) = Performs(n, x)
BY Options, Zenon DEF Through

\* Then the settings leave the header as it is.
LEMMA CalmKeeps ==
  ASSUME NEW X, NEW n, NEW s \in Seq(X), Calm(n, s)
  PROVE  \A v : Made(v, n, s) = v
<1> DEFINE T == {r \in Seq(X) : Calm(n, r) => \A v : Made(v, n, r) = v}
<1>0. MadeTurns(X, n)
  BY MadeGrows, Zenon
<1>1. <<>> \in T
  <2>1. <<>> \in Seq(X)
    OBVIOUS
  <2> QED
    BY <1>0, <2>1, Zenon DEF MadeTurns
<1>2. ASSUME NEW r \in Seq(X), NEW x \in X, r \in T
      PROVE  Append(r, x) \in T
  <2>0. Append(r, x) \in Seq(X)
    OBVIOUS
  <2>1. PICK t \in Seq(X) : t = Append(r, x)
    BY <2>0, Zenon
  <2>2. DOMAIN t = 1..Len(r) + 1 /\ Len(r) \in Nat /\ DOMAIN r = 1..Len(r)
    BY <2>1
  <2>3. Len(r) + 1 \in DOMAIN t /\ t[Len(r) + 1] = x
    BY <2>1, <2>2
  <2>4. \A i \in DOMAIN r : i \in DOMAIN t /\ t[i] = r[i]
    BY <2>1, <2>2
  <2>5. ASSUME Calm(n, t)
        PROVE  \A v : Made(v, n, t) = v
    <3>1. Calm(n, r)
      BY <2>4, <2>5, Zenon DEF Calm
    <3>2. x.op # "removeHeader" => Performs(n, x) = <<>>
      BY <2>3, <2>5, Zenon DEF Calm
    <3>3. Through(n, x) = <<>>
      BY <3>2, ThroughIs, Zenon
    <3>4. \A v : Made(v, n, t) = After(Made(v, n, r), Through(n, x))
      BY <1>0, <2>1, Zenon DEF MadeTurns
    <3> QED
      BY <1>2, <3>1, <3>3, <3>4, Zenon DEF After
  <2> QED
    BY <2>1, <2>5, Zenon
<1> HIDE DEF T
<1>3. Seq(X) \subseteq T
  BY <1>1, <1>2, SeqInduct, Zenon
<1> USE DEF T
<1> QED
  BY <1>3, Zenon

\* Appending to a sequence, as the inductions on mutations use it.
Longer(t, s, x) ==
  /\ t = Append(s, x) /\ Len(s) \in Nat /\ Len(t) = Len(s) + 1
  /\ DOMAIN s = 1..Len(s) /\ DOMAIN t = 1..Len(s) + 1
  /\ Len(s) + 1 \in DOMAIN t /\ t[Len(s) + 1] = x
  /\ \A i \in DOMAIN s : i \in DOMAIN t /\ t[i] = s[i] /\ i \in 1..Len(s)
  /\ \A i \in DOMAIN t : i \in DOMAIN s \/ i = Len(s) + 1

\* It is what it says.
LEMMA Appended ==
  ASSUME NEW X, NEW s \in Seq(X), NEW x \in X
  PROVE  \E t \in Seq(X) : Longer(t, s, x)
<1>1. Append(s, x) \in Seq(X) /\ Len(s) \in Nat /\ Len(Append(s, x)) = Len(s) + 1
  OBVIOUS
<1>2. DOMAIN s = 1..Len(s) /\ DOMAIN Append(s, x) = 1..Len(s) + 1
  OBVIOUS
<1>3. Len(s) + 1 \in 1..Len(s) + 1 /\ Append(s, x)[Len(s) + 1] = x
  BY <1>1
<1>4. \A i \in 1..Len(s) : i \in 1..Len(s) + 1 /\ Append(s, x)[i] = s[i]
  BY <1>1
<1>5. \A i \in 1..Len(s) + 1 : i \in 1..Len(s) \/ i = Len(s) + 1
  BY <1>1
<1> QED
  BY <1>1, <1>2, <1>3, <1>4, <1>5, Zenon DEF Longer

\* What is in it.
LEMMA AppendedSet ==
  ASSUME NEW s, NEW x, NEW t, Longer(t, s, x)
  PROVE  Range(t) = Range(s) \cup {x}
BY Zenon DEF Longer, Range

\* The header before the settings: gone if some mutation removes it.
Start(n, ms) == When(n \notin Range(removeHeaders(ms)), <<0>>)

\* A mutation that does not remove n leaves the start as it is; one that does leaves nothing.
StartTurns(n, s, x) ==
  /\ Start(n, <<>>) = <<0>>
  /\ x.op # "removeHeader" \/ x.name # n => Start(n, Append(s, x)) = Start(n, s)
  /\ x.op = "removeHeader" /\ x.name = n => Start(n, Append(s, x)) = <<>>

\* The loop over the removals gets there.
LEMMA Starts ==
  ASSUME NEW X, NEW n, NEW s \in Seq(X), NEW x \in X
  PROVE  StartTurns(n, s, x)
<1>1. BuildTurns(X, n)
  BY BuildGrows, Zenon
<1>2. PICK r : r = removeHeaders(s)
  OBVIOUS
<1>3. PICK u : u = removeHeaders(Append(s, x))
  OBVIOUS
<1>4. u = Plus(r, When(x.op = "removeHeader", <<x.name>>))
  BY <1>1, <1>2, <1>3, Zenon DEF BuildTurns
<1>5. \E N : r \in Seq(N)
  BY <1>1, <1>2, Zenon DEF BuildTurns
<1>6. Start(n, <<>>) = <<0>>
  <2>1. Range(<<>>) = {}
    BY DEF Range
  <2>2. removeHeaders(<<>>) = <<>>
    BY <1>1, Zenon DEF BuildTurns
  <2> QED
    BY <2>1, <2>2, Zenon DEF Start, When
<1>7. CASE x.op # "removeHeader"
  <2>1. u = r
    BY <1>4, <1>7, Zenon DEF Plus, When
  <2> QED
    BY <1>2, <1>3, <1>6, <1>7, <2>1, Zenon DEF Start, StartTurns
<1>8. CASE x.op = "removeHeader"
  <2>1. <<x.name>> # <<>> /\ <<x.name>>[1] = x.name
    OBVIOUS
  <2>2. u = Append(r, x.name)
    BY <1>4, <1>8, <2>1, Zenon DEF Plus, When
  <2>3. PICK N : r \in Seq(N)
    BY <1>5, Zenon
  <2>4. PICK M : M = N \cup {x.name}
    BY Zenon
  <2>5. r \in Seq(M) /\ x.name \in M
    BY <2>3, <2>4
  <2>6. PICK w \in Seq(M) : Longer(w, r, x.name)
    BY <2>5, Appended
  <2>7. Range(u) = Range(r) \cup {x.name}
    <3>1. Longer(u, r, x.name)
      BY <2>2, <2>6, Zenon DEF Longer
    <3> QED
      BY <3>1, AppendedSet, Z3
  <2>8. CASE x.name = n
    <3>1. n \in Range(u)
      BY <2>7, <2>8, Zenon
    <3> QED
      BY <1>3, <1>6, <1>8, <2>8, <3>1, Zenon DEF Start, When, StartTurns
  <2>9. CASE x.name # n
    <3>1. n \in Range(u) <=> n \in Range(r)
      BY <2>7, <2>9, Zenon
    <3>2. When(n \notin Range(u), <<0>>) = When(n \notin Range(r), <<0>>)
      BY <3>1, Zenon DEF When
    <3> QED
      BY <1>2, <1>3, <1>6, <2>9, <3>2, Zenon DEF Start, StartTurns
  <2> QED
    BY <2>8, <2>9, Zenon
<1> QED
  BY <1>6, <1>7, <1>8, Zenon DEF StartTurns

\* An edit that keeps nothing leaves what it adds.
LEMMA EditAnew ==
  ASSUME NEW a, <<>> \o a = a
  PROVE  Edit(FALSE, a) # <<>> /\ \A v : EditBy(v, Edit(FALSE, a)[1]) = a
<1>1. PICK e : e = [keep |-> FALSE, add |-> a]
  BY Zenon
<1>2. e.keep = FALSE /\ e.add = a
  BY <1>1
<1>3. Edit(FALSE, a) # <<>> /\ Edit(FALSE, a)[1] = e
  BY <1>1 DEF Edit
<1> QED
  BY <1>2, <1>3, Zenon DEF EditBy, When

\* Performing the mutations in order, and what the reply makes of a header: the same, unless
\* it is removed after a write.
LEMMA BuiltMakes ==
  ASSUME NEW X, NEW n, NEW s \in Seq(X), ~RemovedLate(n, s)
  PROVE  Made(Start(n, s), n, s) = Wanted(n, s)
<1> DEFINE T == {r \in Seq(X) : ~RemovedLate(n, r) => Made(Start(n, r), n, r) = Wanted(n, r)}
<1>0. MadeTurns(X, n)
  BY MadeGrows, Zenon
<1>1. <<>> \in T
  <2>1. <<>> \in Seq(X)
    OBVIOUS
  <2>2. removeHeaders(<<>>) = <<>>
    <3>1. BuildTurns(X, n)
      BY BuildGrows, Zenon
    <3> QED
      BY <3>1, Zenon DEF BuildTurns
  <2>3. Range(<<>>) = {}
    BY DEF Range
  <2>5. Start(n, <<>>) = <<0>>
    BY <2>2, <2>3, Zenon DEF Start, When
  <2> QED
    BY <1>0, <2>1, <2>5, Zenon DEF MadeTurns
<1>2. ASSUME NEW r \in Seq(X), NEW x \in X, r \in T
      PROVE  Append(r, x) \in T
  <2>1. PICK t \in Seq(X) : Longer(t, r, x)
    BY Appended
  <2>2. t = Append(r, x)
    BY <2>1, Zenon DEF Longer
  <2>3. /\ Wanted(n, t) = After(Wanted(n, r), Performs(n, x))
        /\ \A v : Made(v, n, t) = After(Made(v, n, r), Through(n, x))
    BY <1>0, <2>2, Zenon DEF MadeTurns
  <2>4. StartTurns(n, r, x)
    BY Starts, Z3
  <2>5. ASSUME ~RemovedLate(n, t)
        PROVE  Made(Start(n, t), n, t) = Wanted(n, t)
    <3>1. ~RemovedLate(n, r)
      <4>1. SUFFICES ASSUME NEW k \in DOMAIN r, r[k].op = "removeHeader", r[k].name = n,
                            NEW i \in 1..k - 1, r[i].op # "removeHeader", Performs(n, r[i]) # <<>>
                     PROVE  FALSE
        BY Zenon DEF RemovedLate
      <4>2. k \in DOMAIN t /\ t[k] = r[k] /\ k \in 1..Len(r) /\ Len(r) \in Nat /\ DOMAIN r = 1..Len(r)
        BY <2>1, Zenon DEF Longer
      <4>3. i \in DOMAIN r
        BY <4>2
      <4>4. t[i] = r[i]
        BY <2>1, <4>3, Zenon DEF Longer
      <4> QED
        BY <2>5, <4>1, <4>2, <4>4, Zenon DEF RemovedLate
    <3>2. Made(Start(n, r), n, r) = Wanted(n, r)
      BY <1>2, <3>1, Zenon
    <3>3. CASE x.op = "removeHeader" /\ x.name = n
      <4>1. Calm(n, r)
        <5>1. SUFFICES ASSUME NEW i \in DOMAIN r, r[i].op # "removeHeader", Performs(n, r[i]) # <<>>
                       PROVE  FALSE
          BY Zenon DEF Calm
        <5>2. PICK k : k = Len(r) + 1
          OBVIOUS
        <5>3. k \in DOMAIN t /\ t[k] = x /\ t[i] = r[i] /\ i \in 1..Len(r) /\ Len(r) \in Nat
          BY <2>1, <5>2, Zenon DEF Longer
        <5>4. i \in 1..k - 1
          BY <5>2, <5>3
        <5> QED
          BY <2>5, <3>3, <5>1, <5>3, <5>4, Zenon DEF RemovedLate
      <4>2. \A v : Made(v, n, r) = v
        BY <4>1, CalmKeeps, Z3
      <4>3. Through(n, x) = <<>>
        BY <3>3, ThroughIs, Zenon
      <4>4. Start(n, t) = <<>>
        BY <2>2, <2>4, <3>3, Zenon DEF StartTurns
      <4>5. Made(Start(n, t), n, t) = <<>>
        BY <2>3, <4>2, <4>3, <4>4, Zenon DEF After
      <4>6. Performs(n, x) = Edit(FALSE, <<>>)
        BY <3>3, Options, Zenon DEF When
      <4>7. Edit(FALSE, <<>>) # <<>> /\ \A v : EditBy(v, Edit(FALSE, <<>>)[1]) = <<>>
        <5>1. <<>> \o <<>> = <<>>
          OBVIOUS
        <5> QED
          BY <5>1, EditAnew, Zenon
      <4>8. Wanted(n, t) = <<>>
        BY <2>3, <4>6, <4>7, Zenon DEF After
      <4> QED
        BY <4>5, <4>8, Zenon
    <3>4. CASE x.op = "removeHeader" /\ x.name # n
      <4>1. Through(n, x) = <<>>
        BY <3>4, ThroughIs, Zenon
      <4>2. Performs(n, x) = <<>>
        BY <3>4, Options, Zenon DEF When
      <4>3. Start(n, t) = Start(n, r)
        BY <2>2, <2>4, <3>4, Zenon DEF StartTurns
      <4> QED
        BY <2>3, <3>2, <4>1, <4>2, <4>3, Zenon DEF After
    <3>5. CASE x.op # "removeHeader"
      <4>1. Through(n, x) = Performs(n, x)
        BY <3>5, ThroughIs, Zenon
      <4>2. Start(n, t) = Start(n, r)
        BY <2>2, <2>4, <3>5, Zenon DEF StartTurns
      <4> QED
        BY <2>3, <3>2, <4>1, <4>2, Zenon
    <3> QED
      BY <3>3, <3>4, <3>5, Zenon
  <2> QED
    BY <2>2, <2>5, Zenon
<1> HIDE DEF T
<1>3. Seq(X) \subseteq T
  BY <1>1, <1>2, SeqInduct, Zenon
<1> USE DEF T
<1> QED
  BY <1>3, Zenon

\* The content-length a reply with a body ends up with.
LEMMA BuiltLength ==
  ASSUME NEW X, NEW s \in Seq(X), bodies(s) # <<>>, ~OwnLength(s)
  PROVE  \A v : Made(v, "content-length", s) = <<bodies(s)[Len(bodies(s))]>>
<1> DEFINE L(r) == bodies(r) # <<>> /\ ~OwnLength(r) =>
                     \A v : Made(v, "content-length", r) = <<bodies(r)[Len(bodies(r))]>>
           T == {r \in Seq(X) : L(r)}
<1>0. MadeTurns(X, "content-length") /\ BuildTurns(X, "content-length")
  BY MadeGrows, BuildGrows, Zenon
<1>1. <<>> \in T
  <2>1. <<>> \in Seq(X)
    OBVIOUS
  <2> QED
    BY <1>0, <2>1, Zenon DEF BuildTurns
<1>2. ASSUME NEW r \in Seq(X), NEW x \in X, r \in T
      PROVE  Append(r, x) \in T
  <2>1. PICK t \in Seq(X) : Longer(t, r, x)
    BY Appended
  <2>2. t = Append(r, x)
    BY <2>1, Zenon DEF Longer
  <2>3. /\ bodies(t) = Plus(bodies(r), When(x.op = "setBody", <<x.value>>))
        /\ \A v : Made(v, "content-length", t) = After(Made(v, "content-length", r), Through("content-length", x))
    BY <1>0, <2>2, Zenon DEF MadeTurns, BuildTurns
  <2>4. ASSUME bodies(t) # <<>>, ~OwnLength(t)
        PROVE  \A v : Made(v, "content-length", t) = <<bodies(t)[Len(bodies(t))]>>
    <3>1. CASE x.op = "setBody"
      <4>1. <<x.value>> # <<>> /\ <<x.value>>[1] = x.value
        OBVIOUS
      <4>2. bodies(t) = Append(bodies(r), x.value)
        BY <2>3, <3>1, <4>1, Zenon DEF Plus, When
      <4>3. PICK B : bodies(r) \in Seq(B)
        BY <1>0, Zenon DEF BuildTurns
      <4>4. bodies(t)[Len(bodies(t))] = x.value
        BY <4>2, <4>3
      <4>5. Through("content-length", x) = Edit(FALSE, <<x.value>>)
        <5>1. x.op # "removeHeader"
          BY <3>1
        <5>2. Performs("content-length", x) = Edit(FALSE, <<x.value>>)
          BY <3>1 DEF Performs
        <5> QED
          BY <5>1, <5>2, ThroughIs, Zenon
      <4>6. Edit(FALSE, <<x.value>>) # <<>> /\ \A v : EditBy(v, Edit(FALSE, <<x.value>>)[1]) = <<x.value>>
        <5>1. <<>> \o <<x.value>> = <<x.value>>
          OBVIOUS
        <5> QED
          BY <5>1, EditAnew, Zenon
      <4> QED
        BY <2>3, <4>4, <4>5, <4>6, Zenon DEF After
    <3>2. CASE x.op # "setBody"
      <4>1. bodies(t) = bodies(r)
        BY <2>3, <3>2, Zenon DEF Plus, When
      <4>2. ~OwnLength(r)
        <5>1. SUFFICES ASSUME NEW k \in DOMAIN r, r[k].op \in {"setHeader", "appendHeader"},
                              r[k].name = "content-length", \A j \in k + 1..Len(r) : r[j].op # "setBody"
                       PROVE  FALSE
          BY Zenon DEF OwnLength
        <5>2. k \in DOMAIN t /\ t[k] = r[k] /\ k \in 1..Len(r) /\ Len(r) \in Nat /\ Len(t) = Len(r) + 1
              /\ DOMAIN r = 1..Len(r)
          BY <2>1, Zenon DEF Longer
        <5>3. ASSUME NEW j \in k + 1..Len(t)
              PROVE  t[j].op # "setBody"
          <6>1. (j \in k + 1..Len(r) /\ j \in DOMAIN r) \/ j = Len(r) + 1
            BY <5>2
          <6> QED
            BY <2>1, <3>2, <5>1, <6>1, Zenon DEF Longer
        <5> QED
          BY <2>4, <5>1, <5>2, <5>3, Zenon DEF OwnLength
      <4>3. ~(x.op \in {"setHeader", "appendHeader"} /\ x.name = "content-length")
        <5>1. PICK k : k = Len(r) + 1
          OBVIOUS
        <5>2. k \in DOMAIN t /\ t[k] = x /\ Len(t) = k /\ k \in Nat
          BY <2>1, <5>1 DEF Longer
        <5>3. k + 1..Len(t) = {}
          BY <5>2
        <5> QED
          BY <2>4, <5>2, <5>3, Zenon DEF OwnLength
      <4>4. x.op # "removeHeader" => Performs("content-length", x) = <<>>
        BY <3>2, <4>3, Zenon DEF Performs
      <4>5. Through("content-length", x) = <<>>
        BY <4>4, ThroughIs, Zenon
      <4> QED
        BY <1>2, <2>3, <2>4, <4>1, <4>2, <4>5, Zenon DEF After
    <3> QED
      BY <3>1, <3>2
  <2> QED
    BY <2>2, <2>4, Zenon
<1> HIDE DEF T
<1>3. Seq(X) \subseteq T
  BY <1>1, <1>2, SeqInduct, Zenon
<1> USE DEF T
<1> QED
  BY <1>3, Zenon

-----------------------------------------------------------------------------
(* Process.                                                                *)

\* What Process has collected is what Envoy has sent: headers, which reset a buffer, come
\* before the body's first chunk.
Collected ==
  /\ policy \in Policies \cup {Nil}
  /\ msgs \subseteq DOMAIN Kinds /\ last \in {0} \cup DOMAIN Kinds
  /\ sent \in [Bodies -> Nat] /\ body = sent
  /\ \A k \in DOMAIN Kinds : Kinds[k] \in Bodies /\ sent[Kinds[k]] > 0 => k \in msgs

\* A message that had a policy found its variables.
Supplied ==
  used # Nil /\ last > 0 /\ Phase \in Phases => req /\ (Phase \in ResponsePhases => resp)

\* What was sent back is what the policy loaded for the message made of it.
Answered ==
  /\ used \in Policies \cup {Nil}
  /\ used # Nil /\ last > 0 /\ Phase \notin Phases => reply = buildContinueResponse(Phase)
  /\ Ran => /\ holds \subseteq Exprs(used, Phase)
            /\ reply = handleProcResult(used, Phase, EvaluateProc(used, Phase, holds))

\* The inductive invariant of Process.
IInv == Collected /\ Supplied /\ UninspectedUntouched /\ Answered

\* The kinds of messages.
LEMMA KindsAre ==
  /\ DOMAIN Kinds = 1..6
  /\ Kinds[1] = "requestHeaders" /\ Kinds[2] = "requestBody" /\ Kinds[3] = "requestTrailers"
  /\ Kinds[4] = "responseHeaders" /\ Kinds[5] = "responseBody"
  /\ Kinds[6] = "responseTrailers"
BY DEF Kinds

USE PolicyAssumption, BoundAssumption

\* Headers come before the first chunk of their body, so that they reset an empty buffer.
LEMMA HeadersFirst ==
  ASSUME Collected, NEW k \in {1, 4}, Sends(k)
  PROVE  sent[Kinds[k + 1]] = 0
<1>1. k + 1 \in DOMAIN Kinds /\ Kinds[k + 1] \in Bodies /\ Kinds[k] \notin Bodies
  BY KindsAre DEF Bodies
<1>2. (k + 1 <= 3) <=> (k <= 3)
  OBVIOUS
<1>3. k + 1 \notin msgs
  BY <1>1, <1>2 DEF Sends
<1>4. sent[Kinds[k + 1]] \in Nat
  BY <1>1 DEF Collected
<1> QED
  BY <1>1, <1>3, <1>4 DEF Collected

\* An evaluated message is answered from the policy loaded for it.
LEMMA EvaluatedAnswers ==
  ASSUME policy \in Policies, NEW k \in DOMAIN Kinds, last' = k, Kinds[k] \in Phases,
         Evaluated(Kinds[k])
  PROVE  Answered'
<1>1. Phase' = Kinds[k] /\ used' = policy /\ policy # Nil
  BY DEF Phase, Evaluated
<1>2. /\ holds' \subseteq Exprs(policy, Kinds[k])
      /\ reply' = handleProcResult(policy, Kinds[k], EvaluateProc(policy, Kinds[k], holds'))
  BY Zenon DEF Evaluated
<1> QED
  BY <1>1, <1>2, Zenon DEF Answered

\* The headers of the request or of the response.
LEMMA StepHeaders ==
  ASSUME IInv, RequestHeaders \/ ResponseHeaders
  PROVE  IInv'
<1>1. PICK k \in {1, 4} :
        /\ Sends(k) /\ used' = policy /\ policy # Nil /\ req' = TRUE
        /\ k = 4 => resp' = TRUE
        /\ body' = [body EXCEPT ![Kinds[k + 1]] = 0] /\ UNCHANGED <<policy, sent>>
        /\ Evaluated(Kinds[k])
  <2> DEFINE Was(k, b) ==
        /\ Sends(k) /\ used' = policy /\ policy # Nil /\ req' = TRUE
        /\ k = 4 => resp' = TRUE
        /\ body' = [body EXCEPT ![b] = 0] /\ UNCHANGED <<policy, sent>>
        /\ Evaluated(Kinds[k])
  <2>1. 1 + 1 = 2 /\ 4 + 1 = 5 /\ 1 # 4
    OBVIOUS
  <2>2. Was(1, Kinds[2]) \/ Was(4, Kinds[5])
    BY <2>1, KindsAre, Zenon DEF RequestHeaders, ResponseHeaders, Evaluated
  <2>3. \E k \in {1, 4} : Was(k, Kinds[k + 1])
    BY <2>1, <2>2, Zenon
  <2> QED
    BY <2>3, Zenon
<1>2. msgs' = msgs \cup {k} /\ last' = k
  BY <1>1 DEF Sends
<1>3. k \in DOMAIN Kinds /\ Kinds[k] \notin Bodies /\ Kinds[k + 1] \in Bodies
  BY KindsAre DEF Bodies
<1>4. Collected'
  <2>1. sent[Kinds[k + 1]] = 0
    BY <1>1, HeadersFirst DEF IInv
  <2>2. body' = sent
    BY <1>1, <1>3, <2>1 DEF IInv, Collected
  <2> QED
    BY <1>1, <1>2, <1>3, <2>2 DEF IInv, Collected
<1>5. Supplied'
  BY <1>1, <1>2, KindsAre DEF Supplied, Phase, ResponsePhases
<1>6. UninspectedUntouched'
  BY <1>1, <1>2, <1>3 DEF UninspectedUntouched, Uninspected, Phase
<1>7. Answered'
  <2>1. policy \in Policies /\ Kinds[k] \in Phases
    BY <1>1, KindsAre DEF IInv, Collected, Phases, RequestPhases, ResponsePhases
  <2> QED
    BY <1>1, <1>2, <1>3, <2>1, EvaluatedAnswers
<1> QED
  BY <1>4, <1>5, <1>6, <1>7 DEF IInv

\* A chunk of a body.
LEMMA StepBody ==
  ASSUME IInv, NEW k \in {2, 5}, NEW n \in 0..MaxBody, BodyFits(k, n) \/ BodyOverflows(k, n)
  PROVE  IInv'
<1> DEFINE b == Kinds[k]
<1>1. b \in Bodies /\ k \in DOMAIN Kinds
  BY KindsAre DEF Bodies
<1>2. /\ Sends(k) /\ policy # Nil /\ used' = policy
      /\ sent' = [sent EXCEPT ![b] = @ + n] /\ body' = [body EXCEPT ![b] = @ + n]
      /\ req' = TRUE /\ resp' = (resp \/ b = "responseBody") /\ UNCHANGED policy
  BY DEF BodyFits, BodyOverflows, Collect, Evaluated, NotEvaluated
<1>3. msgs' = msgs \cup {k} /\ last' = k
  BY <1>2 DEF Sends
<1>4. Collected'
  <2>1. sent \in [Bodies -> Nat] /\ body = sent
    BY DEF IInv, Collected
  <2>2. sent' \in [Bodies -> Nat] /\ body' = sent'
    BY <1>1, <1>2, <2>1
  <2>3. \A j \in DOMAIN Kinds : Kinds[j] \in Bodies /\ sent'[Kinds[j]] > 0 => j \in msgs'
    <3> TAKE j \in DOMAIN Kinds
    <3>1. CASE j = k
      BY <1>3, <3>1
    <3>2. CASE j # k /\ Kinds[j] \in Bodies
      <4>1. Kinds[j] # b
        BY <3>2, KindsAre DEF Bodies
      <4> QED
        BY <1>2, <1>3, <2>1, <3>2, <4>1 DEF IInv, Collected
    <3> QED
      BY <3>1, <3>2
  <2> QED
    BY <1>1, <1>2, <1>3, <2>2, <2>3 DEF IInv, Collected
<1>5. Supplied'
  BY <1>2, <1>3, KindsAre, Zenon DEF Supplied, Phase, ResponsePhases
<1>6. UninspectedUntouched'
  <2>1. Phase' = b /\ sent'[b] = body'[b]
    BY <1>3, <1>4 DEF Phase, Collected
  <2>2. CASE BodyFits(k, n)
    <3>1. body'[b] <= policy.limit
      BY <2>2 DEF BodyFits
    <3>2. sent'[b] \in Int /\ policy.limit \in Int
      <4>1. sent'[b] \in Nat
        BY <1>1, <1>4 DEF Collected
      <4>2. ProcPolicy(policy)
        BY <1>2 DEF IInv, Collected
      <4>3. policy.limit \in Int
        BY <4>2, Zenon DEF ProcPolicy
      <4> QED
        BY <4>1, <4>3
    <3> QED
      BY <1>2, <2>1, <3>1, <3>2 DEF UninspectedUntouched, Uninspected
  <2>3. CASE BodyOverflows(k, n)
    BY <1>2, <2>1, <2>3, SMTT(30) DEF UninspectedUntouched, BodyOverflows, NotEvaluated
  <2> QED
    BY <2>2, <2>3
<1>7. Answered'
  <2>1. policy \in Policies /\ b \in Phases /\ Phase' = b
    BY <1>1, <1>2, <1>3 DEF IInv, Collected, Phase, Phases, RequestPhases, ResponsePhases, Bodies
  <2>2. CASE BodyFits(k, n)
    BY <1>1, <1>3, <2>1, <2>2, EvaluatedAnswers DEF BodyFits
  <2>3. CASE BodyOverflows(k, n)
    <3>1. body'[b] > policy.limit
      BY <2>3 DEF BodyOverflows
    <3>2. body'[b] \in Nat /\ policy.limit \in Int
      <4>1. ProcPolicy(policy)
        BY <2>1
      <4>2. policy.limit \in Int
        BY <4>1, Zenon DEF ProcPolicy
      <4> QED
        BY <1>1, <1>4, <4>2 DEF Collected
    <3>3. ~(body'[b] <= policy.limit)
      BY <3>1, <3>2
    <3> QED
      BY <1>1, <1>2, <2>1, <3>3, Zenon DEF Answered, Ran
  <2> QED
    BY <2>2, <2>3
<1> QED
  BY <1>4, <1>5, <1>6, <1>7 DEF IInv

\* Messages that are not evaluated.
LEMMA StepPassed ==
  ASSUME IInv, NEW k \in DOMAIN Kinds, Trailers(k) \/ NoPolicy(k)
  PROVE  IInv'
<1>1. /\ Sends(k) /\ used' = policy /\ (policy = Nil \/ Kinds[k] \notin Phases)
      /\ reply' = buildContinueResponse(Kinds[k]) /\ UNCHANGED <<policy, body, sent>>
  BY DEF Trailers, NoPolicy, NotEvaluated
<1>2. msgs' = msgs \cup {k} /\ last' = k
  BY <1>1 DEF Sends
<1>3. Collected'
  BY <1>1, <1>2 DEF IInv, Collected
<1>4. Supplied'
  BY <1>1, <1>2 DEF Supplied, Phase
<1>5. UninspectedUntouched'
  BY <1>1, <1>2 DEF UninspectedUntouched, Uninspected, Phase, buildContinueResponse
<1>6. Answered'
  <2>1. Phase' = Kinds[k] /\ policy \in Policies \cup {Nil}
    BY <1>2 DEF Phase, IInv, Collected
  <2> QED
    BY <1>1, <2>1, Zenon DEF Answered, Ran
<1> QED
  BY <1>3, <1>4, <1>5, <1>6 DEF IInv

\* Process keeps its invariant, whichever messages are left out and however bodies are cut.
THEOREM Invariance == Spec => []IInv
<1>1. Init => IInv
  <2> SUFFICES ASSUME Init PROVE IInv
    OBVIOUS
  <2>1. Collected
    <3>1. /\ policy \in Policies \cup {Nil} /\ msgs = {} /\ last = 0
          /\ sent = [k \in Bodies |-> 0] /\ body = sent
      BY DEF Init
    <3> QED
      BY <3>1 DEF Collected
  <2>2. Supplied /\ UninspectedUntouched /\ Answered
    <3>1. last = 0 /\ used = Nil
      BY DEF Init
    <3>2. ~(last > 0)
      BY <3>1
    <3> QED
      BY <3>1, <3>2, Zenon DEF Supplied, UninspectedUntouched, Uninspected, Answered, Ran
  <2> QED
    BY <2>1, <2>2 DEF IInv
<1>2. IInv /\ [Next]_vars => IInv'
  <2> SUFFICES ASSUME IInv, [Next]_vars PROVE IInv'
    OBVIOUS
  <2>1. CASE UNCHANGED vars \/ SetPolicy \/ Close
    <3>1. UNCHANGED <<msgs, last, req, resp, body, sent, used, holds, reply>>
      BY <2>1 DEF vars, stream, SetPolicy, Close
    <3>2. policy' \in Policies \cup {Nil}
      BY <2>1 DEF vars, SetPolicy, Close, IInv, Collected
    <3>3. Collected'
      BY <3>1, <3>2, Zenon DEF IInv, Collected
    <3>4. Supplied'
      BY <3>1, Zenon DEF IInv, Supplied, Phase, Ran
    <3>5. UninspectedUntouched'
      BY <3>1, Zenon DEF IInv, UninspectedUntouched, Uninspected, Phase
    <3>6. Answered'
      BY <3>1, Zenon DEF IInv, Answered, Phase, Ran
    <3> QED
      BY <3>3, <3>4, <3>5, <3>6, Zenon DEF IInv
  <2>2. CASE RequestBody \/ ResponseBody
    BY <2>2, StepBody DEF RequestBody, ResponseBody
  <2> QED
    BY <2>1, <2>2, StepHeaders, StepPassed DEF Next, Process
<1> QED
  BY <1>1, <1>2, PTL DEF Spec

\* What no rule has seen, for want of a policy or because the body is past the limit, is
\* answered without a mutation, and blocked exactly if the policy says so.
THEOREM Untouched == Spec => []UninspectedUntouched
<1>1. IInv => UninspectedUntouched
  BY DEF IInv
<1> QED
  BY <1>1, Invariance, PTL

\* No expression is evaluated without the variables it was compiled against.
THEOREM Variables == Spec => []VariablesSet
<1>1. IInv => VariablesSet
  BY DEF IInv, Supplied, VariablesSet, Ran
<1> QED
  BY <1>1, Invariance, PTL

-----------------------------------------------------------------------------
(* What the replies are.                                                   *)

\* The state after the policy ran.
Replied ==
  LET res == EvaluateProc(used, Phase, holds) IN
  /\ ProcPolicy(used) /\ holds \subseteq Exprs(used, Phase)
  /\ res \in Seq(Muts(used)) /\ Enforced \in Seq(Muts(used))
  /\ reply = handleProcResult(used, Phase, res)
  /\ Direct(used, res) # <<>> => reply = Immediate(Direct(used, res)[1].value)
  /\ Direct(used, res) = <<>> => reply = Continue(Phase, buildMutations(Enforced))

\* The answer is the one of handleProcResult, from a policy of the right shape.
LEMMA RanReplied ==
  ASSUME IInv, Ran
  PROVE  Replied
<1> DEFINE X == Muts(used)
           res == EvaluateProc(used, Phase, holds)
<1>1. ProcPolicy(used) /\ holds \subseteq Exprs(used, Phase) /\ reply = handleProcResult(used, Phase, res)
  BY PolicyAssumption, Zenon DEF IInv, Answered, Ran
<1>2. Maps(Kept(used, X), X, X) /\ Maps(AppliedOf(used, X), X, X)
  BY FiltersMap, Zenon
<1>3. res \in Seq(X)
  <2>1. PICK f : Maps(f, Muts(used), X)
    BY <1>2, Zenon
  <2>2. res \in Seq(Muts(used)) /\ FlatMap(f, res) = Loops(used, Phase, holds, f)
    BY <1>1, <2>1, EvaluateMap, ZenonT(30)
  <2> QED
    BY <2>2, Zenon
<1> HIDE DEF X, res
<1>4. FlatMap(AppliedOf(used, X), res) \in Seq(X)
  BY <1>2, <1>3, FlatMapType, SMTT(30)
<1>5. Applied(used, res) = FlatMap(AppliedOf(used, X), res)
  BY <1>3, FiltersAre, Zenon
<1>6. Enforced = Applied(used, res)
  BY Zenon DEF Enforced, res
<1>7. Enforced \in Seq(X)
  BY <1>4, <1>5, <1>6, Zenon
<1>8. /\ Direct(used, res) # <<>> => reply = Immediate(Direct(used, res)[1].value)
      /\ Direct(used, res) = <<>> => reply = Continue(Phase, buildMutations(Enforced))
  BY <1>1, <1>6, Zenon DEF handleProcResult
<1> QED
  BY <1>1, <1>3, <1>7, <1>8, Zenon DEF Replied, X, res

\* What the answers are made of.
LEMMA AnswersAre ==
  /\ \A v : LET r == Immediate(v) IN r.type = "immediate" /\ r.type # "continue" /\ r.status = v /\ r.mutation = NoMutation
  /\ \A k, m : LET r == Continue(k, m) IN r.type = "continue" /\ r.type # "immediate" /\ r.mutation = m
BY DEF Immediate, Continue

\* Shadow mode is inert: a rule in shadow mode, or any rule under global dry-run, changes
\* nothing in a reply, and under global dry-run every reply lets the message pass untouched.
THEOREM Shadowed == Spec => []ShadowInert
<1>1. ASSUME IInv
      PROVE  ShadowInert
  <2>1. SUFFICES ASSUME used # Nil, last > 0
                 PROVE  /\ Ran => reply = handleProcResult(Stripped(used), Phase,
                                            EvaluateProc(Stripped(used), Phase, holds))
                        /\ used.dryRun => reply.type = "continue" /\ reply.mutation = NoMutation
    BY Zenon DEF ShadowInert
  <2>2. CASE Ran
    <3> DEFINE X == Muts(used)
               res == EvaluateProc(used, Phase, holds)
    <3>1. Replied
      BY <1>1, <2>2, RanReplied, Zenon
    <3>2. ProcPolicy(used) /\ res \in Seq(X) /\ reply = handleProcResult(used, Phase, res)
      BY <3>1, Zenon DEF Replied
    <3>3. EvaluateProc(Stripped(used), Phase, holds) = FlatMap(Kept(used, X), res)
      BY <3>2, StripEvaluates, Zenon
    <3>4. ~Stripped(used).dryRun
      BY DEF Stripped
    <3> HIDE DEF X, res
    <3>5. handleProcResult(Stripped(used), Phase, FlatMap(Kept(used, X), res)) = reply
      BY <3>2, <3>4, HandleKept, Z3
    <3>6. ASSUME used.dryRun
          PROVE  reply.type = "continue" /\ reply.mutation = NoMutation
      <4>1. reply = Continue(Phase, NoMutation)
        BY <3>2, <3>6, DryHandled, Z3
      <4> QED
        BY <4>1, AnswersAre, Zenon
    <3> QED
      BY <3>3, <3>5, <3>6, Zenon
  <2>3. CASE ~Ran
    <3>1. ASSUME used.dryRun
          PROVE  reply.type = "continue" /\ reply.mutation = NoMutation
      <4>1. CASE Phase \notin Phases
        <5>1. reply = buildContinueResponse(Phase)
          BY <1>1, <2>1, <4>1, Zenon DEF IInv, Answered
        <5> QED
          BY <5>1, AnswersAre, Zenon DEF buildContinueResponse
      <4>2. CASE Phase \in Phases
        <5>1. Phase \in Bodies /\ ~(body[Phase] <= used.limit)
          BY <2>1, <2>3, <4>2, Zenon DEF Ran
        <5>2. Uninspected
          <6>1. used.limit \in Int
            BY <1>1, <2>1, PolicyAssumption, Zenon DEF IInv, Answered, ProcPolicy
          <6>2. body = sent /\ sent[Phase] \in Nat
            BY <1>1, <5>1, Zenon DEF IInv, Collected
          <6>3. sent[Phase] > used.limit
            BY <5>1, <6>1, <6>2
          <6> QED
            BY <2>1, <4>2, <5>1, <6>3, Zenon DEF Uninspected
        <5>3. reply = Continue(Phase, NoMutation)
          BY <1>1, <2>1, <3>1, <5>2, Zenon DEF IInv, UninspectedUntouched
        <5> QED
          BY <5>3, AnswersAre, Zenon
      <4> QED
        BY <4>1, <4>2
    <3> QED
      BY <2>3, <3>1, Zenon
  <2> QED
    BY <2>2, <2>3
<1> QED
  BY <1>1, Invariance, PTL

\* A directResponse is served exactly when one is due, and then the first in declaration order.
THEOREM FirstServed == Spec => []FirstDirectWins
<1>1. ASSUME IInv
      PROVE  FirstDirectWins
  <2>1. SUFFICES ASSUME Ran
                 PROVE  /\ reply.type = "immediate" <=> Due # {}
                        /\ Due # {} =>
                             LET x == CHOOSE y \in Due : \A z \in Due : Before(y, z)
                             IN  reply.status = used.groups[x[1]].rules[x[2]].mutations[1].value
    BY Zenon DEF FirstDirectWins
  <2>2. Replied
    BY <1>1, <2>1, RanReplied, Zenon
  <2> DEFINE d == Direct(used, EvaluateProc(used, Phase, holds))
  <2>3. ProcPolicy(used) /\ holds \subseteq Exprs(used, Phase)
    BY <2>2, Zenon DEF Replied
  <2>4. /\ d # <<>> <=> Due # {}
        /\ \A x \in Due : (\A y \in Due : Before(x, y)) =>
             d[1].value = used.groups[x[1]].rules[x[2]].mutations[1].value
    BY <2>3, DirectFirst, Zenon
  <2>5. /\ d # <<>> => reply = Immediate(d[1].value)
        /\ d = <<>> => reply = Continue(Phase, buildMutations(Enforced))
    BY <2>2, Zenon DEF Replied
  <2> HIDE DEF d
  <2>6. reply.type = "immediate" <=> Due # {}
    BY <2>4, <2>5, AnswersAre, ZenonT(30)
  <2>7. ASSUME Due # {}
        PROVE  LET x == CHOOSE y \in Due : \A z \in Due : Before(y, z)
               IN  reply.status = used.groups[x[1]].rules[x[2]].mutations[1].value
    <3> DEFINE x == CHOOSE y \in Due : \A z \in Due : Before(y, z)
    <3>1. \E y \in Due : \A z \in Due : Before(y, z)
      BY <2>3, <2>7, DueFirst, Zenon
    <3>2. x \in Due /\ \A z \in Due : Before(x, z)
      BY <3>1, Zenon
    <3> HIDE DEF x
    <3>3. reply.status = d[1].value
      BY <2>4, <2>5, <2>7, AnswersAre, Zenon
    <3>4. reply.status = used.groups[x[1]].rules[x[2]].mutations[1].value
      BY <2>4, <3>2, <3>3, Zenon
    <3> USE DEF x
    <3> QED
      BY <3>4, Zenon
  <2> QED
    BY <2>6, <2>7, Zenon
<1> QED
  BY <1>1, Invariance, PTL

\* What a reply makes of every header is what the enforced mutations in declaration order
\* make of it, unless a header is removed after it was written.
THEOREM LastWrites == Spec => []LastWriteWins
<1>1. ASSUME IInv
      PROVE  LastWriteWins
  <2>1. SUFFICES ASSUME Ran, reply.type = "continue", NEW n \in Headers, ~RemovedLate(n, Enforced)
                 PROVE  EnvoyMakes(n, reply.mutation) = Wanted(n, Enforced)
    BY Zenon DEF LastWriteWins
  <2>2. Replied
    BY <1>1, <2>1, RanReplied, Zenon
  <2>3. PICK m : m = buildMutations(Enforced)
    OBVIOUS
  <2>4. reply.mutation = m
    <3>1. Direct(used, EvaluateProc(used, Phase, holds)) = <<>>
      BY <2>1, <2>2, AnswersAre, Zenon DEF Replied
    <3>2. reply = Continue(Phase, m)
      BY <2>2, <2>3, <3>1, Zenon DEF Replied
    <3> QED
      BY <3>2, AnswersAre, Zenon
  <2>5. m.set = setHeaders(Enforced) /\ m.remove = removeHeaders(Enforced)
    BY <2>3 DEF buildMutations
  <2>6. EnvoyMakes(n, m) = Made(Start(n, Enforced), n, Enforced)
    BY <2>5, Zenon DEF EnvoyMakes, Made, Start
  <2>7. Enforced \in Seq(Muts(used))
    BY <2>2, Zenon DEF Replied
  <2>8. Made(Start(n, Enforced), n, Enforced) = Wanted(n, Enforced)
    BY <2>1, <2>7, BuiltMakes, Z3
  <2> QED
    BY <2>4, <2>6, <2>8, Zenon
<1> QED
  BY <1>1, Invariance, PTL

\* The last replacement of a body that counts sets the content-length it travels with.
THEOREM LengthsFit == Spec => []ContentLengthFits
<1>1. ASSUME IInv
      PROVE  ContentLengthFits
  <2>1. SUFFICES ASSUME Ran, reply.mutation.body # <<>>, ~OwnLength(Enforced)
                 PROVE  EnvoyMakes("content-length", reply.mutation) = reply.mutation.body
    BY Zenon DEF ContentLengthFits
  <2>2. Replied
    BY <1>1, <2>1, RanReplied, Zenon
  <2>3. PICK m : m = buildMutations(Enforced)
    OBVIOUS
  <2>4. reply.mutation = m
    <3>1. NoMutation.body = <<>>
      BY DEF NoMutation
    <3>2. Direct(used, EvaluateProc(used, Phase, holds)) = <<>>
      <4>1. SUFFICES ASSUME NEW v, reply = Immediate(v)
                     PROVE  FALSE
        BY <2>2, Zenon DEF Replied
      <4>2. reply.mutation = NoMutation
        BY <4>1, AnswersAre, Zenon
      <4> QED
        BY <2>1, <3>1, <4>2, Zenon
    <3>3. reply = Continue(Phase, m)
      BY <2>2, <2>3, <3>2, Zenon DEF Replied
    <3> QED
      BY <3>3, AnswersAre, Zenon
  <2>5. m.set = setHeaders(Enforced) /\ m.remove = removeHeaders(Enforced)
        /\ m.body = When(bodies(Enforced) # <<>>, <<bodies(Enforced)[Len(bodies(Enforced))]>>)
    BY <2>3 DEF buildMutations
  <2>6. bodies(Enforced) # <<>> /\ m.body = <<bodies(Enforced)[Len(bodies(Enforced))]>>
    BY <2>1, <2>4, <2>5, Zenon DEF When
  <2>7. Enforced \in Seq(Muts(used))
    BY <2>2, Zenon DEF Replied
  <2>8. \A v : Made(v, "content-length", Enforced) = <<bodies(Enforced)[Len(bodies(Enforced))]>>
    BY <2>1, <2>6, <2>7, BuiltLength, Z3
  <2>9. EnvoyMakes("content-length", m) = Made(Start("content-length", Enforced), "content-length", Enforced)
    BY <2>5, Zenon DEF EnvoyMakes, Made, Start
  <2> QED
    BY <2>4, <2>6, <2>8, <2>9, Zenon
<1> QED
  BY <1>1, Invariance, PTL
=============================================================================
