-------------------------- MODULE ExpressionProofs --------------------------
(* Proofs about TextFunctions: what the expressions of a policy use of      *)
(* JSONPath and of glob patterns, for any lexemes, patterns, classes and    *)
(* strings.                                                                 *)
EXTENDS TextFunctions, SequenceFacts, TLAPS

-----------------------------------------------------------------------------
(* Functions of a position that are defined from the end of a sequence.    *)

\* The functional R sees only what is right of a position.
LooksRight(R, N, V) ==
  \A i \in 1..N :
    /\ R[i] \in [[1..N + 1 -> V] -> V]
    /\ \A f, g \in [1..N + 1 -> V] : (\A j \in i + 1..N + 1 : f[j] = g[j]) => R[i][f] = R[i][g]

\* f is defined by it, at the last n positions.
Descends(f, R, base, N, n) == f[N + 1] = base /\ \A i \in (N + 1) - n..N : f[i] = R[i][f]

\* There is such a function.
LEMMA DescendExists ==
  ASSUME NEW N \in Nat, NEW V, NEW base \in V, NEW R, LooksRight(R, N, V)
  PROVE  \E f \in [1..N + 1 -> V] : Descends(f, R, base, N, N)
<1> DEFINE T == {n \in Nat : n <= N => \E f \in [1..N + 1 -> V] : Descends(f, R, base, N, n)}
<1>1. 0 \in T
  <2>1. PICK f \in [1..N + 1 -> V] : f = [i \in 1..N + 1 |-> base]
    OBVIOUS
  <2>2. f[N + 1] = base /\ \A i \in (N + 1) - 0..N : FALSE
    BY <2>1
  <2>3. Descends(f, R, base, N, 0)
    BY <2>2, Zenon DEF Descends
  <2>4. 0 \in Nat
    OBVIOUS
  <2> QED
    BY <2>3, <2>4, Zenon
<1>2. ASSUME NEW n \in Nat, n \in T
      PROVE  n + 1 \in T
  <2> SUFFICES ASSUME n + 1 <= N
               PROVE  \E f \in [1..N + 1 -> V] : Descends(f, R, base, N, n + 1)
    <3>1. n + 1 \in Nat
      OBVIOUS
    <3> QED
      BY <3>1, Zenon
  <2>1. PICK f \in [1..N + 1 -> V] : Descends(f, R, base, N, n)
    <3>1. n <= N
      OBVIOUS
    <3> QED
      BY <1>2, <3>1, Zenon
  <2>2. PICK k \in 1..N : k = N - n
    OBVIOUS
  <2>3. R[k][f] \in V
    BY Zenon DEF LooksRight
  <2>4. PICK g : g = [f EXCEPT ![k] = R[k][f]]
    OBVIOUS
  <2>5. g \in [1..N + 1 -> V] /\ g[k] = R[k][f] /\ \A j \in 1..N + 1 : j # k => g[j] = f[j]
    BY <2>3, <2>4
  <2>6. \A i \in k..N : \A j \in i + 1..N + 1 : j \in 1..N + 1 /\ j # k
    OBVIOUS
  <2>7. \A i \in k..N : R[i][g] = R[i][f]
    <3> TAKE i \in k..N
    <3>1. \A j \in i + 1..N + 1 : g[j] = f[j]
      BY <2>5, <2>6, Zenon
    <3>2. i \in 1..N
      OBVIOUS
    <3> QED
      BY <2>5, <3>1, <3>2, Zenon DEF LooksRight
  <2>8. \A i \in (N + 1) - (n + 1)..N : i \in k..N /\ (i = k \/ (i \in (N + 1) - n..N /\ i # k /\ i \in 1..N + 1))
    BY <2>2
  <2>9. \A i \in (N + 1) - (n + 1)..N : g[i] = R[i][g]
    BY <2>1, <2>5, <2>7, <2>8, Zenon DEF Descends
  <2>10. g[N + 1] = base
    <3>1. N + 1 \in 1..N + 1 /\ N + 1 # k
      OBVIOUS
    <3> QED
      BY <2>1, <2>5, <3>1, Zenon DEF Descends
  <2> QED
    BY <2>5, <2>9, <2>10, Zenon DEF Descends
<1> HIDE DEF T
<1>3. N \in T
  BY <1>1, <1>2, NatInduct
<1>4. N <= N
  OBVIOUS
<1> QED
  BY <1>3, <1>4, Zenon DEF T

\* Two functions that are defined alike, from the end.
Alike(f, g, N) ==
  f[N + 1] = g[N + 1] /\ \A i \in 1..N : (\A j \in i + 1..N + 1 : f[j] = g[j]) => f[i] = g[i]

\* Two such functions are equal.
LEMMA DescendAgree ==
  ASSUME NEW N \in Nat, NEW f, NEW g, Alike(f, g, N)
  PROVE  \A i \in 1..N + 1 : f[i] = g[i]
<1> USE DEF Alike
<1> DEFINE T == {n \in Nat : n <= N => \A j \in (N + 1) - n..N + 1 : f[j] = g[j]}
<1>1. 0 \in T
  OBVIOUS
<1>2. ASSUME NEW n \in Nat, n \in T
      PROVE  n + 1 \in T
  <2> SUFFICES ASSUME n + 1 <= N
               PROVE  \A j \in (N + 1) - (n + 1)..N + 1 : f[j] = g[j]
    <3>1. n + 1 \in Nat
      OBVIOUS
    <3> QED
      BY <3>1, Zenon
  <2>1. PICK k \in 1..N : k = N - n
    OBVIOUS
  <2>2. \A j \in k + 1..N + 1 : f[j] = g[j]
    <3>1. n <= N /\ (N + 1) - n = k + 1
      BY <2>1
    <3> QED
      BY <1>2, <3>1, Zenon
  <2>3. f[k] = g[k]
    BY <2>2, Zenon
  <2>4. \A j \in (N + 1) - (n + 1)..N + 1 : j = k \/ j \in k + 1..N + 1
    BY <2>1
  <2> QED
    BY <2>2, <2>3, <2>4, Zenon
<1> HIDE DEF T
<1>3. N \in T
  BY <1>1, <1>2, NatInduct
<1>4. N <= N /\ (N + 1) - N = 1
  OBVIOUS
<1>5. N <= N => \A j \in (N + 1) - N..N + 1 : f[j] = g[j]
  BY <1>3, Zenon DEF T
<1> QED
  BY <1>4, <1>5, Zenon

-----------------------------------------------------------------------------
(* JSONPath expressions.                                                   *)

\* One to three kinds of lexemes.
LEMMA TupleEq ==
  \A a, b, d, x, y, z :
    /\ <<a>> = <<x>> <=> a = x
    /\ <<a, b>> = <<x, y>> <=> a = x /\ b = y
    /\ <<a, b, d>> = <<x, y, z>> <=> a = x /\ b = y /\ d = z
    /\ <<a>> # <<x, y>> /\ <<a>> # <<x, y, z>> /\ <<a, b>> # <<x>>
    /\ <<a, b>> # <<x, y, z>> /\ <<a, b, d>> # <<x>> /\ <<a, b, d>> # <<x, y>>
  OBVIOUS

\* What a turn of Compile's loop takes.
StepIs(l, i, s) ==
  \/ /\ s.lexemes = 3 /\ At(l, i) = "." /\ At(l, i + 1) = "." /\ At(l, i + 2) = "name"
     /\ s.step = Recursive(l[i + 2].name)
  \/ s.lexemes = 2 /\ At(l, i) = "." /\ At(l, i + 1) = "name" /\ s.step = Key(l[i + 1].name)
  \/ s.lexemes = 1 /\ At(l, i) = "name" /\ s.step = Key(l[i].name)
  \/ s.lexemes = 1 /\ At(l, i) = "[]" /\ l[i].atoi /\ s.step = l[i].step
  \/ /\ s.lexemes = 0 /\ ~(At(l, i) = "." /\ At(l, i + 1) = "." /\ At(l, i + 2) = "name")
     /\ ~(At(l, i) = "." /\ At(l, i + 1) = "name")
     /\ At(l, i) # "name" /\ ~(At(l, i) = "[]" /\ l[i].atoi)

\* StepAt takes that.
LEMMA StepAtIs ==
  ASSUME NEW l, NEW i
  PROVE  StepIs(l, i, StepAt(l, i))
<1>1. \A k, st : Takes(k, st).lexemes = k /\ Takes(k, st).step = st
  BY DEF Takes
<1>2. Error.lexemes = 0
  BY DEF Error
<1>3. PICK a, b, d, s : a = At(l, i) /\ b = At(l, i + 1) /\ d = At(l, i + 2) /\ s = StepAt(l, i)
  BY Zenon
<1>4. CASE a = "." /\ b = "."
  <2>1. s = IF d = "name" THEN Takes(3, Recursive(l[i + 2].name)) ELSE Error
    BY <1>3, <1>4, Zenon DEF StepAt
  <2>2. b # "name" /\ a # "name" /\ a # "[]"
    BY <1>4
  <2>3. CASE d = "name"
    <3>1. s.lexemes = 3 /\ s.step = Recursive(l[i + 2].name)
      BY <1>1, <2>1, <2>2, <2>3, Zenon
    <3> QED
      BY <1>3, <1>4, <2>3, <3>1, Zenon DEF StepIs
  <2>4. CASE ~(d = "name")
    <3>1. s.lexemes = 0
      BY <1>2, <2>1, <2>2, <2>4, Zenon
    <3> QED
      BY <1>3, <1>4, <2>1, <2>2, <2>4, <3>1, Zenon DEF StepIs
  <2> QED
    BY <2>3, <2>4, Zenon
<1>5. CASE a = "." /\ b # "."
  <2>1. s = IF b = "name" THEN Takes(2, Key(l[i + 1].name)) ELSE Error
    BY <1>3, <1>5, Zenon DEF StepAt
  <2>2. a # "name" /\ a # "[]"
    BY <1>5
  <2>3. CASE b = "name"
    <3>1. s.lexemes = 2 /\ s.step = Key(l[i + 1].name)
      BY <1>1, <2>1, <2>2, <2>3, Zenon
    <3> QED
      BY <1>3, <1>5, <2>3, <3>1, Zenon DEF StepIs
  <2>4. CASE ~(b = "name")
    <3>1. s.lexemes = 0
      BY <1>2, <2>1, <2>2, <2>4, Zenon
    <3> QED
      BY <1>3, <1>5, <2>1, <2>2, <2>4, <3>1, Zenon DEF StepIs
  <2> QED
    BY <2>3, <2>4, Zenon
<1>6. CASE a = "[]"
  <2>1. a # "name" /\ a # "."
    BY <1>6
  <2>2. s = IF l[i].atoi THEN Takes(1, l[i].step) ELSE Error
    BY <1>3, <1>6, <2>1, Zenon DEF StepAt
  <2>3. CASE l[i].atoi
    <3>1. s.lexemes = 1 /\ s.step = l[i].step
      <4>1. s = Takes(1, l[i].step)
        BY <2>2, <2>3, Zenon
      <4> QED
        BY <1>1, <4>1, Zenon
    <3> QED
      BY <1>3, <1>6, <2>3, <3>1, Zenon DEF StepIs
  <2>4. CASE ~(l[i].atoi)
    <3>1. s.lexemes = 0
      BY <1>2, <2>1, <2>2, <2>4, Zenon
    <3> QED
      BY <1>3, <1>6, <2>1, <2>2, <2>4, <3>1, Zenon DEF StepIs
  <2> QED
    BY <2>3, <2>4, Zenon
<1>7. CASE a = "name"
  <2>1. a # "[]" /\ a # "."
    BY <1>7
  <2>2. s = Takes(1, Key(l[i].name))
    BY <1>3, <1>7, <2>1, Zenon DEF StepAt
  <2>3. s.lexemes = 1 /\ s.step = Key(l[i].name)
    BY <1>1, <2>2, Zenon
  <2> QED
    BY <1>3, <1>7, <2>3, Zenon DEF StepIs
<1>8. CASE a # "." /\ a # "[]" /\ a # "name"
  <2>1. s = Error
    BY <1>3, <1>8, Zenon DEF StepAt
  <2> QED
    BY <1>2, <1>3, <1>8, <2>1, Zenon DEF StepIs
<1> QED
  BY <1>4, <1>5, <1>6, <1>7, <1>8, Zenon

\* What a run of lexemes stands for, by their kinds.
LEMMA DenotesIs ==
  ASSUME NEW p, NEW t, t = [i \in DOMAIN p |-> p[i].t]
  PROVE  /\ t = <<".", ".", "name">> => Denotes(p) = {Recursive(p[3].name)}
         /\ t = <<".", "name">> => Denotes(p) = {Key(p[2].name)}
         /\ t = <<"name">> => Denotes(p) = {Key(p[1].name)}
         /\ t = <<"[]">> => Denotes(p) = IF p[1].atoi THEN {p[1].step} ELSE {}
         /\ t \notin {<<".", ".", "name">>, <<".", "name">>, <<"name">>, <<"[]">>} => Denotes(p) = {}
<1>1. <<".", ".", "name">> # <<".", "name">> /\ <<".", ".", "name">> # <<"name">>
      /\ <<".", ".", "name">> # <<"[]">> /\ <<".", "name">> # <<"name">> /\ <<".", "name">> # <<"[]">>
  BY TupleEq, Zenon
<1>2. "name" # "[]"
  OBVIOUS
<1>3. <<"name">> # <<"[]">>
  BY <1>2, TupleEq, Zenon
<1>4. PICK D : D = Denotes(p)
  OBVIOUS
<1>5. CASE t = <<".", ".", "name">>
  BY <1>1, <1>3, <1>5, Zenon DEF Denotes
<1>6. CASE t = <<".", "name">>
  BY <1>1, <1>3, <1>6, Zenon DEF Denotes
<1>7. CASE t = <<"name">>
  BY <1>1, <1>3, <1>7, Zenon DEF Denotes
<1>8. CASE t = <<"[]">>
  BY <1>1, <1>3, <1>8, Zenon DEF Denotes
<1>9. CASE t \notin {<<".", ".", "name">>, <<".", "name">>, <<"name">>, <<"[]">>}
  BY <1>9, Zenon DEF Denotes
<1> QED
  BY <1>5, <1>6, <1>7, <1>8, <1>9, Zenon

\* A run of lexemes.
RunIs(p, l, i, m) == DOMAIN p = 1..m /\ \A k \in 1..m : p[k] = l[(i + k) - 1]

\* As SubSeq makes it.
LEMMA SubSeqRun ==
  ASSUME NEW X, NEW l \in Seq(X), NEW i \in 1..Len(l), NEW j \in i..Len(l)
  PROVE  RunIs(SubSeq(l, i, j), l, i, (j - i) + 1)
<1>1. PICK p : p = SubSeq(l, i, j)
  OBVIOUS
<1>2. p \in Seq(X)
  BY <1>1
<1>3. Len(p) = (j - i) + 1
  BY <1>1
<1>4. \A k \in 1..(j - i) + 1 : p[k] = l[(i + k) - 1]
  BY <1>1
<1>5. DOMAIN p = 1..(j - i) + 1
  BY <1>2, <1>3
<1> QED
  BY <1>1, <1>4, <1>5, Zenon DEF RunIs

\* A turn of Compile's loop takes the one run of lexemes that stands for
\* something, and appends what it stands for.
LEMMA StepDenotes ==
  ASSUME NEW X, NEW l \in Seq(X), NEW i \in 1..Len(l), NEW j \in i..Len(l)
  PROVE  LET s == StepAt(l, i) IN
         Denotes(SubSeq(l, i, j)) = IF s.lexemes = (j - i) + 1 THEN {s.step} ELSE {}
<1>1. PICK s : s = StepAt(l, i) /\ StepIs(l, i, s)
  BY StepAtIs, Zenon
<1>2. PICK m \in Nat \ {0} : m = (j - i) + 1
  OBVIOUS
<1>3. PICK p : p = SubSeq(l, i, j) /\ RunIs(p, l, i, m)
  BY <1>2, SubSeqRun, Zenon
<1>4. PICK t : t = [k \in DOMAIN p |-> p[k].t]
  OBVIOUS
<1>5. DOMAIN p = 1..m /\ \A k \in 1..m : p[k] = l[(i + k) - 1]
  BY <1>3, Zenon DEF RunIs
<1>6. \A k \in 1..m : At(l, (i + k) - 1) = l[(i + k) - 1].t
  <2>1. \A k \in 1..m : (i + k) - 1 <= Len(l)
    BY <1>2
  <2> QED
    BY <2>1, Zenon DEF At
<1>7. t = [k \in 1..m |-> At(l, (i + k) - 1)]
  BY <1>4, <1>5, <1>6, Zenon
<1>8. (i + 1) - 1 = i /\ (i + 2) - 1 = i + 1 /\ (i + 3) - 1 = i + 2
  OBVIOUS
<1>9. PICK a, b, d : a = At(l, i) /\ b = At(l, i + 1) /\ d = At(l, i + 2)
  BY Zenon
<1>10. CASE m = 1
  <2>1. t = <<a>>
    <3>1. \A k \in 1..1 : k = 1
      OBVIOUS
    <3>2. t = [k \in 1..1 |-> a]
      BY <1>7, <1>8, <1>9, <1>10, <3>1, Zenon
    <3> QED
      BY <3>2
  <2>2. p[1] = l[i]
    <3>1. 1 \in 1..1
      OBVIOUS
    <3> QED
      BY <1>5, <1>8, <1>10, <3>1, Zenon
  <2>3. CASE a = "name"
    <3>1. Denotes(p) = {Key(l[i].name)}
      BY <1>4, <2>1, <2>2, <2>3, DenotesIs, Zenon
    <3>2. s.lexemes = 1 /\ s.step = Key(l[i].name)
      <4>1. a # "." /\ a # "[]"
        BY <2>3
      <4> QED
        BY <1>1, <1>9, <2>3, <4>1, Zenon DEF StepIs
    <3> QED
      BY <1>1, <1>2, <1>3, <1>10, <3>1, <3>2, Zenon
  <2>4. CASE a = "[]"
    <3>1. Denotes(p) = IF l[i].atoi THEN {l[i].step} ELSE {}
      BY <1>4, <2>1, <2>2, <2>4, DenotesIs, ZenonT(30)
    <3>a. a # "." /\ a # "name"
      BY <2>4
    <3>2. CASE l[i].atoi
      <4>1. s.lexemes = 1 /\ s.step = l[i].step
        BY <1>1, <1>9, <2>4, <3>a, <3>2, Zenon DEF StepIs
      <4> QED
        BY <1>1, <1>2, <1>3, <1>10, <3>1, <3>2, <4>1, Zenon
    <3>3. CASE ~l[i].atoi
      <4>1. s.lexemes = 0
        BY <1>1, <1>9, <3>a, <3>3, Zenon DEF StepIs
      <4>2. 0 # 1
        OBVIOUS
      <4> QED
        BY <1>1, <1>2, <1>3, <1>10, <3>1, <3>3, <4>1, <4>2, Zenon
    <3> QED
      BY <3>2, <3>3, Zenon
  <2>5. CASE a # "name" /\ a # "[]"
    <3>1. t \notin {<<".", ".", "name">>, <<".", "name">>, <<"name">>, <<"[]">>}
      BY <2>1, <2>5, TupleEq, Zenon
    <3>2. Denotes(p) = {}
      BY <1>4, <3>1, DenotesIs, Zenon
    <3>3. s.lexemes # 1
      <4>1. 3 # 1 /\ 2 # 1 /\ 0 # 1
        OBVIOUS
      <4> QED
        BY <1>1, <1>9, <2>5, <4>1, Zenon DEF StepIs
    <3> QED
      BY <1>1, <1>2, <1>3, <1>10, <3>2, <3>3, Zenon
  <2> QED
    BY <2>3, <2>4, <2>5, Zenon
<1>11. CASE m = 2
  <2>1. t = <<a, b>>
    <3>1. \A k \in 1..2 : k = 1 \/ k = 2
      OBVIOUS
    <3>2. t = [k \in 1..2 |-> t[k]] /\ t[1] = a /\ t[2] = b
      BY <1>7, <1>8, <1>9, <1>11
    <3> QED
      BY <3>2
  <2>2. p[2] = l[i + 1]
    <3>1. 2 \in 1..2
      OBVIOUS
    <3> QED
      BY <1>5, <1>8, <1>11, <3>1, Zenon
  <2>3. CASE a = "." /\ b = "name"
    <3>1. Denotes(p) = {Key(l[i + 1].name)}
      BY <1>4, <2>1, <2>2, <2>3, DenotesIs, Zenon
    <3>2. s.lexemes = 2 /\ s.step = Key(l[i + 1].name)
      <4>1. a # "name" /\ a # "[]" /\ b # "."
        BY <2>3
      <4> QED
        BY <1>1, <1>9, <2>3, <4>1, Zenon DEF StepIs
    <3> QED
      BY <1>1, <1>2, <1>3, <1>11, <3>1, <3>2, Zenon
  <2>4. CASE ~(a = "." /\ b = "name")
    <3>1. t \notin {<<".", ".", "name">>, <<".", "name">>, <<"name">>, <<"[]">>}
      BY <2>1, <2>4, TupleEq, Zenon
    <3>2. Denotes(p) = {}
      BY <1>4, <3>1, DenotesIs, Zenon
    <3>3. s.lexemes # 2
      <4>1. 3 # 2 /\ 1 # 2 /\ 0 # 2
        OBVIOUS
      <4> QED
        BY <1>1, <1>9, <2>4, <4>1, Zenon DEF StepIs
    <3> QED
      BY <1>1, <1>2, <1>3, <1>11, <3>2, <3>3, Zenon
  <2> QED
    BY <2>3, <2>4, Zenon
<1>12. CASE m = 3
  <2>1. t = <<a, b, d>>
    <3>2. t = [k \in 1..3 |-> t[k]] /\ t[1] = a /\ t[2] = b /\ t[3] = d
      BY <1>7, <1>8, <1>9, <1>12
    <3> QED
      BY <3>2
  <2>2. p[3] = l[i + 2]
    <3>1. 3 \in 1..3
      OBVIOUS
    <3> QED
      BY <1>5, <1>8, <1>12, <3>1, Zenon
  <2>3. CASE a = "." /\ b = "." /\ d = "name"
    <3>1. Denotes(p) = {Recursive(l[i + 2].name)}
      BY <1>4, <2>1, <2>2, <2>3, DenotesIs, Zenon
    <3>2. s.lexemes = 3 /\ s.step = Recursive(l[i + 2].name)
      <4>1. a # "name" /\ a # "[]" /\ b # "name"
        BY <2>3
      <4> QED
        BY <1>1, <1>9, <2>3, <4>1, Zenon DEF StepIs
    <3> QED
      BY <1>1, <1>2, <1>3, <1>12, <3>1, <3>2, Zenon
  <2>4. CASE ~(a = "." /\ b = "." /\ d = "name")
    <3>1. t \notin {<<".", ".", "name">>, <<".", "name">>, <<"name">>, <<"[]">>}
      BY <2>1, <2>4, TupleEq, Zenon
    <3>2. Denotes(p) = {}
      BY <1>4, <3>1, DenotesIs, Zenon
    <3>3. s.lexemes # 3
      <4>1. 2 # 3 /\ 1 # 3 /\ 0 # 3
        OBVIOUS
      <4> QED
        BY <1>1, <1>9, <2>4, <4>1, Zenon DEF StepIs
    <3> QED
      BY <1>1, <1>2, <1>3, <1>12, <3>2, <3>3, Zenon
  <2> QED
    BY <2>3, <2>4, Zenon
<1>13. CASE m # 1 /\ m # 2 /\ m # 3
  <2>1. DOMAIN t = 1..m /\ m > 3
    BY <1>7, <1>13
  <2>2. \A x, y, z : t # <<x>> /\ t # <<x, y>> /\ t # <<x, y, z>>
    <3>1. 4 \in DOMAIN t
      BY <2>1
    <3>2. \A x, y, z : 4 \notin DOMAIN <<x>> /\ 4 \notin DOMAIN <<x, y>> /\ 4 \notin DOMAIN <<x, y, z>>
      OBVIOUS
    <3> QED
      BY <3>1, <3>2, Zenon
  <2>3. Denotes(p) = {}
    BY <1>4, <2>2, DenotesIs, ZenonT(30)
  <2>4. s.lexemes # m
    <3>1. m # 0
      OBVIOUS
    <3> QED
      BY <1>1, <1>13, <3>1, Zenon DEF StepIs
  <2> QED
    BY <1>1, <1>2, <1>3, <2>3, <2>4, Zenon
<1> QED
  BY <1>10, <1>11, <1>12, <1>13, Zenon

\* The steps from a position on, given those from later ones: as Compile
\* finds them, and as the grammar does.
Compiles(l, f, i) ==
  LET s == StepAt(l, i) IN
  IF s.lexemes = 0 THEN {} ELSE {<<s.step>> \o r : r \in f[i + s.lexemes]}
Derives(l, f, i) == UNION {Followed(Denotes(SubSeq(l, i, j)), f[j + 1]) : j \in i..Len(l)}

\* With no step nothing follows.
LEMMA FollowedIs == \A Q : Followed({}, Q) = {} /\ \A x : Followed({x}, Q) = {<<x>> \o r : r \in Q}
  BY DEF Followed

\* Compile takes lexemes that are there.
LEMMA StepFits ==
  ASSUME NEW X, NEW l \in Seq(X), NEW i \in 1..Len(l)
  PROVE  StepAt(l, i).lexemes = 0 \/ (StepAt(l, i).lexemes \in Nat /\ i + StepAt(l, i).lexemes \in i + 1..Len(l) + 1)
<1>1. PICK s : s = StepAt(l, i) /\ StepIs(l, i, s)
  BY StepAtIs, Zenon
<1>2. \A k : ~(k <= Len(l)) => At(l, k) # "name"
  <2>1. "end" # "name"
    OBVIOUS
  <2> QED
    BY <2>1, Zenon DEF At
<1>3. CASE s.lexemes = 3
  <2>1. At(l, i + 2) = "name"
    <3>1. 3 # 2 /\ 3 # 1 /\ 3 # 0
      OBVIOUS
    <3> QED
      BY <1>1, <1>3, <3>1, Zenon DEF StepIs
  <2>2. i + 2 <= Len(l)
    BY <1>2, <2>1, Zenon
  <2> QED
    BY <1>1, <1>3, <2>2
<1>4. CASE s.lexemes = 2
  <2>1. At(l, i + 1) = "name"
    <3>1. 2 # 3 /\ 2 # 1 /\ 2 # 0
      OBVIOUS
    <3> QED
      BY <1>1, <1>4, <3>1, Zenon DEF StepIs
  <2>2. i + 1 <= Len(l)
    BY <1>2, <2>1, Zenon
  <2> QED
    BY <1>1, <1>4, <2>2
<1>5. CASE s.lexemes = 1
  BY <1>1, <1>5
<1>6. s.lexemes = 3 \/ s.lexemes = 2 \/ s.lexemes = 1 \/ s.lexemes = 0
  BY <1>1, Zenon DEF StepIs
<1> QED
  BY <1>1, <1>3, <1>4, <1>5, <1>6, Zenon

\* Both find the same.
LEMMA CompilesDerives ==
  ASSUME NEW X, NEW l \in Seq(X), NEW f, NEW i \in 1..Len(l)
  PROVE  Compiles(l, f, i) = Derives(l, f, i)
<1>1. PICK s, k : s = StepAt(l, i) /\ k = s.lexemes
  BY Zenon
<1>2. \A j \in i..Len(l) : Denotes(SubSeq(l, i, j)) = IF k = (j - i) + 1 THEN {s.step} ELSE {}
  BY <1>1, StepDenotes, Zenon
<1>3. CASE k = 0
  <2>1. \A j \in i..Len(l) : k # (j - i) + 1
    BY <1>3
  <2>2. \A j \in i..Len(l) : Denotes(SubSeq(l, i, j)) = {}
    BY <1>2, <2>1, Zenon
  <2>3. Derives(l, f, i) = {}
    BY <2>2, FollowedIs, Zenon DEF Derives
  <2> QED
    BY <1>1, <1>3, <2>3, Zenon DEF Compiles
<1>4. CASE k # 0
  <2>1. k \in Nat /\ i + k \in i + 1..Len(l) + 1
    BY <1>1, <1>4, StepFits, Zenon
  <2>2. PICK e \in i..Len(l) : e = (i + k) - 1 /\ k = (e - i) + 1 /\ e + 1 = i + k
    BY <2>1
  <2>3. \A j \in i..Len(l) : k = (j - i) + 1 => j = e
    BY <2>2
  <2>4. Denotes(SubSeq(l, i, e)) = {s.step}
    BY <1>2, <2>2, Zenon
  <2>5. \A j \in i..Len(l) : j # e => Denotes(SubSeq(l, i, j)) = {}
    BY <1>2, <2>3, Zenon
  <2>6. Compiles(l, f, i) = {<<s.step>> \o r : r \in f[e + 1]}
    BY <1>1, <1>4, <2>2, Zenon DEF Compiles
  <2>7. Followed(Denotes(SubSeq(l, i, e)), f[e + 1]) = Compiles(l, f, i)
    BY <2>4, <2>6, FollowedIs, Zenon
  <2>8. \A j \in i..Len(l) : j # e => Followed(Denotes(SubSeq(l, i, j)), f[j + 1]) = {}
    BY <2>5, FollowedIs, Zenon
  <2>9. ASSUME NEW x \in Derives(l, f, i)
        PROVE  x \in Compiles(l, f, i)
    <3>1. PICK j \in i..Len(l) : x \in Followed(Denotes(SubSeq(l, i, j)), f[j + 1])
      BY <2>9, Zenon DEF Derives
    <3> QED
      BY <2>7, <2>8, <3>1, Zenon
  <2>10. ASSUME NEW x \in Compiles(l, f, i)
         PROVE  x \in Derives(l, f, i)
    BY <2>7, <2>10, Zenon DEF Derives
  <2> QED
    BY <2>9, <2>10, Zenon
<1> QED
  BY <1>3, <1>4, Zenon

\* f holds the steps from each position on.
Solves(f, l, N) == f = [i \in 1..N + 1 |-> IF i > N THEN {<<>>} ELSE Compiles(l, f, i)]

\* There are such steps.
LEMMA CompileExists ==
  ASSUME NEW X, NEW l \in Seq(X), NEW N \in Nat, N = Len(l)
  PROVE  \E f : Solves(f, l, N)
<1>1. PICK Y : Y = {StepAt(l, i).step : i \in 1..N}
  OBVIOUS
<1>2. PICK V : V = SUBSET Seq(Y)
  OBVIOUS
<1>3. PICK R : R = [i \in 1..N |-> [f \in [1..N + 1 -> V] |-> Compiles(l, f, i)]]
  OBVIOUS
<1>4. ASSUME NEW i \in 1..N, NEW f \in [1..N + 1 -> V]
      PROVE  Compiles(l, f, i) \in V
  <2>1. PICK s, k : s = StepAt(l, i) /\ k = s.lexemes
    BY Zenon
  <2>2. {} \in V
    BY <1>2
  <2>3. CASE k = 0
    BY <2>1, <2>2, <2>3, Zenon DEF Compiles
  <2>4. CASE k # 0
    <3>1. i + k \in i + 1..N + 1
      BY <2>1, <2>4, StepFits, Zenon
    <3>2. i + k \in 1..N + 1
      BY <3>1
    <3>3. PICK Q \in V : Q = f[i + k]
      BY <3>2, Zenon
    <3>4. PICK y \in Y : y = s.step
      BY <1>1, <2>1, Zenon
    <3>5. \A r \in Q : r \in Seq(Y)
      BY <1>2, Zenon
    <3>6. \A r \in Seq(Y) : <<y>> \o r \in Seq(Y)
      OBVIOUS
    <3>7. {<<y>> \o r : r \in Q} \in V
      BY <1>2, <3>5, <3>6, Zenon
    <3> QED
      BY <2>1, <2>4, <3>3, <3>4, <3>7, Zenon DEF Compiles
  <2> QED
    BY <2>3, <2>4, Zenon
<1>5. ASSUME NEW i \in 1..N, NEW f, NEW g, \A j \in i + 1..N + 1 : f[j] = g[j]
      PROVE  Compiles(l, f, i) = Compiles(l, g, i)
  <2>1. PICK s, k : s = StepAt(l, i) /\ k = s.lexemes
    BY Zenon
  <2>2. CASE k = 0
    BY <2>1, <2>2, Zenon DEF Compiles
  <2>3. CASE k # 0
    <3>1. f[i + k] = g[i + k]
      BY <1>5, <2>1, <2>3, StepFits, Zenon
    <3> QED
      BY <2>1, <2>3, <3>1, Zenon DEF Compiles
  <2> QED
    BY <2>2, <2>3, Zenon
<1>6. LooksRight(R, N, V)
  <2> SUFFICES ASSUME NEW i \in 1..N
               PROVE  /\ R[i] \in [[1..N + 1 -> V] -> V]
                      /\ \A f, g \in [1..N + 1 -> V] :
                           (\A j \in i + 1..N + 1 : f[j] = g[j]) => R[i][f] = R[i][g]
    BY Zenon DEF LooksRight
  <2>1. PICK F : F = [1..N + 1 -> V]
    OBVIOUS
  <2>2. R[i] = [f \in F |-> Compiles(l, f, i)]
    BY <1>3, <2>1, Zenon
  <2>3. \A f \in F : Compiles(l, f, i) \in V
    BY <1>4, <2>1, Zenon
  <2>4. R[i] \in [F -> V]
    BY <2>2, <2>3, Zenon
  <2>5. \A f, g \in F : (\A j \in i + 1..N + 1 : f[j] = g[j]) => R[i][f] = R[i][g]
    <3>1. \A f \in F : R[i][f] = Compiles(l, f, i)
      BY <2>2, Zenon
    <3> TAKE f, g \in F
    <3> HAVE \A j \in i + 1..N + 1 : f[j] = g[j]
    <3>2. Compiles(l, f, i) = Compiles(l, g, i)
      BY <1>5, Zenon
    <3> QED
      BY <3>1, <3>2, Zenon
  <2> QED
    BY <2>1, <2>4, <2>5, SMTT(30)
<1>7. PICK base \in V : base = {<<>>}
  <2>1. {<<>>} \in SUBSET Seq(Y)
    OBVIOUS
  <2> QED
    BY <1>2, <2>1, Zenon
<1>8. PICK f \in [1..N + 1 -> V] : Descends(f, R, base, N, N)
  BY <1>6, DescendExists, Zenon
<1>9. \A i \in 1..N : f[i] = Compiles(l, f, i)
  <2>1. (N + 1) - N = 1
    OBVIOUS
  <2>2. \A i \in 1..N : f[i] = R[i][f]
    BY <1>8, <2>1, Zenon DEF Descends
  <2>3. \A i \in 1..N : R[i][f] = Compiles(l, f, i)
    BY <1>3, Zenon
  <2> QED
    BY <2>2, <2>3, Zenon
<1>10. \A i \in 1..N + 1 : f[i] = IF i > N THEN {<<>>} ELSE Compiles(l, f, i)
  <2>1. \A i \in 1..N + 1 : (i > N /\ i = N + 1) \/ (~(i > N) /\ i \in 1..N)
    OBVIOUS
  <2>2. f[N + 1] = {<<>>}
    BY <1>7, <1>8, Zenon DEF Descends
  <2> QED
    BY <1>9, <2>1, <2>2, Zenon
<1>11. f = [i \in 1..N + 1 |-> f[i]]
  OBVIOUS
<1>12. [i \in 1..N + 1 |-> f[i]] = [i \in 1..N + 1 |-> IF i > N THEN {<<>>} ELSE Compiles(l, f, i)]
  BY <1>10, Zenon
<1> QED
  BY <1>11, <1>12, Zenon DEF Solves

\* The steps Compile finds are those the grammar derives.
LEMMA CompileDerived ==
  ASSUME NEW X, NEW l \in Seq(X), NEW N \in Nat, N = Len(l)
  PROVE  Solves(CompileFrom(l), l, N) /\ \A i \in 1..N + 1 : CompileFrom(l)[i] = Derived(l)[i]
<1>1. CompileFrom(l) = CHOOSE f : Solves(f, l, N)
  BY Zenon DEF CompileFrom, Solves, Compiles
<1>2. PICK cf, df : cf = CompileFrom(l) /\ df = Derived(l)
  BY Zenon
<1>3. PICK h : Solves(h, l, N)
  BY CompileExists, Zenon
<1>4. Solves(cf, l, N)
  BY <1>1, <1>2, <1>3, Zenon
<1>5. df = CHOOSE f : f = [i \in 1..N + 1 |-> IF i > N THEN {<<>>} ELSE Derives(l, f, i)]
  BY <1>2, Zenon DEF Derived, Derives
<1>6. ASSUME NEW f
      PROVE  [i \in 1..N + 1 |-> IF i > N THEN {<<>>} ELSE Derives(l, f, i)]
             = [i \in 1..N + 1 |-> IF i > N THEN {<<>>} ELSE Compiles(l, f, i)]
  <2>1. \A i \in 1..N + 1 : i > N \/ i \in 1..N
    OBVIOUS
  <2>2. \A i \in 1..N : Derives(l, f, i) = Compiles(l, f, i)
    BY CompilesDerives, Zenon
  <2>3. \A i \in 1..N + 1 : (IF i > N THEN {<<>>} ELSE Derives(l, f, i))
                            = (IF i > N THEN {<<>>} ELSE Compiles(l, f, i))
    BY <2>1, <2>2, Zenon
  <2> QED
    BY <2>3, Zenon
<1>7. h = [i \in 1..N + 1 |-> IF i > N THEN {<<>>} ELSE Derives(l, h, i)]
  BY <1>3, <1>6, Zenon DEF Solves
<1>8. df = [i \in 1..N + 1 |-> IF i > N THEN {<<>>} ELSE Derives(l, df, i)]
  BY <1>5, <1>7, Zenon
<1>9. Solves(df, l, N)
  BY <1>6, <1>8, Zenon DEF Solves
<1>10. ASSUME NEW f, Solves(f, l, N)
       PROVE  f[N + 1] = {<<>>} /\ \A i \in 1..N : f[i] = Compiles(l, f, i)
  <2>1. N + 1 \in 1..N + 1 /\ N + 1 > N /\ \A i \in 1..N : i \in 1..N + 1 /\ ~(i > N)
    OBVIOUS
  <2>2. \A i \in 1..N + 1 : f[i] = IF i > N THEN {<<>>} ELSE Compiles(l, f, i)
    BY <1>10, Zenon DEF Solves
  <2> QED
    BY <2>1, <2>2, Zenon
<1>11. ASSUME NEW i \in 1..N, \A j \in i + 1..N + 1 : cf[j] = df[j]
       PROVE  cf[i] = df[i]
  <2>1. PICK s, k : s = StepAt(l, i) /\ k = s.lexemes
    BY Zenon
  <2>2. cf[i] = Compiles(l, cf, i) /\ df[i] = Compiles(l, df, i)
    BY <1>4, <1>9, <1>10, Zenon
  <2>3. CASE k = 0
    BY <2>1, <2>2, <2>3, Zenon DEF Compiles
  <2>4. CASE k # 0
    <3>1. cf[i + k] = df[i + k]
      BY <1>11, <2>1, <2>4, StepFits, Zenon
    <3> QED
      BY <2>1, <2>2, <2>4, <3>1, Zenon DEF Compiles
  <2> QED
    BY <2>3, <2>4, Zenon
<1>12. cf[N + 1] = df[N + 1]
  BY <1>4, <1>9, <1>10, Zenon
<1>13. \A i \in 1..N + 1 : cf[i] = df[i]
  <2>1. \A i \in 1..N : (\A j \in i + 1..N + 1 : cf[j] = df[j]) => cf[i] = df[i]
    BY <1>11, Zenon
  <2>2. Alike(cf, df, N)
    BY <1>12, <2>1, Zenon DEF Alike
  <2>3. \A f, g : Alike(f, g, N) => \A i \in 1..N + 1 : f[i] = g[i]
    BY DescendAgree, Zenon
  <2> QED
    BY <2>2, <2>3, Zenon
<1> QED
  BY <1>2, <1>4, <1>13, Zenon

\* Compile of an expression, with or without its "$".
LEMMA CompileIs ==
  ASSUME NEW X, NEW l \in Seq(X)
  PROVE  Compile(l) = IF l = <<>> THEN {}
                      ELSE Derived(l)[1] \cup (IF l[1].t = "$" THEN Derived(l)[2] ELSE {})
<1>1. CASE l = <<>>
  BY <1>1, Zenon DEF Compile
<1>2. CASE l # <<>>
  <2>1. PICK N \in Nat : N = Len(l) /\ 1 \in 1..N /\ 1 \in 1..N + 1 /\ 2 \in 1..N + 1 /\ ~(1 > N)
    BY <1>2
  <2>2. PICK cf, df : cf = CompileFrom(l) /\ df = Derived(l)
    BY Zenon
  <2>3. Solves(cf, l, N) /\ cf[1] = df[1] /\ cf[2] = df[2]
    BY <2>1, <2>2, CompileDerived, Zenon
  <2>4. Compile(l) = cf[IF l[1].t = "$" THEN 2 ELSE 1]
    BY <1>2, <2>2, Zenon DEF Compile
  <2>5. CASE l[1].t = "$"
    <3>1. cf[1] = Compiles(l, cf, 1)
      BY <2>1, <2>3, Zenon DEF Solves
    <3>2. At(l, 1) = "$"
      <4>1. 1 <= Len(l)
        BY <2>1
      <4> QED
        BY <2>5, <4>1, Zenon DEF At
    <3>3. "$" # "." /\ "$" # "[]" /\ "$" # "name"
      OBVIOUS
    <3>4. StepIs(l, 1, StepAt(l, 1))
      BY StepAtIs, Zenon
    <3>5. StepAt(l, 1).lexemes = 0
      BY <3>2, <3>3, <3>4, Zenon DEF StepIs
    <3>6. cf[1] = {}
      BY <3>1, <3>5, Zenon DEF Compiles
    <3>7. Compile(l) = df[2] /\ df[1] = {}
      BY <2>3, <2>4, <2>5, <3>6, Zenon
    <3> QED
      BY <1>2, <2>2, <2>5, <3>7, Zenon
  <2>6. CASE l[1].t # "$"
    <3>1. Compile(l) = df[1]
      BY <2>3, <2>4, <2>6, Zenon
    <3> QED
      BY <1>2, <2>2, <2>6, <3>1, Zenon
  <2> QED
    BY <2>5, <2>6, Zenon
<1> QED
  BY <1>1, <1>2, Zenon

-----------------------------------------------------------------------------
(* Glob patterns.                                                          *)

\* The pieces of the regular expression, as they match a string: the function
\* PrefixEnds is defined with,
IsReached(f, re, s) ==
  f = [k \in 0..Len(re) |-> IF k = 0 THEN {0} ELSE EndsFrom(re[k], s, f[k - 1])]

\* and its values.
Reaches(f, re, s, n) ==
  /\ PrefixEnds(re, s) = f[n] /\ f[0] = {0}
  /\ \A k \in Nat : k + 1 <= n => f[k + 1] = EndsFrom(re[k + 1], s, f[k])

\* A piece ends within the string.
LEMMA EndsType ==
  ASSUME NEW p, NEW s, NEW q \in Nat, Len(s) \in Nat
  PROVE  Ends(p, s, q) \subseteq Nat
<1>1. q..Len(s) \subseteq Nat /\ 1..Len(s) \subseteq Nat
  OBVIOUS
<1>2. CASE p.many
  BY <1>1, <1>2, Zenon DEF Ends
<1>3. CASE ~p.many
  BY <1>1, <1>3, Zenon DEF Ends
<1> QED
  BY <1>2, <1>3

\* There are such values.
LEMMA ReachedIs ==
  ASSUME NEW E, NEW re \in Seq(E), NEW s, Len(s) \in Nat
  PROVE  \E f : Reaches(f, re, s, Len(re))
<1>1. PICK n \in Nat : n = Len(re)
  OBVIOUS
<1>2. PICK S : S = SUBSET Nat
  OBVIOUS
<1>3. {0} \in S
  BY <1>2
<1>5. PICK F : F = [i \in 1..n |-> [B \in S |-> EndsFrom(re[i], s, B)]]
  OBVIOUS
<1>6. \A i \in 1..n : F[i] \in [S -> S]
  <2> SUFFICES ASSUME NEW i \in 1..n PROVE F[i] \in [S -> S]
    OBVIOUS
  <2>1. \A B \in S : EndsFrom(re[i], s, B) \in S
    <3> SUFFICES ASSUME NEW B \in S PROVE EndsFrom(re[i], s, B) \in S
      OBVIOUS
    <3>1. \A q \in Nat : Ends(re[i], s, q) \subseteq Nat
      BY EndsType, Zenon
    <3>2. B \subseteq Nat
      BY <1>2
    <3>3. EndsFrom(re[i], s, B) \subseteq Nat
      BY <3>1, <3>2, Zenon DEF EndsFrom
    <3> QED
      BY <1>2, <3>3
  <2> QED
    BY <1>5, <2>1, Zenon
<1>7. PICK f \in [0..n -> S] : Unrolls(f, F, {0}, n)
  BY <1>3, <1>6, LoopExists, Zenon
<1>8. ASSUME NEW i \in 0..n
      PROVE  f[i] = IF i = 0 THEN {0} ELSE EndsFrom(re[i], s, f[i - 1])
  <2>1. CASE i = 0
    BY <1>7, <2>1, Zenon DEF Unrolls
  <2>2. CASE i # 0
    <3>1. PICK j \in Nat : i = j + 1 /\ j = i - 1 /\ j + 1 <= n /\ j \in 0..n /\ j + 1 \in 1..n
      BY <2>2, i - 1 \in Nat
    <3>2. f[j + 1] = F[j + 1][f[j]]
      BY <1>7, <3>1, Zenon DEF Unrolls
    <3>3. f[j] \in S
      BY <3>1
    <3>4. f[j + 1] = EndsFrom(re[j + 1], s, f[j])
      BY <1>5, <3>1, <3>2, <3>3, Zenon
    <3> QED
      BY <2>2, <3>1, <3>4, Zenon
  <2> QED
    BY <2>1, <2>2
<1>9. \E h : IsReached(h, re, s)
  <2>1. f = [i \in 0..n |-> f[i]]
    OBVIOUS
  <2> QED
    <3>1. f = [i \in 0..n |-> IF i = 0 THEN {0} ELSE EndsFrom(re[i], s, f[i - 1])]
      BY <1>8, <2>1, Zenon
    <3> QED
      BY <1>1, <3>1, Zenon DEF IsReached
<1> DEFINE h == CHOOSE h : IsReached(h, re, s)
<1>10. IsReached(h, re, s)
  BY <1>9, Zenon
<1>11. PrefixEnds(re, s) = h[n]
  BY <1>1, Zenon DEF PrefixEnds, IsReached
<1> HIDE DEF h
<1>12. \A i \in 0..n : h[i] = IF i = 0 THEN {0} ELSE EndsFrom(re[i], s, h[i - 1])
  BY <1>1, <1>10, Zenon DEF IsReached
<1>13. 0 \in 0..n /\ \A i \in Nat : i + 1 <= n => i + 1 \in 0..n /\ i + 1 # 0 /\ (i + 1) - 1 = i
  OBVIOUS
<1>14. Reaches(h, re, s, n)
  BY <1>11, <1>12, <1>13, Zenon DEF Reaches
<1> QED
  BY <1>1, <1>14, Zenon

\* No piece, no progress.
LEMMA ReachedEmpty ==
  ASSUME NEW s, Len(s) \in Nat
  PROVE  PrefixEnds(<<>>, s) = {0}
<1>1. PICK re : re = <<>>
  OBVIOUS
<1>2. re \in Seq({}) /\ Len(re) = 0
  BY <1>1
<1>3. PICK f : Reaches(f, re, s, Len(re))
  BY <1>2, ReachedIs, Zenon
<1> QED
  BY <1>1, <1>2, <1>3, Zenon DEF Reaches

\* The last piece goes on from where the others end.
LEMMA ReachedAppend ==
  ASSUME NEW E, NEW re \in Seq(E), NEW p \in E, NEW s, Len(s) \in Nat
  PROVE  PrefixEnds(Append(re, p), s) = EndsFrom(p, s, PrefixEnds(re, s))
<1>1. PICK n \in Nat : n = Len(re)
  OBVIOUS
<1>2. PICK tt : tt = Append(re, p)
  OBVIOUS
<1>3. tt \in Seq(E)
  BY <1>2
<1>4. Len(tt) = n + 1 /\ n + 1 \in Nat /\ tt[n + 1] = p /\ \A i \in 1..n : tt[i] = re[i]
  BY <1>1, <1>2
<1>5. PICK f : Reaches(f, tt, s, Len(tt))
  BY <1>3, ReachedIs, Zenon
<1>6. PICK g : Reaches(g, re, s, Len(re))
  BY ReachedIs, Zenon
<1>7. f[0] = g[0]
  BY <1>5, <1>6, Zenon DEF Reaches
<1>8. ASSUME NEW i \in Nat, i + 1 <= n, f[i] = g[i]
      PROVE  f[i + 1] = g[i + 1]
  <2>1. i + 1 <= n + 1 /\ i + 1 \in 1..n
    BY <1>8
  <2>2. f[i + 1] = EndsFrom(tt[i + 1], s, f[i])
    BY <1>4, <1>5, <2>1, Zenon DEF Reaches
  <2>3. g[i + 1] = EndsFrom(re[i + 1], s, g[i])
    BY <1>1, <1>6, <1>8, Zenon DEF Reaches
  <2> QED
    BY <1>4, <1>8, <2>1, <2>2, <2>3, Zenon
<1>9. f[n] = g[n]
  <2>1. InStep(f, g, n)
    BY <1>7, <1>8, Zenon DEF InStep
  <2> QED
    BY <1>1, <2>1, LoopsAgree, Zenon
<1>10. n + 1 <= n + 1
  OBVIOUS
<1>11. f[n + 1] = EndsFrom(p, s, f[n])
  BY <1>4, <1>5, <1>10, Zenon DEF Reaches
<1> QED
  BY <1>1, <1>2, <1>4, <1>5, <1>6, <1>9, <1>11, Zenon DEF Reaches

\* Nothing gets past a malformed class.
LEMMA MalformedFails ==
  ASSUME NEW E, \A p \in E : p.t = "class" => ~p.many,
         NEW re \in Seq(E), NEW s, Len(s) \in Nat, Malformed(re)
  PROVE  PrefixEnds(re, s) = {}
<1> DEFINE T == {t \in Seq(E) : Malformed(t) => PrefixEnds(t, s) = {}}
<1>1. <<>> \in T
  <2>1. <<>> \in Seq(E) /\ DOMAIN <<>> = {}
    OBVIOUS
  <2> QED
    BY <2>1, Zenon DEF Malformed
<1>2. ASSUME NEW t \in Seq(E), NEW p \in E, t \in T
      PROVE  Append(t, p) \in T
  <2>1. PICK n \in Nat : n = Len(t) /\ DOMAIN t = 1..n
    BY ElementsIn
  <2>2. PICK tt \in Seq(E) : /\ tt = Append(t, p) /\ tt[n + 1] = p /\ DOMAIN tt = 1..n + 1
                            /\ \A i \in 1..n : tt[i] = t[i]
    <3>1. Append(t, p) \in Seq(E) /\ Append(t, p)[n + 1] = p /\ DOMAIN Append(t, p) = 1..n + 1
          /\ \A i \in 1..n : Append(t, p)[i] = t[i]
      BY <2>1
    <3> QED
      BY <3>1, Zenon
  <2>3. PrefixEnds(tt, s) = EndsFrom(p, s, PrefixEnds(t, s))
    BY <2>2, ReachedAppend, Zenon
  <2>4. ASSUME Malformed(tt)
        PROVE  PrefixEnds(tt, s) = {}
    <3>1. PICK i \in 1..n + 1 : tt[i].t = "class" /\ Class[tt[i].c] = {}
      BY <2>2, <2>4, Zenon DEF Malformed
    <3>2. CASE i \in 1..n
      <4>1. Malformed(t)
        BY <2>1, <2>2, <3>1, <3>2, Zenon DEF Malformed
      <4>2. PrefixEnds(t, s) = {}
        BY <1>2, <4>1, Zenon
      <4> QED
        BY <2>3, <4>2, Zenon DEF EndsFrom
    <3>3. CASE i = n + 1
      <4>1. p.t = "class" /\ Class[p.c] = {}
        BY <2>2, <3>1, <3>3, Zenon
      <4>2. \A x : ~Test(p, x)
        BY <4>1 DEF Test
      <4>3. \A q : Ends(p, s, q) = {}
        BY <4>1, <4>2, Zenon DEF Ends
      <4> QED
        BY <2>3, <4>3, Zenon DEF EndsFrom
    <3>4. 1..n + 1 = (1..n) \cup {n + 1}
      OBVIOUS
    <3> QED
      BY <3>2, <3>3, <3>4, Zenon
  <2> QED
    BY <2>2, <2>4, Zenon
<1> HIDE DEF T
<1>3. Seq(E) \subseteq T
  BY <1>1, <1>2, SeqInduct, Zenon
<1> QED
  BY <1>3, Zenon DEF T

\* The places up to i that are not a star, and the start.
Plain(g, i) == {0} \cup {j \in 1..i : g[j] # "*"}

\* The greatest is the one that is not below another.
LEMMA MaxIs ==
  ASSUME NEW A \in SUBSET Nat, NEW m \in A, \A i \in A : i <= m
  PROVE  Max(A) = m
<1>1. \A i \in A : m >= i
  OBVIOUS
<1>2. Max(A) \in A /\ \A i \in A : Max(A) >= i
  BY <1>1, Zenon DEF Max
<1>3. Max(A) \in Nat /\ m \in Nat /\ Max(A) >= m /\ m >= Max(A)
  BY <1>1, <1>2
<1> QED
  BY <1>3

\* One place more.
LEMMA PlainGrows ==
  ASSUME NEW g, NEW i \in Nat
  PROVE  /\ Plain(g, 0) = {0}
         /\ Plain(g, i + 1) = IF g[i + 1] = "*" THEN Plain(g, i) ELSE Plain(g, i) \cup {i + 1}
<1>1. 1..0 = {} /\ 1..i + 1 = (1..i) \cup {i + 1}
  OBVIOUS
<1> QED
  BY <1>1 DEF Plain

\* The last of them.
LEMMA LastPlain ==
  ASSUME NEW g, NEW i \in Nat
  PROVE  Max(Plain(g, i)) \in 0..i
<1> DEFINE T == {n \in Nat : Max(Plain(g, n)) \in 0..n}
<1>1. 0 \in T
  <2>1. {0} \in SUBSET Nat /\ 0 \in {0} /\ \A j \in {0} : j <= 0
    OBVIOUS
  <2>2. Max({0}) = 0
    BY <2>1, MaxIs, Zenon
  <2>3. 0 \in Nat /\ 0 \in 0..0
    OBVIOUS
  <2> QED
    BY <2>2, <2>3, PlainGrows, Zenon
<1>2. ASSUME NEW n \in Nat, n \in T
      PROVE  n + 1 \in T
  <2>0. n + 1 \in Nat /\ n + 1 \in 0..n + 1 /\ 0..n \subseteq 0..n + 1
    OBVIOUS
  <2>1. CASE g[n + 1] = "*"
    BY <1>2, <2>0, <2>1, PlainGrows, Zenon
  <2>2. CASE g[n + 1] # "*"
    <3>1. PICK A : A = Plain(g, n) \cup {n + 1}
      OBVIOUS
    <3>2. A \in SUBSET Nat /\ n + 1 \in A /\ \A j \in A : j <= n + 1
      BY <3>1 DEF Plain
    <3>3. Max(A) = n + 1
      BY <3>2, MaxIs, Zenon
    <3> QED
      BY <2>0, <2>2, <3>1, <3>3, PlainGrows, Zenon
  <2> QED
    BY <2>1, <2>2
<1> HIDE DEF T
<1>3. i \in T
  BY <1>1, <1>2, NatInduct, Zenon
<1> QED
  BY <1>3, Zenon DEF T

\* How many stars there are in a row, one place after the other.
LEMMA InRunIs ==
  ASSUME NEW g, NEW i \in Nat
  PROVE  /\ InRun(g, 0) = 0 /\ InRun(g, i) \in Nat
         /\ InRun(g, i + 1) = IF g[i + 1] = "*" THEN InRun(g, i) + 1 ELSE 0
<1>1. \A n : InRun(g, n) = n - Max(Plain(g, n))
  BY Zenon DEF InRun, Plain
<1>2. Max(Plain(g, i)) \in 0..i /\ Max(Plain(g, 0)) \in 0..0
  <2>1. 0 \in Nat
    OBVIOUS
  <2> QED
    BY <2>1, LastPlain, Zenon
<1>3. InRun(g, 0) = 0 /\ InRun(g, i) \in Nat
  BY <1>1, <1>2
<1>4. CASE g[i + 1] = "*"
  <2>1. Plain(g, i + 1) = Plain(g, i)
    BY <1>4, PlainGrows, Zenon
  <2>2. InRun(g, i + 1) = (i + 1) - Max(Plain(g, i))
    BY <1>1, <2>1
  <2> QED
    BY <1>1, <1>2, <1>3, <1>4, <2>2
<1>5. CASE g[i + 1] # "*"
  <2>1. PICK A : A = Plain(g, i) \cup {i + 1}
    OBVIOUS
  <2>2. A \in SUBSET Nat /\ i + 1 \in A /\ \A j \in A : j <= i + 1
    BY <2>1 DEF Plain
  <2>3. Max(A) = i + 1
    BY <2>2, MaxIs, Zenon
  <2>4. Plain(g, i + 1) = A
    BY <1>5, <2>1, PlainGrows, Zenon
  <2>5. InRun(g, i + 1) = (i + 1) - Max(A)
    BY <1>1, <2>4, Zenon
  <2> QED
    BY <1>3, <1>5, <2>3, <2>5
<1> QED
  BY <1>4, <1>5

\* The second star of a pair.
Second(g, i) == g[i] = "*" /\ InRun(g, i) % 2 = 0

\* The function Visits is defined with.
Comes(f, g, i) == ~(i > 1 /\ f[i - 1] /\ g[i - 1] = "*" /\ g[i] = "*")
IsVisits(f, g) == f = [i \in 1..Len(g) |-> Comes(f, g, i)]

\* A place is the second of a pair when the place before it is the first.
LEMMA SecondAfter ==
  ASSUME NEW g, NEW i \in Nat \ {0}
  PROVE  Second(g, i) <=> (i > 1 /\ ~Second(g, i - 1) /\ g[i - 1] = "*" /\ g[i] = "*")
<1>1. PICK n \in Nat : i = n + 1 /\ i - 1 = n /\ (i > 1 <=> n # 0)
  BY i - 1 \in Nat
<1>2. PICK k \in Nat : k = InRun(g, n)
  BY InRunIs, Zenon
<1>3. InRun(g, i) = IF g[i] = "*" THEN k + 1 ELSE 0
  BY <1>1, <1>2, InRunIs, Zenon
<1>4. n = 0 => k = 0
  BY <1>2, InRunIs, Zenon
<1>5. n # 0 /\ g[n] # "*" => k = 0
  <2>1. SUFFICES ASSUME n # 0, g[n] # "*" PROVE k = 0
    OBVIOUS
  <2>2. PICK m \in Nat : n = m + 1
    BY <2>1, n - 1 \in Nat
  <2> QED
    BY <1>2, <2>1, <2>2, InRunIs, Zenon
<1>6. (k + 1) % 2 = 0 <=> k % 2 # 0
  OBVIOUS
<1>7. 0 % 2 = 0
  OBVIOUS
<1>8. Second(g, i) <=> g[i] = "*" /\ k % 2 # 0
  BY <1>3, <1>6, Zenon DEF Second
<1>9. Second(g, n) <=> g[n] = "*" /\ k % 2 = 0
  BY <1>2, Zenon DEF Second
<1> QED
  BY <1>1, <1>4, <1>5, <1>7, <1>8, <1>9, Zenon

\* The loop of globRE2 comes to every place but the second star of a pair.
LEMMA VisitsIs ==
  ASSUME NEW X, NEW g \in Seq(X), NEW i \in 1..Len(g)
  PROVE  Visits(g)[i] <=> ~Second(g, i)
<1>1. PICK N \in Nat : N = Len(g)
  OBVIOUS
<1>2. PICK e : e = [j \in 1..N |-> ~Second(g, j)]
  OBVIOUS
<1>3. IsVisits(e, g)
  <2>1. ASSUME NEW j \in 1..N
        PROVE  e[j] = Comes(e, g, j)
    <3>1. j \in Nat \ {0} /\ (j > 1 => j - 1 \in 1..N)
      OBVIOUS
    <3>2. j > 1 => (e[j - 1] <=> ~Second(g, j - 1))
      BY <1>2, <3>1, Zenon
    <3>3. Second(g, j) <=> (j > 1 /\ ~Second(g, j - 1) /\ g[j - 1] = "*" /\ g[j] = "*")
      BY <3>1, SecondAfter, Zenon
    <3>4. Comes(e, g, j) <=> ~Second(g, j)
      BY <3>2, <3>3, Zenon DEF Comes
    <3>5. e[j] = ~Second(g, j)
      BY <1>2, Zenon
    <3>6. Comes(e, g, j) \in BOOLEAN
      BY Zenon DEF Comes
    <3> QED
      BY <3>4, <3>5, <3>6
  <2>2. e = [j \in 1..N |-> e[j]]
    BY <1>2
  <2>3. e = [j \in 1..N |-> Comes(e, g, j)]
    BY <2>1, <2>2, Zenon
  <2> QED
    BY <1>1, <2>3, Zenon DEF IsVisits
<1> DEFINE f == CHOOSE f : IsVisits(f, g)
<1>4. IsVisits(f, g) /\ Visits(g) = f
  BY <1>3, Zenon DEF Visits, IsVisits, Comes
<1> HIDE DEF f
<1>5. \A j \in 1..N : f[j] <=> ~(j > 1 /\ f[j - 1] /\ g[j - 1] = "*" /\ g[j] = "*")
  BY <1>1, <1>4, Zenon DEF IsVisits, Comes
<1> DEFINE T == {n \in Nat : n \in 1..N => (f[n] <=> ~Second(g, n))}
<1>6. 0 \in T
  OBVIOUS
<1>7. ASSUME NEW n \in Nat, n \in T
      PROVE  n + 1 \in T
  <2>1. SUFFICES ASSUME n + 1 \in 1..N PROVE f[n + 1] <=> ~Second(g, n + 1)
    <3>1. n + 1 \in Nat
      OBVIOUS
    <3> QED
      BY <3>1, <2>1, Zenon
  <2>2. (n + 1) - 1 = n /\ (n + 1 > 1 => n \in 1..N) /\ n + 1 \in Nat \ {0}
    BY <2>1
  <2>3. f[n + 1] <=> ~(n + 1 > 1 /\ f[n] /\ g[n] = "*" /\ g[n + 1] = "*")
    BY <1>5, <2>1, <2>2, Zenon
  <2>4. Second(g, n + 1) <=> (n + 1 > 1 /\ ~Second(g, n) /\ g[n] = "*" /\ g[n + 1] = "*")
    BY <2>2, SecondAfter, Zenon
  <2>5. n + 1 > 1 => (f[n] <=> ~Second(g, n))
    BY <1>7, <2>2, Zenon
  <2> QED
    BY <2>3, <2>4, <2>5, Zenon
<1> HIDE DEF T
<1>8. i \in T
  <2>1. i \in Nat
    BY <1>1
  <2> QED
    BY <1>6, <1>7, <2>1, NatInduct, Zenon
<1> QED
  BY <1>1, <1>4, <1>8, Zenon DEF T

\* z is what is between q and r in s.
PartIs(z, s, q, r) ==
  /\ Len(z) = r - q /\ DOMAIN z = 1..r - q /\ z = [k \in 1..r - q |-> z[k]]
  /\ \A k \in 1..r - q : z[k] = s[q + k]

\* As SubSeq makes it.
LEMMA SubSeqPart ==
  ASSUME NEW Y, NEW s \in Seq(Y), NEW q \in 0..Len(s), NEW r \in q..Len(s)
  PROVE  PartIs(SubSeq(s, q + 1, r), s, q, r)
<1>1. PICK z : z = SubSeq(s, q + 1, r)
  OBVIOUS
<1>2. z \in Seq(Y)
  BY <1>1
<1>3. Len(z) = r - q
  BY <1>1
<1>4. \A k \in 1..r - q : z[k] = s[q + k]
  BY <1>1
<1>5. DOMAIN z = 1..r - q /\ z = [k \in 1..r - q |-> z[k]]
  BY <1>2, <1>3
<1> QED
  BY <1>1, <1>3, <1>4, <1>5, Zenon DEF PartIs

\* A part without a certain character.
Without(z, s, q, r) ==
  \A bad : (\A k \in DOMAIN z : z[k] # bad) <=> (\A j \in q + 1..r : s[j] # bad)

\* It is one of the string there.
LEMMA PartRun ==
  ASSUME NEW z, NEW s, NEW q \in Nat, NEW r \in Nat, q <= r, PartIs(z, s, q, r)
  PROVE  Without(z, s, q, r)
<1> SUFFICES ASSUME NEW bad
             PROVE  (\A k \in DOMAIN z : z[k] # bad) <=> (\A j \in q + 1..r : s[j] # bad)
  BY Zenon DEF Without
<1>1. DOMAIN z = 1..r - q /\ \A k \in 1..r - q : z[k] = s[q + k]
  BY Zenon DEF PartIs
<1>2. \A k \in 1..r - q : q + k \in q + 1..r
  OBVIOUS
<1>3. \A j \in q + 1..r : j - q \in 1..r - q /\ q + (j - q) = j
  OBVIOUS
<1>4. ASSUME \A k \in DOMAIN z : z[k] # bad, NEW j \in q + 1..r
      PROVE  s[j] # bad
  <2>1. z[j - q] = s[q + (j - q)]
    BY <1>1, <1>3, Zenon
  <2>2. z[j - q] = s[j]
    BY <1>3, <2>1
  <2> QED
    BY <1>1, <1>3, <1>4, <2>2, Zenon
<1> QED
  BY <1>1, <1>2, <1>4, Zenon

\* A part of one character, and of none.
OneIs(z, s, q, r) ==
  /\ Len(z) = 1 <=> r = q + 1
  /\ r = q + 1 => z[1] = s[r]
  /\ z = <<>> <=> r = q
  /\ \A x : z = <<x>> <=> r = q + 1 /\ s[r] = x

\* It is the character of the string there.
LEMMA PartOne ==
  ASSUME NEW z, NEW s, NEW q \in Nat, NEW r \in Nat, q <= r, PartIs(z, s, q, r)
  PROVE  OneIs(z, s, q, r)
<1>1. /\ Len(z) = r - q /\ DOMAIN z = 1..r - q /\ z = [k \in 1..r - q |-> z[k]]
      /\ \A k \in 1..r - q : z[k] = s[q + k]
  BY Zenon DEF PartIs
<1>2. Len(z) = 1 <=> r = q + 1
  BY <1>1
<1>3. r = q + 1 => z[1] = s[r]
  BY <1>1
<1>4. z = <<>> <=> r = q
  <2>1. ASSUME z = <<>> PROVE r = q
    <3>1. Len(z) = 0
      BY <2>1
    <3> QED
      BY <1>1, <3>1
  <2>2. ASSUME r = q PROVE z = <<>>
    <3>1. 1..r - q = {}
      BY <2>2
    <3>2. z = [k \in {} |-> z[k]]
      BY <1>1, <3>1, Zenon
    <3> QED
      BY <3>2
  <2> QED
    BY <2>1, <2>2
<1>5. ASSUME NEW x
      PROVE  z = <<x>> <=> r = q + 1 /\ s[r] = x
  <2>1. ASSUME z = <<x>> PROVE r = q + 1 /\ s[r] = x
    <3>1. Len(z) = 1 /\ z[1] = x
      BY <2>1
    <3> QED
      BY <1>2, <1>3, <3>1, Zenon
  <2>2. ASSUME r = q + 1, s[r] = x PROVE z = <<x>>
    <3>1. 1..r - q = {1}
      BY <2>2
    <3>2. z = [k \in {1} |-> z[k]] /\ z[1] = x
      BY <1>1, <1>3, <2>2, <3>1, Zenon
    <3> QED
      BY <3>2
  <2> QED
    BY <2>1, <2>2
<1> QED
  BY <1>2, <1>3, <1>4, <1>5, Zenon DEF OneIs

\* What the piece for the character at i matches from q on; nothing is written
\* for the second star of a pair.
Moves(g, s, i, q) == IF Second(g, i) THEN {q} ELSE Ends(Write(g, i), s, q)

\* What a piece takes when it takes as many as it can, and when it takes one.
LEMMA EndsIs ==
  ASSUME NEW p, NEW s, Len(s) \in Nat, NEW q \in 0..Len(s), NEW r
  PROVE  /\ p.many => (r \in Ends(p, s, q) <=> r \in q..Len(s) /\ \A j \in q + 1..r : Test(p, s[j]))
         /\ ~p.many => (r \in Ends(p, s, q) <=> r \in q..Len(s) /\ r = q + 1 /\ Test(p, s[r]))
<1>1. p.many => (r \in Ends(p, s, q) <=> r \in q..Len(s) /\ \A j \in q + 1..r : Test(p, s[j]))
  BY Zenon DEF Ends
<1>2. ~p.many => (r \in Ends(p, s, q) <=> r \in 1..Len(s) /\ r = q + 1 /\ Test(p, s[r]))
  BY Zenon DEF Ends
<1>3. r = q + 1 => (r \in 1..Len(s) <=> r \in q..Len(s))
  OBVIOUS
<1> QED
  BY <1>1, <1>2, <1>3, Zenon

\* The star after a star that is not the second of a pair.
StarNext(g, i) == i < Len(g) /\ g[i + 1] = "*"

\* What a character of the pattern stands for.
LEMMA FitsAt ==
  ASSUME NEW g, NEW i, NEW z
  PROVE  /\ Second(g, i) => (Fits(g, i, z) <=> z = <<>>)
         /\ (g[i] = "*" /\ ~Second(g, i) /\ StarNext(g, i)) =>
              (Fits(g, i, z) <=> \A j \in DOMAIN z : z[j] # "newline")
         /\ (g[i] = "*" /\ ~Second(g, i) /\ ~StarNext(g, i)) =>
              (Fits(g, i, z) <=> \A j \in DOMAIN z : z[j] # "/")
         /\ g[i] = "?" => (Fits(g, i, z) <=> Len(z) = 1 /\ z[1] # "/")
         /\ g[i] \in DOMAIN Class => (Fits(g, i, z) <=> Len(z) = 1 /\ z[1] \in Class[g[i]])
         /\ g[i] \notin {"*", "?"} \cup DOMAIN Class => (Fits(g, i, z) <=> z = <<g[i]>>)
<1>0. "*" # "?" /\ "*" \notin DOMAIN Class /\ "?" \notin DOMAIN Class
  BY ClassAssumption
<1>1. PICK x : x = g[i]
  OBVIOUS
<1>2. PICK second \in BOOLEAN : second <=> InRun(g, i) % 2 = 0
  OBVIOUS
<1>3. PICK next \in BOOLEAN : next <=> StarNext(g, i)
  OBVIOUS
<1>4. Second(g, i) <=> x = "*" /\ second
  BY <1>1, <1>2, Zenon DEF Second
<1>5. x = "*" /\ second => (Fits(g, i, z) <=> z = <<>>)
  BY <1>0, <1>1, <1>2, <1>3, Zenon DEF Fits, StarNext
<1>6. x = "*" /\ ~second /\ next => (Fits(g, i, z) <=> \A j \in DOMAIN z : z[j] # "newline")
  BY <1>0, <1>1, <1>2, <1>3, Zenon DEF Fits, StarNext
<1>7. x = "*" /\ ~second /\ ~next => (Fits(g, i, z) <=> \A j \in DOMAIN z : z[j] # "/")
  BY <1>0, <1>1, <1>2, <1>3, Zenon DEF Fits, StarNext
<1>8. x = "?" => (Fits(g, i, z) <=> Len(z) = 1 /\ z[1] # "/")
  BY <1>0, <1>1, <1>2, <1>3, Zenon DEF Fits, StarNext
<1>9. x \in DOMAIN Class => (Fits(g, i, z) <=> Len(z) = 1 /\ z[1] \in Class[x])
  BY <1>0, <1>1, <1>2, <1>3, Zenon DEF Fits, StarNext
<1>10. x # "*" /\ x # "?" /\ x \notin DOMAIN Class => (Fits(g, i, z) <=> z = <<x>>)
  BY <1>0, <1>1, <1>2, <1>3, Zenon DEF Fits, StarNext
<1> QED
  BY <1>1, <1>3, <1>4, <1>5, <1>6, <1>7, <1>8, <1>9, <1>10, Zenon

\* The piece that globRE2 writes for a character.
LEMMA WriteAt ==
  ASSUME NEW g, NEW i
  PROVE  /\ g[i] = "*" /\ StarNext(g, i) => Write(g, i) = AnyRun
         /\ g[i] = "*" /\ ~StarNext(g, i) => Write(g, i) = SegmentRun
         /\ g[i] = "?" => Write(g, i) = NoSlash
         /\ g[i] \in DOMAIN Class => Write(g, i) = Bracket(g[i])
         /\ g[i] \notin {"*", "?"} \cup DOMAIN Class => Write(g, i) = Literal(g[i])
<1>0. "*" # "?" /\ "*" \notin DOMAIN Class /\ "?" \notin DOMAIN Class
  BY ClassAssumption
<1>1. PICK x : x = g[i]
  OBVIOUS
<1>2. PICK next \in BOOLEAN : next <=> StarNext(g, i)
  OBVIOUS
<1>3. x = "*" /\ next => Write(g, i) = AnyRun
  BY <1>0, <1>1, <1>2, Zenon DEF Write, StarNext
<1>4. x = "*" /\ ~next => Write(g, i) = SegmentRun
  BY <1>0, <1>1, <1>2, Zenon DEF Write, StarNext
<1>5. x = "?" => Write(g, i) = NoSlash
  BY <1>0, <1>1, <1>2, Zenon DEF Write, StarNext
<1>6. x \in DOMAIN Class => Write(g, i) = Bracket(x)
  BY <1>0, <1>1, <1>2, Zenon DEF Write, StarNext
<1>7. x # "*" /\ x # "?" /\ x \notin DOMAIN Class => Write(g, i) = Literal(x)
  BY <1>0, <1>1, <1>2, Zenon DEF Write, StarNext
<1> QED
  BY <1>1, <1>2, <1>3, <1>4, <1>5, <1>6, <1>7, Zenon

\* The tests of the pieces.
LEMMA Tests ==
  \A x, y :
    /\ AnyRun.many /\ SegmentRun.many /\ ~NoSlash.many /\ ~Bracket(y).many /\ ~Literal(y).many
    /\ Test(AnyRun, x) <=> x # "newline"
    /\ Test(SegmentRun, x) <=> x # "/"
    /\ Test(NoSlash, x) <=> x # "/"
    /\ Test(Bracket(y), x) <=> x \in Class[y]
    /\ Test(Literal(y), x) <=> x = y
<1> TAKE x, y
<1>1. AnyRun.many /\ SegmentRun.many /\ ~NoSlash.many /\ ~Bracket(y).many /\ ~Literal(y).many
  BY DEF AnyRun, SegmentRun, NoSlash, Bracket, Literal
<1>2. Test(AnyRun, x) <=> x # "newline"
  BY DEF AnyRun, Test
<1>3. Test(SegmentRun, x) <=> x # "/"
  BY DEF SegmentRun, Test
<1>4. Test(NoSlash, x) <=> x # "/"
  BY DEF NoSlash, Test
<1>5. Test(Bracket(y), x) <=> x \in Class[y]
  BY DEF Bracket, Test
<1>6. Test(Literal(y), x) <=> x = y
  BY DEF Literal, Test
<1> QED
  BY <1>1, <1>2, <1>3, <1>4, <1>5, <1>6, Zenon

\* The piece written for a character matches what the character stands for.
LEMMA MovesIs ==
  ASSUME NEW g, NEW i, NEW Y, NEW s \in Seq(Y), NEW q \in 0..Len(s), NEW r \in q..Len(s)
  PROVE  r \in Moves(g, s, i, q) <=> Fits(g, i, SubSeq(s, q + 1, r))
<1>1. PICK z : z = SubSeq(s, q + 1, r) /\ PartIs(z, s, q, r)
  BY SubSeqPart, Zenon
<1>2. q \in Nat /\ r \in Nat /\ q <= r /\ Len(s) \in Nat
  OBVIOUS
<1>3. Without(z, s, q, r)
  BY <1>1, <1>2, PartRun, Zenon
<1>4. OneIs(z, s, q, r)
  BY <1>1, <1>2, PartOne, Zenon
<1>5. PICK p : p = Write(g, i)
  OBVIOUS
<1>6. /\ p.many => (r \in Ends(p, s, q) <=> \A j \in q + 1..r : Test(p, s[j]))
      /\ ~p.many => (r \in Ends(p, s, q) <=> r = q + 1 /\ Test(p, s[r]))
  BY <1>2, EndsIs, Zenon
<1>7. CASE Second(g, i)
  <2>1. r \in Moves(g, s, i, q) <=> r = q
    BY <1>7, Zenon DEF Moves
  <2>2. Fits(g, i, z) <=> z = <<>>
    BY <1>7, FitsAt, Zenon
  <2> QED
    BY <1>1, <1>4, <2>1, <2>2, Zenon DEF OneIs
<1>8. ~Second(g, i) => (r \in Moves(g, s, i, q) <=> r \in Ends(p, s, q))
  BY <1>5, Zenon DEF Moves
<1>9. CASE g[i] = "*" /\ ~Second(g, i) /\ StarNext(g, i)
  <2>1. p = AnyRun
    BY <1>5, <1>9, WriteAt, Zenon
  <2>2. p.many /\ \A x : Test(p, x) <=> x # "newline"
    BY <2>1, Tests, Zenon
  <2>3. r \in Ends(p, s, q) <=> \A j \in q + 1..r : s[j] # "newline"
    BY <1>6, <2>2, Zenon
  <2>4. Fits(g, i, z) <=> \A j \in DOMAIN z : z[j] # "newline"
    BY <1>9, FitsAt, Zenon
  <2> QED
    BY <1>1, <1>3, <1>8, <1>9, <2>3, <2>4, Zenon DEF Without
<1>10. CASE g[i] = "*" /\ ~Second(g, i) /\ ~StarNext(g, i)
  <2>1. p = SegmentRun
    BY <1>5, <1>10, WriteAt, Zenon
  <2>2. p.many /\ \A x : Test(p, x) <=> x # "/"
    BY <2>1, Tests, Zenon
  <2>3. r \in Ends(p, s, q) <=> \A j \in q + 1..r : s[j] # "/"
    BY <1>6, <2>2, Zenon
  <2>4. Fits(g, i, z) <=> \A j \in DOMAIN z : z[j] # "/"
    BY <1>10, FitsAt, Zenon
  <2> QED
    BY <1>1, <1>3, <1>8, <1>10, <2>3, <2>4, Zenon DEF Without
<1>11. ASSUME g[i] # "*"
       PROVE  ~Second(g, i)
  BY <1>11, Zenon DEF Second
<1>12. CASE g[i] = "?"
  <2>0. ~Second(g, i)
    BY <1>11, <1>12
  <2>1. p = NoSlash
    BY <1>5, <1>12, WriteAt, Zenon
  <2>2. ~p.many /\ \A x : Test(p, x) <=> x # "/"
    BY <2>1, Tests, Zenon
  <2>3. r \in Ends(p, s, q) <=> r = q + 1 /\ s[r] # "/"
    BY <1>6, <2>2, Zenon
  <2>4. Fits(g, i, z) <=> Len(z) = 1 /\ z[1] # "/"
    BY <1>12, FitsAt, Zenon
  <2> QED
    BY <1>1, <1>4, <1>8, <2>0, <2>3, <2>4, Zenon DEF OneIs
<1>13. CASE g[i] \in DOMAIN Class
  <2>0. ~Second(g, i)
    BY <1>11, <1>13, ClassAssumption
  <2>1. p = Bracket(g[i])
    BY <1>5, <1>13, WriteAt, Zenon
  <2>2. ~p.many /\ \A x : Test(p, x) <=> x \in Class[g[i]]
    BY <2>1, Tests, Zenon
  <2>3. r \in Ends(p, s, q) <=> r = q + 1 /\ s[r] \in Class[g[i]]
    BY <1>6, <2>2, Zenon
  <2>4. Fits(g, i, z) <=> Len(z) = 1 /\ z[1] \in Class[g[i]]
    BY <1>13, FitsAt, Zenon
  <2> QED
    BY <1>1, <1>4, <1>8, <2>0, <2>3, <2>4, Zenon DEF OneIs
<1>14. CASE g[i] \notin {"*", "?"} \cup DOMAIN Class
  <2>0. ~Second(g, i)
    BY <1>11, <1>14, Zenon
  <2>1. p = Literal(g[i])
    BY <1>5, <1>14, WriteAt, Zenon
  <2>2. ~p.many /\ \A x : Test(p, x) <=> x = g[i]
    BY <2>1, Tests, Zenon
  <2>3. r \in Ends(p, s, q) <=> r = q + 1 /\ s[r] = g[i]
    BY <1>6, <2>2, Zenon
  <2>4. Fits(g, i, z) <=> z = <<g[i]>>
    BY <1>14, FitsAt, SMTT(30)
  <2> QED
    BY <1>1, <1>4, <1>8, <2>0, <2>3, <2>4, Zenon DEF OneIs
<1> QED
  BY <1>7, <1>9, <1>10, <1>12, <1>13, <1>14, Zenon

\* P holds how far the pattern gets with each of its first n characters.
Places(P, g, s, n) ==
  /\ P[0] = {0}
  /\ \A i \in Nat : i + 1 <= n =>
       \A r : r \in P[i + 1] <=> \E q \in P[i] : r \in Moves(g, s, i + 1, q)

\* The pieces of a pattern.
Pieces(g) == {Write(g, i) : i \in 1..Len(g)}

\* A class is taken once.
LEMMA ClassOnce ==
  ASSUME NEW g, NEW p \in Pieces(g), p.t = "class"
  PROVE  ~p.many
<1>1. PICK i : p = Write(g, i)
  BY Zenon DEF Pieces
<1>2. p \in {AnyRun, SegmentRun, NoSlash, Bracket(g[i]), Literal(g[i])}
  BY <1>1, WriteAt, Zenon
<1>3. AnyRun.t # "class" /\ SegmentRun.t # "class"
  BY DEF AnyRun, SegmentRun
<1>4. ~NoSlash.many /\ ~Bracket(g[i]).many /\ ~Literal(g[i]).many
  BY Tests, Zenon
<1> QED
  BY <1>2, <1>3, <1>4, Zenon

\* The regular expression reaches what the characters reach one after the other.
LEMMA ReachedPlaces ==
  ASSUME NEW X, NEW g \in Seq(X), NEW s, Len(s) \in Nat
  PROVE  /\ globRE2(g) \in Seq(Pieces(g))
         /\ \E P : Places(P, g, s, Len(g)) /\ PrefixEnds(globRE2(g), s) = P[Len(g)]
<1>1. PICK N \in Nat : N = Len(g)
  OBVIOUS
<1>2. PICK E : E = Pieces(g)
  OBVIOUS
<1>3. PICK tt : tt = [i \in 1..N |-> When(Visits(g)[i], <<Write(g, i)>>)]
  OBVIOUS
<1>4. Len(tt) = N
  BY <1>3
<1>5. PICK h : Flattens(h, tt, N)
  BY <1>4, FlattenIs, Zenon
<1>6. globRE2(g) = h[N] /\ h[0] = <<>>
  BY <1>1, <1>3, <1>5, Zenon DEF globRE2, Flattens
<1>7. ASSUME NEW i \in Nat, i + 1 <= N
      PROVE  /\ Second(g, i + 1) => h[i + 1] = h[i] \o <<>>
             /\ ~Second(g, i + 1) => h[i + 1] = h[i] \o <<Write(g, i + 1)>>
             /\ Write(g, i + 1) \in E
  <2>1. i + 1 \in 1..N
    BY <1>7
  <2>2. h[i + 1] = h[i] \o tt[i + 1]
    BY <1>5, <1>7, Zenon DEF Flattens
  <2>3. tt[i + 1] = When(Visits(g)[i + 1], <<Write(g, i + 1)>>)
    BY <1>3, <2>1, Zenon
  <2>4. Visits(g)[i + 1] <=> ~Second(g, i + 1)
    BY <1>1, <2>1, VisitsIs, Zenon
  <2>5. /\ Second(g, i + 1) => tt[i + 1] = <<>>
        /\ ~Second(g, i + 1) => tt[i + 1] = <<Write(g, i + 1)>>
    BY <2>3, <2>4, Zenon DEF When
  <2>6. Write(g, i + 1) \in E
    BY <1>1, <1>2, <2>1, Zenon DEF Pieces
  <2> QED
    BY <2>2, <2>5, <2>6, Zenon
<1> DEFINE T == {n \in Nat : n <= N => h[n] \in Seq(E)}
<1>8. 0 \in T
  <2>1. 0 \in Nat /\ <<>> \in Seq(E)
    OBVIOUS
  <2> QED
    BY <1>6, <2>1, Zenon
<1>9. ASSUME NEW n \in Nat, n \in T
      PROVE  n + 1 \in T
  <2>1. n + 1 \in Nat
    OBVIOUS
  <2>2. ASSUME n + 1 <= N PROVE h[n + 1] \in Seq(E)
    <3>1. n <= N
      BY <2>2, <1>1
    <3>2. PICK u \in Seq(E) : u = h[n]
      BY <1>9, <3>1, Zenon
    <3>3. PICK w \in E : w = Write(g, n + 1)
      BY <1>7, <2>2, Zenon
    <3>4. u \o <<>> \in Seq(E) /\ u \o <<w>> \in Seq(E)
      OBVIOUS
    <3> QED
      BY <1>7, <2>2, <3>2, <3>3, <3>4, Zenon
  <2> QED
    BY <2>1, <2>2, Zenon
<1> HIDE DEF T
<1>10. \A n \in Nat : n <= N => h[n] \in Seq(E)
  <2>1. Nat \subseteq T
    BY <1>8, <1>9, NatInduct, Zenon
  <2> QED
    BY <2>1, Zenon DEF T
<1>11. PICK P : P = [n \in 0..N |-> PrefixEnds(h[n], s)]
  OBVIOUS
<1>12. P[0] = {0}
  <2>1. 0 \in 0..N
    OBVIOUS
  <2> QED
    BY <1>6, <1>11, <2>1, ReachedEmpty, Zenon
<1>13. ASSUME NEW i \in Nat, i + 1 <= N, NEW r
       PROVE  r \in P[i + 1] <=> \E q \in P[i] : r \in Moves(g, s, i + 1, q)
  <2>1. i \in 0..N /\ i + 1 \in 0..N /\ i <= N
    BY <1>13
  <2>2. P[i] = PrefixEnds(h[i], s) /\ P[i + 1] = PrefixEnds(h[i + 1], s)
    BY <1>11, <2>1, Zenon
  <2>3. PICK u \in Seq(E) : u = h[i]
    BY <1>10, <2>1, Zenon
  <2>4. CASE Second(g, i + 1)
    <3>1. u \o <<>> = u
      OBVIOUS
    <3>2. P[i + 1] = P[i]
      BY <1>7, <1>13, <2>2, <2>3, <2>4, <3>1, Zenon
    <3> QED
      BY <2>4, <3>2, Zenon DEF Moves
  <2>5. CASE ~Second(g, i + 1)
    <3>1. PICK w \in E : w = Write(g, i + 1)
      BY <1>7, <1>13, Zenon
    <3>2. u \o <<w>> = Append(u, w)
      OBVIOUS
    <3>3. h[i + 1] = Append(u, w)
      BY <1>7, <1>13, <2>3, <2>5, <3>1, <3>2, Zenon
    <3>4. P[i + 1] = EndsFrom(w, s, P[i])
      <4>1. PrefixEnds(Append(u, w), s) = EndsFrom(w, s, PrefixEnds(u, s))
        BY ReachedAppend, Zenon
      <4> QED
        BY <2>2, <2>3, <3>3, <4>1, Zenon
    <3> QED
      BY <2>5, <3>1, <3>4, Zenon DEF Moves, EndsFrom
  <2> QED
    BY <2>4, <2>5
<1>14. Places(P, g, s, N)
  BY <1>12, <1>13, Zenon DEF Places
<1>15. N \in 0..N /\ N <= N
  OBVIOUS
<1>16. PrefixEnds(globRE2(g), s) = P[N]
  BY <1>6, <1>11, <1>15, Zenon
<1>17. globRE2(g) \in Seq(Pieces(g))
  BY <1>2, <1>6, <1>10, <1>15, Zenon
<1> QED
  BY <1>1, <1>14, <1>16, <1>17, Zenon

\* A cut of s for the first n characters of the pattern.
Cut(cut, g, s, n) ==
  /\ cut \in [0..n -> 0..Len(s)] /\ cut[0] = 0
  /\ \A i \in Nat : i + 1 <= n =>
       cut[i] <= cut[i + 1] /\ Fits(g, i + 1, SubSeq(s, cut[i] + 1, cut[i + 1]))

\* A piece does not go back.
LEMMA MovesType ==
  ASSUME NEW g, NEW s, NEW i, Len(s) \in Nat, NEW q \in 0..Len(s), NEW r \in Moves(g, s, i, q)
  PROVE  r \in q..Len(s) /\ r \in 0..Len(s) /\ q <= r
<1>1. r \in q..Len(s)
  <2>1. CASE Second(g, i)
    <3>1. r = q
      BY <2>1, Zenon DEF Moves
    <3> QED
      BY <3>1
  <2>2. CASE ~Second(g, i)
    <3>1. r \in Ends(Write(g, i), s, q)
      BY <2>2, Zenon DEF Moves
    <3> QED
      BY <3>1, EndsIs, Zenon
  <2> QED
    BY <2>1, <2>2
<1> QED
  BY <1>1

\* Where a cut ends.
CutTo(g, s, n, r) == \E cut : Cut(cut, g, s, n) /\ cut[n] = r

\* What is reached is where a cut ends.
LEMMA PlacesAreCuts ==
  ASSUME NEW g, NEW Y, NEW s \in Seq(Y), NEW N \in Nat, NEW P, Places(P, g, s, N), NEW r
  PROVE  r \in P[N] <=> CutTo(g, s, N, r)
<1>1. PICK M \in Nat : M = Len(s)
  OBVIOUS
<1>2. P[0] = {0} /\ \A i \in Nat : i + 1 <= N =>
         \A x : x \in P[i + 1] <=> \E q \in P[i] : x \in Moves(g, s, i + 1, q)
  BY Zenon DEF Places
<1> DEFINE Ok(n) == \A x : x \in P[n] <=> \E cut : Cut(cut, g, s, n) /\ cut[n] = x
           T == {n \in Nat : n <= N => Ok(n)}
<1>3. 0 \in T
  <2>1. ASSUME NEW cut, Cut(cut, g, s, 0) PROVE cut[0] = 0
    BY <2>1, Zenon DEF Cut
  <2>2. PICK cut : cut = [i \in 0..0 |-> 0]
    OBVIOUS
  <2>3. cut \in [0..0 -> 0..M] /\ cut[0] = 0 /\ \A i \in Nat : ~(i + 1 <= 0)
    BY <2>2
  <2>4. Cut(cut, g, s, 0)
    BY <1>1, <2>3, Zenon DEF Cut
  <2>5. Ok(0)
    BY <1>2, <2>1, <2>3, <2>4, Zenon
  <2>6. 0 \in Nat
    OBVIOUS
  <2> QED
    BY <2>5, <2>6, Zenon
<1>4. ASSUME NEW n \in Nat, n \in T
      PROVE  n + 1 \in T
  <2>1. n + 1 \in Nat
    OBVIOUS
  <2>2. SUFFICES ASSUME n + 1 <= N PROVE Ok(n + 1)
    BY <2>1, Zenon
  <2>3. Ok(n)
    <3>1. n <= N
      BY <2>2
    <3> QED
      BY <1>4, <3>1, Zenon
  <2>4. ASSUME NEW x \in P[n + 1]
        PROVE  \E cut : Cut(cut, g, s, n + 1) /\ cut[n + 1] = x
    <3>1. PICK q \in P[n] : x \in Moves(g, s, n + 1, q)
      BY <1>2, <2>2, <2>4, Zenon
    <3>2. PICK cut : Cut(cut, g, s, n) /\ cut[n] = q
      BY <2>3, <3>1, Zenon
    <3>3. /\ cut \in [0..n -> 0..M] /\ cut[0] = 0
          /\ \A i \in Nat : i + 1 <= n =>
               cut[i] <= cut[i + 1] /\ Fits(g, i + 1, SubSeq(s, cut[i] + 1, cut[i + 1]))
      BY <1>1, <3>2, Zenon DEF Cut
    <3>4. q \in 0..M
      BY <3>2, <3>3
    <3>5. x \in q..M /\ x \in 0..M /\ q <= x
      BY <1>1, <3>1, <3>4, MovesType, Zenon
    <3>6. Fits(g, n + 1, SubSeq(s, q + 1, x))
      BY <1>1, <3>1, <3>4, <3>5, MovesIs, Zenon
    <3>7. PICK more : more = [i \in 0..n + 1 |-> IF i = n + 1 THEN x ELSE cut[i]]
      OBVIOUS
    <3>8. /\ more \in [0..n + 1 -> 0..M] /\ more[n + 1] = x
          /\ \A i \in 0..n : more[i] = cut[i]
      BY <3>3, <3>5, <3>7
    <3>9. 0 \in 0..n /\ n \in 0..n
      OBVIOUS
    <3>10. ASSUME NEW i \in Nat, i + 1 <= n + 1
           PROVE  more[i] <= more[i + 1] /\ Fits(g, i + 1, SubSeq(s, more[i] + 1, more[i + 1]))
      <4>1. CASE i = n
        <5>1. more[i] = q /\ more[i + 1] = x
          BY <3>2, <3>8, <3>9, <4>1, Zenon
        <5> QED
          BY <3>5, <3>6, <4>1, <5>1, Zenon
      <4>2. CASE i # n
        <5>1. i + 1 <= n /\ i \in 0..n /\ i + 1 \in 0..n
          BY <3>10, <4>2
        <5>2. more[i] = cut[i] /\ more[i + 1] = cut[i + 1]
          BY <3>8, <5>1, Zenon
        <5> QED
          BY <3>3, <5>1, <5>2, Zenon
      <4> QED
        BY <4>1, <4>2
    <3>11. more[0] = 0
      BY <3>3, <3>8, <3>9, Zenon
    <3>12. Cut(more, g, s, n + 1)
      BY <1>1, <3>8, <3>10, <3>11, Zenon DEF Cut
    <3> QED
      BY <3>8, <3>12, Zenon
  <2>5. ASSUME NEW more, Cut(more, g, s, n + 1)
        PROVE  more[n + 1] \in P[n + 1]
    <3>1. /\ more \in [0..n + 1 -> 0..M] /\ more[0] = 0
          /\ \A i \in Nat : i + 1 <= n + 1 =>
               more[i] <= more[i + 1] /\ Fits(g, i + 1, SubSeq(s, more[i] + 1, more[i + 1]))
      BY <1>1, <2>5, Zenon DEF Cut
    <3>2. PICK cut : cut = [i \in 0..n |-> more[i]]
      OBVIOUS
    <3>3. cut \in [0..n -> 0..M] /\ 0 \in 0..n /\ n \in 0..n /\ \A i \in 0..n : cut[i] = more[i]
      BY <3>1, <3>2
    <3>4. \A i \in Nat : i + 1 <= n => i + 1 <= n + 1 /\ i \in 0..n /\ i + 1 \in 0..n
      OBVIOUS
    <3>5. ASSUME NEW i \in Nat, i + 1 <= n
          PROVE  cut[i] <= cut[i + 1] /\ Fits(g, i + 1, SubSeq(s, cut[i] + 1, cut[i + 1]))
      <4>1. cut[i] = more[i] /\ cut[i + 1] = more[i + 1]
        BY <3>3, <3>4, <3>5, Zenon
      <4> QED
        BY <3>1, <3>4, <3>5, <4>1, Zenon
    <3>6. Cut(cut, g, s, n)
      <4>1. cut[0] = 0
        BY <3>1, <3>3, Zenon
      <4> QED
        BY <1>1, <3>3, <3>5, <4>1, Zenon DEF Cut
    <3>7. PICK q : q = more[n]
      OBVIOUS
    <3>8. q \in P[n]
      BY <2>3, <3>3, <3>6, <3>7, Zenon
    <3>9. PICK x : x = more[n + 1]
      OBVIOUS
    <3>10. q \in 0..M /\ x \in 0..M
      BY <3>1, <3>7, <3>9
    <3>11. q <= x /\ Fits(g, n + 1, SubSeq(s, q + 1, x))
      <4>1. n + 1 <= n + 1
        OBVIOUS
      <4> QED
        BY <3>1, <3>7, <3>9, <4>1, Zenon
    <3>12. x \in q..M
      BY <3>10, <3>11
    <3>13. x \in Moves(g, s, n + 1, q)
      BY <1>1, <3>10, <3>11, <3>12, MovesIs, Zenon
    <3> QED
      BY <1>2, <2>2, <3>8, <3>9, <3>13, Zenon
  <2>6. ASSUME NEW x
        PROVE  x \in P[n + 1] <=> \E cut : Cut(cut, g, s, n + 1) /\ cut[n + 1] = x
    <3>1. ASSUME NEW cut, Cut(cut, g, s, n + 1), cut[n + 1] = x
          PROVE  x \in P[n + 1]
      BY <2>5, <3>1, Zenon
    <3> QED
      BY <2>4, <3>1, Zenon
  <2> QED
    BY <2>6, Zenon
<1> HIDE DEF T
<1>5. N \in T
  BY <1>3, <1>4, NatInduct, Zenon
<1>6. N <= N
  OBVIOUS
<1>7. Ok(N)
  BY <1>5, <1>6, Zenon DEF T
<1> QED
  BY <1>7, Zenon DEF CutTo

\* matchGlob decides whether the string matches the pattern.
LEMMA GlobIs ==
  ASSUME NEW X, NEW g \in Seq(X), NEW Y, NEW s \in Seq(Y)
  PROVE  matchGlob(s, g) <=> Matches(s, g)
<1>1. PICK M \in Nat : M = Len(s)
  OBVIOUS
<1>2. PICK N \in Nat : N = Len(g)
  OBVIOUS
<1>3. globRE2(g) \in Seq(Pieces(g))
  BY <1>1, ReachedPlaces, Zenon
<1>4. PICK P : Places(P, g, s, N) /\ PrefixEnds(globRE2(g), s) = P[N]
  BY <1>1, <1>2, ReachedPlaces, Zenon
<1>5. Malformed(globRE2(g)) => PrefixEnds(globRE2(g), s) = {}
  BY <1>1, <1>3, ClassOnce, MalformedFails, Zenon
<1>6. matchGlob(s, g) <=> M \in P[N]
  BY <1>1, <1>4, <1>5, Zenon DEF matchGlob, MatchString
<1>7. M \in P[N] <=> CutTo(g, s, N, M)
  BY <1>4, PlacesAreCuts, Zenon
<1>8. ASSUME NEW cut \in [0..N -> 0..M]
      PROVE  (\A i \in Nat : i + 1 <= N =>
                cut[i] <= cut[i + 1] /\ Fits(g, i + 1, SubSeq(s, cut[i] + 1, cut[i + 1])))
             <=> \A i \in 1..N :
                   cut[i - 1] <= cut[i] /\ Fits(g, i, SubSeq(s, cut[i - 1] + 1, cut[i]))
  <2> DEFINE A(a, i) == cut[a] <= cut[i] /\ Fits(g, i, SubSeq(s, cut[a] + 1, cut[i]))
  <2> HIDE DEF A
  <2>1. (\A i \in Nat : i + 1 <= N => A(i, i + 1)) <=> \A i \in 1..N : A(i - 1, i)
    <3>1. ASSUME \A i \in Nat : i + 1 <= N => A(i, i + 1), NEW i \in 1..N
          PROVE  A(i - 1, i)
      <4>1. PICK j \in Nat : j = i - 1 /\ i = j + 1 /\ j + 1 <= N
        BY i - 1 \in Nat
      <4> QED
        BY <3>1, <4>1, Zenon
    <3>2. ASSUME \A i \in 1..N : A(i - 1, i), NEW i \in Nat, i + 1 <= N
          PROVE  A(i, i + 1)
      <4>1. PICK k \in 1..N : k = i + 1 /\ i = k - 1
        BY <3>2, i + 1 \in 1..N
      <4> QED
        BY <3>2, <4>1, Zenon
    <3> QED
      BY <3>1, <3>2, Zenon
  <2> QED
    BY <2>1, Zenon DEF A
<1>9. CutTo(g, s, N, M) <=> Matches(s, g)
  BY <1>1, <1>2, <1>8, Zenon DEF CutTo, Cut, Matches
<1> QED
  BY <1>6, <1>7, <1>9, Zenon

\* Every state is idle, holds what Compile or glob answered, or is about
\* something else.
Evaluated ==
  \/ call.op \notin {"compile", "glob"}
  \/ /\ call.op = "compile" /\ \E l \in Lexings : call.expr = l /\ call.out = Compile(l)
  \/ /\ call.op = "glob"
     /\ \E g \in Patterns : call.pattern = g /\ call.out = {s \in Strings : matchGlob(s, g)}

\* It is so from the start, and each call leaves it so.
THEOREM EvaluatedAlways == TextSpec => []Evaluated
<1>0. Idle.op \notin {"compile", "glob"}
  BY DEF Idle
<1>1. TextInit => Evaluated
  BY <1>0, Zenon DEF TextInit, Evaluated
<1>2. Evaluated /\ [TextNext]_call => Evaluated'
  <2> SUFFICES ASSUME Evaluated, [TextNext]_call
               PROVE  Evaluated'
    OBVIOUS
  <2>0. Evaluated' <=> \/ call'.op \notin {"compile", "glob"}
                       \/ call'.op = "compile" /\ \E l \in Lexings : call'.expr = l /\ call'.out = Compile(l)
                       \/ call'.op = "glob" /\ \E g \in Patterns :
                            call'.pattern = g /\ call'.out = {s \in Strings : matchGlob(s, g)}
    BY Zenon DEF Evaluated
  <2>1. CASE Parse
    <3>1. PICK l \in Lexings : call' = [op |-> "compile", expr |-> l, out |-> Compile(l)]
      BY <2>1, Zenon DEF Parse
    <3>2. call'.op = "compile" /\ call'.expr = l /\ call'.out = Compile(l)
      BY <3>1
    <3> QED
      BY <2>0, <3>2, Zenon
  <2>2. CASE Match
    <3>1. PICK g \in Patterns :
            call' = [op |-> "glob", pattern |-> g, out |-> {s \in Strings : matchGlob(s, g)}]
      BY <2>2, Zenon DEF Match
    <3>2. PICK o : o = {s \in Strings : matchGlob(s, g)}
      OBVIOUS
    <3>3. call' = [op |-> "glob", pattern |-> g, out |-> o]
      BY <3>1, <3>2, Zenon
    <3>4. call'.op = "glob" /\ call'.pattern = g /\ call'.out = o
      BY <3>3
    <3> QED
      BY <2>0, <3>2, <3>4, Zenon
  <2>3. CASE See
    <3>1. PICK c1, c2, c3, c4, c5, c6, c7 :
            call' = [op |-> "request", client |-> c1, lg |-> c2, query |-> c3,
                     authz |-> c4, proc |-> c5, log |-> c6, procLog |-> c7]
      BY <2>3, Zenon DEF See
    <3>2. call'.op = "request" /\ "request" \notin {"compile", "glob"}
      BY <3>1
    <3> QED
      BY <2>0, <3>2, Zenon
  <2>4. CASE SeeResponse
    <3>1. PICK c1, c2, c3, c4 :
            call' = [op |-> "response", hs |-> c1, lg |-> c2, var |-> c3, log |-> c4]
      BY <2>4, Zenon DEF SeeResponse
    <3>2. call'.op = "response" /\ "response" \notin {"compile", "glob"}
      BY <3>1
    <3> QED
      BY <2>0, <3>2, Zenon
  <2>5. CASE Return
    <3>1. call' = Idle
      BY <2>5, Zenon DEF Return
    <3> QED
      BY <1>0, <2>0, <3>1, Zenon
  <2>6. CASE UNCHANGED call
    BY <2>6, Zenon DEF Evaluated
  <2> QED
    BY <2>1, <2>2, <2>3, <2>4, <2>5, <2>6, Zenon DEF TextNext
<1> QED
  BY <1>1, <1>2, PTL DEF TextSpec

\* Compile accepts exactly what the grammar of JSONPath expressions derives and
\* gives the steps it derives, for every sequence of lexemes.
THEOREM PathsRead == TextSpec => []PathsParsed
<1>1. Evaluated => PathsParsed
  <2> SUFFICES ASSUME Evaluated, call.op = "compile"
               PROVE  call.out = LET l == call.expr IN
                        IF l = <<>> THEN {}
                        ELSE Derived(l)[1] \cup (IF l[1].t = "$" THEN Derived(l)[2] ELSE {})
    BY Zenon DEF PathsParsed
  <2>1. "compile" # "glob"
    OBVIOUS
  <2>2. PICK l \in Lexings : call.expr = l /\ call.out = Compile(l)
    BY <2>1, Zenon DEF Evaluated
  <2>3. l \in Seq(Range(l))
    BY LexingsAssumption, Zenon
  <2> QED
    BY <2>2, <2>3, CompileIs, Zenon
<1> QED
  BY <1>1, EvaluatedAlways, PTL

\* A string that matches may match.
LEMMA MatchesMay ==
  ASSUME NEW g, NEW s, Matches(s, g)
  PROVE  MayMatch(s, g)
<1>1. PICK cut \in [0..Len(g) -> 0..Len(s)] :
        /\ cut[0] = 0 /\ cut[Len(g)] = Len(s)
        /\ \A i \in 1..Len(g) :
             cut[i - 1] <= cut[i] /\ Fits(g, i, SubSeq(s, cut[i - 1] + 1, cut[i]))
  BY Zenon DEF Matches
<1>2. \A i, z : Fits(g, i, z) => MayFit(g, i, z)
  BY Zenon DEF MayFit
<1> QED
  BY <1>1, <1>2, Zenon DEF MayMatch

\* glob(s, pattern) holds for the strings that can be cut into one part per character of
\* the pattern and for no others, for patterns and strings of any length and all classes
\* that the regexp package closes where globRE2 does.
THEOREM Globbed == TextSpec => []GlobMatches
<1>1. Evaluated => GlobMatches
  <2> SUFFICES ASSUME Evaluated, call.op = "glob"
               PROVE  /\ {s \in Strings : Matches(s, call.pattern)} \subseteq call.out
                      /\ call.out \subseteq {s \in Strings : MayMatch(s, call.pattern)}
    BY Zenon DEF GlobMatches
  <2>1. "compile" # "glob"
    OBVIOUS
  <2>2. PICK g \in Patterns : call.pattern = g /\ call.out = {s \in Strings : matchGlob(s, g)}
    BY <2>1, Zenon DEF Evaluated
  <2>3. \A t \in Patterns \cup Strings : t \in Seq(Range(t))
    BY GlobAssumption, Zenon
  <2>4. \A s \in Strings : matchGlob(s, g) <=> Matches(s, g)
    BY <2>3, GlobIs, Zenon
  <2>5. {s \in Strings : matchGlob(s, g)} = {s \in Strings : Matches(s, g)}
    BY <2>4, Zenon
  <2>6. {s \in Strings : Matches(s, g)} \subseteq {s \in Strings : MayMatch(s, g)}
    BY MatchesMay, Zenon
  <2> QED
    BY <2>2, <2>5, <2>6, Zenon
<1> QED
  BY <1>1, EvaluatedAlways, PTL
=============================================================================
