--------------------------- MODULE RequestProofs ---------------------------
(* Proofs about TextFunctions: what a policy reads of a request and of a    *)
(* response, and what the access log shows, for any requests, responses,    *)
(* logging sections and words.                                              *)
EXTENDS TextFunctions, SequenceFacts, TLAPS

-----------------------------------------------------------------------------
(* Texts.                                                                  *)

\* i is where w is first, 0 if it is nowhere.
IsIndex(t, w, i) ==
  \/ i = 0 /\ \A j \in 1..Len(t) : t[j] # Letter(w)
  \/ i \in 1..Len(t) /\ t[i] = Letter(w) /\ \A j \in 1..i - 1 : t[j] # Letter(w)

\* IndexByte finds it.
LEMMA IndexIs ==
  ASSUME NEW t \in Seq(Letters), NEW w
  PROVE  IsIndex(t, w, IndexByte(t, w)) /\ IndexByte(t, w) \in Nat
<1> DEFINE at == {i \in DOMAIN t : t[i] = Letter(w)}
<1>1. DOMAIN t = 1..Len(t) /\ Len(t) \in Nat
  OBVIOUS
<1>2. at \in SUBSET Nat
  BY <1>1
<1>3. IndexByte(t, w) = IF at = {} THEN 0 ELSE Min(at)
  BY Zenon DEF IndexByte
<1>4. CASE at = {}
  <2>1. \A j \in 1..Len(t) : t[j] # Letter(w)
    BY <1>1, <1>4, Zenon
  <2> QED
    BY <1>3, <1>4, <2>1 DEF IsIndex
<1>5. CASE at # {}
  <2>1. \E n \in at : \A m \in at : n <= m
    BY <1>2, <1>5, Least, Zenon
  <2>2. Min(at) \in at /\ \A m \in at : Min(at) <= m
    BY <2>1, Zenon DEF Min
  <2>3. PICK i : i = IndexByte(t, w)
    OBVIOUS
  <2>4. i \in 1..Len(t) /\ t[i] = Letter(w) /\ \A m \in at : i <= m
    BY <1>1, <1>3, <1>5, <2>2, <2>3, Zenon
  <2>5. \A j \in 1..i - 1 : j \in 1..Len(t) /\ ~(i <= j)
    BY <1>1, <2>4
  <2>6. \A j \in 1..i - 1 : t[j] # Letter(w)
    BY <1>1, <2>4, <2>5, Zenon
  <2>7. IsIndex(t, w, i)
    BY <2>4, <2>6, Zenon DEF IsIndex
  <2> QED
    BY <1>1, <2>3, <2>4, <2>7
<1> QED
  BY <1>4, <1>5

\* And nothing else is.
LEMMA IndexEq ==
  ASSUME NEW t \in Seq(Letters), NEW w, NEW i, IsIndex(t, w, i)
  PROVE  IndexByte(t, w) = i
<1>1. PICK k : k = IndexByte(t, w)
  OBVIOUS
<1>2. IsIndex(t, w, k)
  BY <1>1, IndexIs, Zenon
<1>3. PICK x : x = Letter(w)
  OBVIOUS
<1>4. \/ i = 0 /\ \A j \in 1..Len(t) : t[j] # x
      \/ i \in 1..Len(t) /\ t[i] = x /\ \A j \in 1..i - 1 : t[j] # x
  BY <1>3 DEF IsIndex
<1>5. \/ k = 0 /\ \A j \in 1..Len(t) : t[j] # x
      \/ k \in 1..Len(t) /\ t[k] = x /\ \A j \in 1..k - 1 : t[j] # x
  BY <1>2, <1>3 DEF IsIndex
<1>6. Len(t) \in Nat
  OBVIOUS
<1> QED
  BY <1>1, <1>4, <1>5, <1>6

-----------------------------------------------------------------------------
(* Split and Join.                                                         *)

NoneOf(t, w) == \A j \in 1..Len(t) : t[j] # Letter(w)

\* Lists of one or more texts without w.
PieceLists(w) == {ts \in Seq(Seq(Letters)) : ts # <<>> /\ \A i \in 1..Len(ts) : NoneOf(ts[i], w)}

\* The last text of ts with p at its end.
AddLast(ts, p) == [i \in 1..Len(ts) |-> IF i = Len(ts) THEN ts[i] \o p ELSE ts[i]]

\* It is one more list of texts.
LEMMA AddLastType ==
  ASSUME NEW w, NEW ts \in PieceLists(w), NEW p \in Seq(Letters), NoneOf(p, w)
  PROVE  AddLast(ts, p) \in PieceLists(w)
<1>1. ts \in Seq(Seq(Letters)) /\ ts # <<>> /\ \A i \in 1..Len(ts) : NoneOf(ts[i], w)
  BY Zenon DEF PieceLists
<1>2. PICK n \in Nat : n = Len(ts) /\ n # 0
  BY <1>1
<1>3. PICK g : g = AddLast(ts, p)
  OBVIOUS
<1>4. g = [i \in 1..n |-> IF i = n THEN ts[i] \o p ELSE ts[i]]
  BY <1>2, <1>3 DEF AddLast
<1>5. \A i \in 1..n : ts[i] \in Seq(Letters) /\ ts[i] \o p \in Seq(Letters)
  BY <1>1, <1>2
<1>6. \A i \in 1..n : g[i] \in Seq(Letters)
  BY <1>4, <1>5, Zenon
<1>7. g \in Seq(Seq(Letters)) /\ Len(g) = n
  <2>1. g = [i \in 1..n |-> g[i]]
    BY <1>4, Zenon
  <2> QED
    BY <1>6, <2>1, MadeOf, Zenon
<1>8. ASSUME NEW t \in Seq(Letters), NoneOf(t, w)
      PROVE  NoneOf(t \o p, w)
  <2>1. PICK x : x = Letter(w)
    OBVIOUS
  <2>2. (\A j \in 1..Len(t) : t[j] # x) /\ (\A j \in 1..Len(p) : p[j] # x)
    BY <1>8, <2>1, Zenon DEF NoneOf
  <2>3. \A j \in 1..Len(t \o p) : (t \o p)[j] # x
    BY <2>2
  <2> QED
    BY <2>1, <2>3, Zenon DEF NoneOf
<1>9. \A i \in 1..n : NoneOf(g[i], w)
  BY <1>1, <1>2, <1>4, <1>5, <1>8, Zenon
<1>10. g # <<>>
  BY <1>2, <1>7
<1> QED
  BY <1>3, <1>7, <1>9, <1>10, Zenon DEF PieceLists

\* So is what one turn of Split makes.
LEMMA SplitOneIs ==
  ASSUME NEW w, NEW ts \in PieceLists(w), NEW l \in Letters
  PROVE  /\ SplitOne(ts, l, w) \in PieceLists(w)
         /\ SplitOne(ts, l, w) = IF l = Letter(w) THEN Append(ts, <<>>) ELSE AddLast(ts, <<l>>)
<1>1. ts \in Seq(Seq(Letters)) /\ ts # <<>> /\ \A i \in 1..Len(ts) : NoneOf(ts[i], w)
  BY Zenon DEF PieceLists
<1>2. PICK n \in Nat : n = Len(ts) /\ n # 0
  BY <1>1
<1>3. CASE l = Letter(w)
  <2>1. PICK e : e = <<>>
    OBVIOUS
  <2>2. e \in Seq(Letters) /\ Len(e) = 0
    BY <2>1
  <2>3. PICK a : a = Append(ts, e)
    OBVIOUS
  <2>4. a \in Seq(Seq(Letters)) /\ Extends(a, ts, e, n)
    BY <1>1, <1>2, <2>2, <2>3, AppendIs, Zenon
  <2>5. Len(a) = n + 1 /\ a[n + 1] = e /\ \A i \in 1..n : a[i] = ts[i]
    BY <2>4, Zenon DEF Extends
  <2>6. \A i \in 1..n + 1 : i = n + 1 \/ i \in 1..n
    OBVIOUS
  <2>7. NoneOf(e, w)
    BY <2>2 DEF NoneOf
  <2>8. \A i \in 1..n + 1 : NoneOf(a[i], w)
    BY <1>1, <1>2, <2>5, <2>6, <2>7, Zenon
  <2>9. a # <<>>
    BY <2>4, <2>5
  <2>10. a \in PieceLists(w)
    BY <2>4, <2>5, <2>8, <2>9, Zenon DEF PieceLists
  <2> QED
    BY <1>3, <2>1, <2>3, <2>10, Zenon DEF SplitOne
<1>4. CASE l # Letter(w)
  <2>1. PICK p : p = <<l>>
    OBVIOUS
  <2>2. p \in Seq(Letters) /\ Len(p) = 1 /\ p[1] = l
    BY <2>1
  <2>3. NoneOf(p, w)
    <3>1. \A j \in 1..1 : j = 1
      OBVIOUS
    <3> QED
      BY <1>4, <2>2, <3>1, Zenon DEF NoneOf
  <2>4. AddLast(ts, p) \in PieceLists(w)
    BY <2>2, <2>3, AddLastType, Zenon
  <2>5. SplitOne(ts, l, w) = [ts EXCEPT ![Len(ts)] = Append(@, l)]
    BY <1>4, Zenon DEF SplitOne
  <2>6. ts[n] \in Seq(Letters) /\ DOMAIN ts = 1..n
    BY <1>1, <1>2
  <2>7. Append(ts[n], l) = ts[n] \o p
    BY <2>1, <2>6
  <2>8. [ts EXCEPT ![n] = Append(@, l)] = [i \in 1..n |-> IF i = n THEN Append(ts[n], l) ELSE ts[i]]
    BY <2>6, Zenon
  <2>9. AddLast(ts, p) = [i \in 1..n |-> IF i = n THEN ts[i] \o p ELSE ts[i]]
    BY <1>2, Zenon DEF AddLast
  <2>10. [i \in 1..n |-> IF i = n THEN Append(ts[n], l) ELSE ts[i]]
           = [i \in 1..n |-> IF i = n THEN ts[i] \o p ELSE ts[i]]
    BY <2>7, Zenon
  <2> QED
    BY <1>2, <1>4, <2>1, <2>4, <2>5, <2>8, <2>9, <2>10, Zenon
<1> QED
  BY <1>3, <1>4

\* The function Split is defined with: the texts after each letter.
IsSplit(f, t, w) ==
  f = [i \in 0..Len(t) |-> IF i = 0 THEN <<<<>>>> ELSE SplitOne(f[i - 1], t[i], w)]

\* Its values.
Splits(f, t, w, n) ==
  /\ Split(t, w) = f[n] /\ f[0] = <<<<>>>> /\ f[n] \in PieceLists(w)
  /\ \A i \in Nat : i + 1 <= n => f[i + 1] = SplitOne(f[i], t[i + 1], w)

\* There are such values.
LEMMA SplitIs ==
  ASSUME NEW t \in Seq(Letters), NEW w
  PROVE  \E f : Splits(f, t, w, Len(t))
<1>1. PICK n \in Nat : n = Len(t)
  OBVIOUS
<1>2. PICK S : S = PieceLists(w)
  OBVIOUS
<1>3. PICK base : base = <<<<>>>>
  OBVIOUS
<1>4. base \in S
  <2>1. base \in Seq(Seq(Letters)) /\ Len(base) = 1 /\ base[1] = <<>> /\ Len(<<>>) = 0 /\ base # <<>>
    BY <1>3
  <2>2. \A i \in 1..1 : i = 1
    OBVIOUS
  <2>3. NoneOf(<<>>, w)
    BY <2>1 DEF NoneOf
  <2> QED
    BY <1>2, <2>1, <2>2, <2>3, Zenon DEF PieceLists
<1>5. PICK F : F = [i \in 1..n |-> [ts \in S |-> SplitOne(ts, t[i], w)]]
  OBVIOUS
<1>6. \A i \in 1..n : F[i] \in [S -> S]
  <2>1. \A i \in 1..n : t[i] \in Letters
    BY <1>1
  <2>2. \A i \in 1..n, ts \in S : SplitOne(ts, t[i], w) \in S
    BY <1>2, <2>1, SplitOneIs, Zenon
  <2> QED
    BY <1>5, <2>2, Zenon
<1>7. PICK f \in [0..n -> S] : Unrolls(f, F, base, n)
  BY <1>4, <1>6, LoopExists, Zenon
<1>8. ASSUME NEW j \in Nat, j + 1 <= n
      PROVE  f[j + 1] = SplitOne(f[j], t[j + 1], w)
  <2>1. j \in 0..n /\ j + 1 \in 1..n
    BY <1>8
  <2>2. f[j + 1] = F[j + 1][f[j]]
    BY <1>7, <1>8, Zenon DEF Unrolls
  <2>3. f[j] \in S
    BY <2>1
  <2> QED
    BY <1>5, <2>1, <2>2, <2>3, Zenon
<1>9. \E g : IsSplit(g, t, w)
  <2>1. f = [i \in 0..n |-> f[i]]
    OBVIOUS
  <2>2. ASSUME NEW i \in 0..n
        PROVE  f[i] = IF i = 0 THEN base ELSE SplitOne(f[i - 1], t[i], w)
    <3>1. CASE i = 0
      BY <1>7, <3>1, Zenon DEF Unrolls
    <3>2. CASE i # 0
      <4>1. PICK j \in Nat : i = j + 1 /\ j = i - 1 /\ j + 1 <= n
        BY <3>2, i - 1 \in Nat
      <4> QED
        BY <1>8, <3>2, <4>1, Zenon
    <3> QED
      BY <3>1, <3>2
  <2> QED
    BY <1>1, <1>3, <2>1, <2>2, Zenon DEF IsSplit
<1> DEFINE g == CHOOSE g : IsSplit(g, t, w)
<1>10. IsSplit(g, t, w)
  BY <1>9, Zenon
<1>11. Split(t, w) = g[n]
  BY <1>1, Zenon DEF Split, IsSplit
<1> HIDE DEF g
<1>12. \A i \in 0..n : g[i] = IF i = 0 THEN <<<<>>>> ELSE SplitOne(g[i - 1], t[i], w)
  BY <1>1, <1>10, Zenon DEF IsSplit
<1>13. 0 \in 0..n /\ \A i \in Nat : i + 1 <= n => i + 1 \in 0..n /\ i + 1 # 0 /\ (i + 1) - 1 = i
  OBVIOUS
<1>14. g[0] = base /\ \A i \in Nat : i + 1 <= n => g[i + 1] = SplitOne(g[i], t[i + 1], w)
  BY <1>3, <1>12, <1>13, Zenon
<1>15. f[n] = g[n]
  <2>1. f[0] = g[0]
    BY <1>7, <1>14, Zenon DEF Unrolls
  <2>2. \A i \in Nat : i + 1 <= n /\ f[i] = g[i] => f[i + 1] = g[i + 1]
    BY <1>8, <1>14, Zenon
  <2> QED
    <3>1. InStep(f, g, n)
      BY <2>1, <2>2, Zenon DEF InStep
    <3> QED
      BY <3>1, LoopsAgree, Zenon
<1>16. g[n] \in PieceLists(w)
  <2>1. n \in 0..n
    OBVIOUS
  <2> QED
    BY <1>2, <1>15, <2>1, Zenon
<1> QED
  BY <1>1, <1>3, <1>11, <1>14, <1>16, Zenon DEF Splits

\* Nothing is one empty text.
LEMMA SplitEmpty == \A w : Split(<<>>, w) = <<<<>>>>
<1> TAKE w
<1>1. PICK t : t = <<>>
  OBVIOUS
<1>2. t \in Seq(Letters) /\ Len(t) = 0
  BY <1>1
<1>3. PICK f : Splits(f, t, w, Len(t))
  BY <1>2, SplitIs, Zenon
<1> QED
  BY <1>1, <1>2, <1>3, Zenon DEF Splits

\* The texts have no separator.
LEMMA SplitType ==
  ASSUME NEW t \in Seq(Letters), NEW w
  PROVE  Split(t, w) \in PieceLists(w)
<1>1. PICK f : Splits(f, t, w, Len(t))
  BY SplitIs, Zenon
<1> QED
  BY <1>1, Zenon DEF Splits

\* The last letter is added last.
LEMMA SplitAppend ==
  ASSUME NEW t \in Seq(Letters), NEW w, NEW l \in Letters
  PROVE  Split(Append(t, l), w) = SplitOne(Split(t, w), l, w)
<1>1. PICK n \in Nat : n = Len(t)
  OBVIOUS
<1>2. PICK u : u = Append(t, l)
  OBVIOUS
<1>3. u \in Seq(Letters) /\ Extends(u, t, l, n)
  BY <1>1, <1>2, AppendIs, Zenon
<1>4. Len(u) = n + 1 /\ u[n + 1] = l /\ \A i \in 1..n : u[i] = t[i]
  BY <1>3, Zenon DEF Extends
<1>5. PICK f : Splits(f, u, w, Len(u))
  BY <1>3, SplitIs, Zenon
<1>6. PICK g : Splits(g, t, w, Len(t))
  BY SplitIs, Zenon
<1>7. f[0] = g[0]
  BY <1>5, <1>6, Zenon DEF Splits
<1>8. ASSUME NEW i \in Nat, i + 1 <= n, f[i] = g[i]
      PROVE  f[i + 1] = g[i + 1]
  <2>1. i + 1 <= n + 1 /\ i + 1 \in 1..n
    BY <1>8
  <2>2. f[i + 1] = SplitOne(f[i], u[i + 1], w)
    BY <1>4, <1>5, <2>1, Zenon DEF Splits
  <2>3. g[i + 1] = SplitOne(g[i], t[i + 1], w)
    BY <1>1, <1>6, <1>8, Zenon DEF Splits
  <2> QED
    BY <1>4, <1>8, <2>1, <2>2, <2>3, Zenon
<1>9. f[n] = g[n]
  <2>1. InStep(f, g, n)
    BY <1>7, <1>8, Zenon DEF InStep
  <2> QED
    BY <1>1, <2>1, LoopsAgree, Zenon
<1>10. n + 1 <= n + 1
  OBVIOUS
<1>11. f[n + 1] = SplitOne(f[n], l, w)
  BY <1>4, <1>5, <1>10, Zenon DEF Splits
<1> QED
  BY <1>1, <1>2, <1>4, <1>5, <1>6, <1>9, <1>11, Zenon DEF Splits

\* Letters that are not the separator stay together.
LEMMA SplitRun ==
  ASSUME NEW t \in Seq(Letters), NEW w, NEW p \in Seq(Letters), NoneOf(p, w)
  PROVE  Split(t \o p, w) = AddLast(Split(t, w), p)
<1> DEFINE T == {q \in Seq(Letters) : NoneOf(q, w) => Split(t \o q, w) = AddLast(Split(t, w), q)}
<1>1. PICK ts : ts = Split(t, w)
  OBVIOUS
<1>2. ts \in PieceLists(w)
  BY <1>1, SplitType, Zenon
<1>3. ts \in Seq(Seq(Letters)) /\ ts # <<>>
  BY <1>2, Zenon DEF PieceLists
<1>4. PICK n \in Nat : n = Len(ts) /\ n # 0
  BY <1>3
<1>5. ts = [i \in 1..n |-> ts[i]] /\ \A i \in 1..n : ts[i] \in Seq(Letters)
  BY <1>3, <1>4
<1>6. <<>> \in T
  <2>1. PICK q : q = <<>>
    OBVIOUS
  <2>2. q \in Seq(Letters) /\ t \o q = t
    BY <2>1
  <2>3. \A i \in 1..n : ts[i] \o q = ts[i]
    BY <1>5, <2>1
  <2>4. AddLast(ts, q) = [i \in 1..n |-> IF i = n THEN ts[i] \o q ELSE ts[i]]
    BY <1>4, Zenon DEF AddLast
  <2>5. [i \in 1..n |-> IF i = n THEN ts[i] \o q ELSE ts[i]] = [i \in 1..n |-> ts[i]]
    BY <2>3, Zenon
  <2> QED
    BY <1>1, <1>5, <2>1, <2>2, <2>4, <2>5, Zenon
<1>7. ASSUME NEW q \in Seq(Letters), NEW l \in Letters, q \in T
      PROVE  Append(q, l) \in T
  <2>1. PICK r : r = Append(q, l)
    OBVIOUS
  <2>2. r \in Seq(Letters) /\ Extends(r, q, l, Len(q))
    BY <2>1, AppendIs, Zenon
  <2> SUFFICES ASSUME NoneOf(r, w)
               PROVE  Split(t \o r, w) = AddLast(ts, r)
    BY <1>1, <2>1, <2>2, Zenon
  <2>3. NoneOf(q, w) /\ l # Letter(w)
    <3>1. Len(r) = Len(q) + 1 /\ r[Len(q) + 1] = l /\ \A i \in 1..Len(q) : r[i] = q[i]
      BY <2>2, Zenon DEF Extends
    <3>2. Len(q) + 1 \in 1..Len(q) + 1 /\ \A i \in 1..Len(q) : i \in 1..Len(q) + 1
      OBVIOUS
    <3> QED
      BY <3>1, <3>2, Zenon DEF NoneOf
  <2>4. PICK u : u = AddLast(ts, q)
    OBVIOUS
  <2>5. Split(t \o q, w) = u
    BY <1>1, <1>7, <2>3, <2>4, Zenon
  <2>6. u \in PieceLists(w)
    BY <1>2, <2>3, <2>4, AddLastType, Zenon
  <2>7. PICK v : v = t \o q
    OBVIOUS
  <2>8. v \in Seq(Letters) /\ t \o r = Append(v, l)
    BY <2>1, <2>7
  <2>9. Split(Append(v, l), w) = SplitOne(Split(v, w), l, w)
    BY <2>8, SplitAppend, Zenon
  <2>10. SplitOne(u, l, w) = AddLast(u, <<l>>)
    BY <2>3, <2>6, SplitOneIs, Zenon
  <2>11. u = [i \in 1..n |-> IF i = n THEN ts[i] \o q ELSE ts[i]]
    BY <1>4, <2>4, Zenon DEF AddLast
  <2>12. Len(u) = n
    BY <2>11
  <2>13. AddLast(u, <<l>>) = [i \in 1..n |-> IF i = n THEN u[i] \o <<l>> ELSE u[i]]
    BY <2>12, Zenon DEF AddLast
  <2>14. AddLast(ts, r) = [i \in 1..n |-> IF i = n THEN ts[i] \o r ELSE ts[i]]
    BY <1>4, Zenon DEF AddLast
  <2>15. \A i \in 1..n : (ts[i] \o q) \o <<l>> = ts[i] \o r
    <3>1. ASSUME NEW x \in Seq(Letters)
          PROVE  (x \o q) \o <<l>> = x \o r
      <4>0. <<l>> \in Seq(Letters)
        OBVIOUS
      <4>1. PICK y \in Seq(Letters) : y = <<l>>
        BY <4>0, Zenon
      <4>2. r = q \o y
        BY <2>1, <4>1
      <4>3. (x \o q) \o y = x \o (q \o y)
        OBVIOUS
      <4> QED
        BY <4>1, <4>2, <4>3, Zenon
    <3> QED
      BY <1>5, <3>1, Zenon
  <2>16. \A i \in 1..n : (IF i = n THEN u[i] \o <<l>> ELSE u[i]) = IF i = n THEN ts[i] \o r ELSE ts[i]
    BY <2>11, <2>15, Zenon
  <2>17. AddLast(u, <<l>>) = AddLast(ts, r)
    BY <2>13, <2>14, <2>16, Zenon
  <2> QED
    BY <2>5, <2>7, <2>8, <2>9, <2>10, <2>17, Zenon
<1> HIDE DEF T
<1>8. Seq(Letters) \subseteq T
  BY <1>6, <1>7, SeqInduct
<1> QED
  BY <1>8, Zenon DEF T

\* A text without the separator is the only one.
LEMMA SplitWhole ==
  ASSUME NEW w, NEW p \in Seq(Letters), NoneOf(p, w)
  PROVE  Split(p, w) = <<p>>
<1>1. PICK e : e = <<>>
  OBVIOUS
<1>2. e \in Seq(Letters) /\ e \o p = p
  BY <1>1
<1>3. Split(e \o p, w) = AddLast(Split(e, w), p)
  BY <1>2, SplitRun, Zenon
<1>4. PICK b : b = <<e>>
  OBVIOUS
<1>5. Len(b) = 1 /\ b[1] \o p = p
  BY <1>2, <1>4
<1>6. AddLast(b, p) = [i \in 1..1 |-> IF i = 1 THEN b[i] \o p ELSE b[i]]
  BY <1>5, Zenon DEF AddLast
<1>7. \A i \in 1..1 : (IF i = 1 THEN b[i] \o p ELSE b[i]) = p
  BY <1>5
<1>8. AddLast(b, p) = [i \in 1..1 |-> p]
  BY <1>6, <1>7, Zenon
<1>9. [i \in 1..1 |-> p] = <<p>>
  OBVIOUS
<1> QED
  BY <1>1, <1>2, <1>3, <1>4, <1>8, <1>9, SplitEmpty, Zenon

\* t is ps with p joined to it.
JoinGrows(t, ps, p, sep) ==
  Join(t, sep) = Join(ps, sep) \o (IF ps = <<>> THEN p ELSE sep \o p)

\* Text by text.
LEMMA JoinAppend ==
  ASSUME NEW X, NEW ps \in Seq(Seq(X)), NEW p \in Seq(X), NEW sep \in Seq(X)
  PROVE  Join(ps, sep) \in Seq(X) /\ JoinGrows(Append(ps, p), ps, p, sep)
<1> DEFINE Turns(l) == [i \in 1..Len(l) |-> IF i = 1 THEN l[i] ELSE sep \o l[i]]
<1>1. PICK tt : tt = Append(ps, p)
  OBVIOUS
<1>2. PICK n \in Nat : n = Len(ps) /\ (n = 0 <=> ps = <<>>)
  OBVIOUS
<1>3. tt \in Seq(Seq(X)) /\ Extends(tt, ps, p, n)
  BY <1>1, <1>2, AppendIs, Zenon
<1>4. Len(tt) = n + 1 /\ tt[n + 1] = p /\ \A i \in 1..n : tt[i] = ps[i]
  BY <1>3, Zenon DEF Extends
<1>5. PICK u : u = Turns(ps)
  OBVIOUS
<1>6. PICK e : e = IF ps = <<>> THEN p ELSE sep \o p
  OBVIOUS
<1>7. sep \o p \in Seq(X) /\ \A i \in 1..n : ps[i] \in Seq(X) /\ sep \o ps[i] \in Seq(X)
  BY <1>2
<1>8. e \in Seq(X)
  BY <1>6, <1>7, Zenon
<1>9. u \in Seq(Seq(X)) /\ Len(u) = n
  <2>1. \A i \in 1..n : u[i] \in Seq(X)
    BY <1>2, <1>5, <1>7, Zenon
  <2>2. u = [i \in 1..n |-> u[i]]
    BY <1>2, <1>5, Zenon
  <2> QED
    BY <2>1, <2>2, MadeOf, Zenon
<1>10. Turns(tt) = Append(u, e)
  <2>1. PICK a : a = Append(u, e)
    OBVIOUS
  <2>2. Extends(a, u, e, n)
    BY <1>8, <1>9, <2>1, AppendIs, Zenon
  <2>3. a = [i \in 1..n + 1 |-> a[i]] /\ a[n + 1] = e /\ \A i \in 1..n : a[i] = u[i]
    BY <2>2, Zenon DEF Extends
  <2>4. (n + 1 = 1 <=> n = 0) /\ \A i \in 1..n + 1 : i # n + 1 => i \in 1..n
    OBVIOUS
  <2>5. \A i \in 1..n + 1 : a[i] = IF i = 1 THEN tt[i] ELSE sep \o tt[i]
    <3> TAKE i \in 1..n + 1
    <3>1. CASE i = n + 1
      BY <1>2, <1>4, <1>6, <2>3, <2>4, <3>1, Zenon
    <3>2. CASE i # n + 1
      <4>1. i \in 1..n
        BY <2>4, <3>2, Zenon
      <4>2. u[i] = IF i = 1 THEN ps[i] ELSE sep \o ps[i]
        BY <1>2, <1>5, <4>1, Zenon
      <4>3. a[i] = u[i] /\ tt[i] = ps[i]
        BY <1>4, <2>3, <4>1, Zenon
      <4> QED
        BY <4>2, <4>3, Zenon
    <3> QED
      BY <3>1, <3>2
  <2> QED
    BY <1>4, <2>1, <2>3, <2>5, Zenon
<1>11. Join(tt, sep) = Flatten(u) \o e
  BY <1>8, <1>9, <1>10, FlattenAppend, Zenon DEF Join
<1>12. Join(ps, sep) = Flatten(u)
  BY <1>5, Zenon DEF Join
<1>13. Flatten(u) \in Seq(X)
  BY <1>9, FlattenType, Zenon
<1> QED
  BY <1>1, <1>6, <1>11, <1>12, <1>13, Zenon DEF JoinGrows

\* Nothing to join.
LEMMA JoinEmpty == \A sep : Join(<<>>, sep) = <<>>
<1> TAKE sep
<1>1. [i \in 1..Len(<<>>) |-> IF i = 1 THEN (<<>>)[i] ELSE sep \o (<<>>)[i]] = <<>>
  OBVIOUS
<1> QED
  BY <1>1, FlattenEmpty, Zenon DEF Join

\* What Letter makes.
LEMMA LetterIn == \A w \in Words : Letter(w) \in Letters
  BY DEF Letter, Letters

\* Split takes apart what Join has put together.
LEMMA SplitJoin ==
  ASSUME NEW w \in Words, NEW ps \in PieceLists(w)
  PROVE  Split(Join(ps, <<Letter(w)>>), w) = ps
<1> DEFINE Good(q) == \A i \in 1..Len(q) : NoneOf(q[i], w)
           T == {q \in Seq(Seq(Letters)) :
                   q # <<>> /\ Good(q) => Split(Join(q, <<Letter(w)>>), w) = q}
<1>0. PICK x \in Letters : x = Letter(w)
  BY LetterIn, Zenon
<1>1. PICK sep \in Seq(Letters) : sep = <<x>>
  <2>1. <<x>> \in Seq(Letters)
    OBVIOUS
  <2> QED
    BY <2>1, Zenon
<1>2. <<>> \in T
  <2>1. <<>> \in Seq(Seq(Letters))
    OBVIOUS
  <2> QED
    BY <2>1, Zenon
<1>3. ASSUME NEW q \in Seq(Seq(Letters)), NEW p \in Seq(Letters), q \in T
      PROVE  Append(q, p) \in T
  <2>1. PICK r : r = Append(q, p)
    OBVIOUS
  <2>2. PICK n \in Nat : n = Len(q)
    OBVIOUS
  <2>3. r \in Seq(Seq(Letters)) /\ Extends(r, q, p, n)
    BY <2>1, <2>2, AppendIs, Zenon
  <2>4. Len(r) = n + 1 /\ r[n + 1] = p /\ \A i \in 1..n : r[i] = q[i]
    BY <2>3, Zenon DEF Extends
  <2> SUFFICES ASSUME Good(r)
               PROVE  Split(Join(r, sep), w) = r
    BY <1>0, <1>1, <2>1, <2>3, Zenon
  <2>5. Good(q) /\ NoneOf(p, w)
    <3>1. n + 1 \in 1..n + 1 /\ \A i \in 1..n : i \in 1..n + 1
      OBVIOUS
    <3> QED
      BY <2>2, <2>4, <3>1, Zenon
  <2>6. Join(q, sep) \in Seq(Letters)
    BY JoinAppend, Zenon
  <2>7. Join(r, sep) = Join(q, sep) \o (IF q = <<>> THEN p ELSE sep \o p)
    <3>1. JoinGrows(Append(q, p), q, p, sep)
      BY JoinAppend, Zenon
    <3> QED
      BY <2>1, <3>1, Zenon DEF JoinGrows
  <2>8. CASE q = <<>>
    <3>1. <<>> \o p = p /\ Append(<<>>, p) = <<p>>
      OBVIOUS
    <3>2. Join(r, sep) = p
      BY <2>7, <2>8, <3>1, JoinEmpty, Zenon
    <3>3. Split(p, w) = <<p>>
      BY <2>5, SplitWhole, Zenon
    <3> QED
      BY <2>1, <2>8, <3>1, <3>2, <3>3, Zenon
  <2>9. CASE q # <<>>
    <3>1. PICK j \in Seq(Letters) : j = Join(q, sep)
      BY <2>6, Zenon
    <3>2. Split(j, w) = q
      BY <1>0, <1>1, <1>3, <2>5, <2>9, <3>1, Zenon
    <3>3. PICK k : k = Append(j, x)
      OBVIOUS
    <3>4. k \in Seq(Letters) /\ k \o p = j \o (sep \o p)
      <4>1. k \in Seq(Letters) /\ k = j \o sep
        BY <1>1, <3>3
      <4>2. (j \o sep) \o p = j \o (sep \o p)
        OBVIOUS
      <4> QED
        BY <4>1, <4>2, Zenon
    <3>5. q \in PieceLists(w)
      BY <2>5, <2>9, Zenon DEF PieceLists
    <3>6. Split(k, w) = Append(q, <<>>)
      <4>1. Split(Append(j, x), w) = SplitOne(Split(j, w), x, w)
        BY SplitAppend, Zenon
      <4>2. SplitOne(q, x, w) = Append(q, <<>>)
        BY <1>0, Zenon DEF SplitOne
      <4> QED
        BY <3>2, <3>3, <4>1, <4>2, Zenon
    <3>7. Split(k \o p, w) = AddLast(Append(q, <<>>), p)
      <4>1. Split(k \o p, w) = AddLast(Split(k, w), p)
        BY <2>5, <3>4, SplitRun, Zenon
      <4> QED
        BY <3>6, <4>1, Zenon
    <3>8. AddLast(Append(q, <<>>), p) = r
      <4>1. PICK e \in Seq(Letters) : e = <<>>
        <5>1. <<>> \in Seq(Letters)
          OBVIOUS
        <5> QED
          BY <5>1, Zenon
      <4>2. PICK a : a = Append(q, e)
        OBVIOUS
      <4>3. Extends(a, q, e, n)
        BY <2>2, <4>2, AppendIs, Zenon
      <4>4. Len(a) = n + 1 /\ a[n + 1] = e /\ \A i \in 1..n : a[i] = q[i]
        BY <4>3, Zenon DEF Extends
      <4>5. e \o p = p
        BY <4>1
      <4>6. AddLast(a, p) = [i \in 1..n + 1 |-> IF i = n + 1 THEN a[i] \o p ELSE a[i]]
        BY <4>4, Zenon DEF AddLast
      <4>7. \A i \in 1..n + 1 : i # n + 1 => i \in 1..n
        OBVIOUS
      <4>8. \A i \in 1..n + 1 : (IF i = n + 1 THEN a[i] \o p ELSE a[i]) = r[i]
        BY <2>4, <4>4, <4>5, <4>7, Zenon
      <4>9. r = [i \in 1..n + 1 |-> r[i]]
        BY <2>3, Zenon DEF Extends
      <4> QED
        BY <4>1, <4>2, <4>6, <4>8, <4>9, Zenon
    <3> QED
      BY <2>7, <2>9, <3>1, <3>4, <3>7, <3>8, Zenon
  <2> QED
    BY <2>8, <2>9
<1> HIDE DEF T
<1>4. Seq(Seq(Letters)) \subseteq T
  BY <1>2, <1>3, SeqInduct
<1>5. ps \in Seq(Seq(Letters)) /\ ps # <<>> /\ Good(ps)
  BY Zenon DEF PieceLists
<1> QED
  BY <1>4, <1>5, Zenon DEF T

-----------------------------------------------------------------------------
(* Names, and what Envoy sends.                                            *)

\* The spellings of a name.
LEMMA Spellings ==
  ASSUME NEW k \in HeaderNames
  PROVE  /\ Canonical(k) \in HeaderNames /\ Canonical(Canonical(k)) = Canonical(k)
         /\ Lower(k) = Letter(k.word) /\ Lower(k).word = k.word
         /\ Canonical(Lower(k)) = Canonical(k) /\ Lower(Canonical(k)) = Lower(k)
         /\ Lower(k) \in HeaderNames /\ Lower(Lower(k)) = Lower(k)
<1>1. k.word \in Words /\ k.form \in {"lower", "canonical"} /\ k = [word |-> k.word, form |-> k.form]
  BY DEF HeaderNames
<1>2. PICK x, f : x = k.word /\ f = k.form
  BY Zenon
<1>3. x \in Words /\ (f = "lower" \/ f = "canonical") /\ k = [word |-> x, form |-> f]
  BY <1>1, <1>2
<1> QED
  BY <1>3 DEF HeaderNames, Canonical, Lower, Letter

\* Letters in lower case, and their words.
LEMMA LetterWords ==
  ASSUME NEW w
  PROVE  Letter(w).word = w /\ Lower(Letter(w)) = Letter(w) /\ Canonical(Letter(w)).word = w
  BY DEF Letter, Lower, Canonical

\* A value is found in the field it was put in.
LEMMA PutVal ==
  ASSUME NEW k, NEW v, NEW raw \in BOOLEAN
  PROVE  Put(k, v, raw).key = k /\ Val(Put(k, v, raw)) = v
  BY DEF Put, Val

\* What is sent for a client's request: four pseudo-headers and the headers.
WireShape(hs, c, raw) ==
  /\ Len(hs) = Len(c.headers) + 4 /\ DOMAIN hs = 1..Len(c.headers) + 4
  /\ hs[1] = Put(Letter(":method"), c.method, raw)
  /\ hs[2] = Put(Letter(":scheme"), c.scheme, raw)
  /\ hs[3] = Put(Letter(":authority"), c.authority, raw)
  /\ hs[4] = Put(Letter(":path"), Target(c), raw)
  /\ \A i \in 1..Len(c.headers) : hs[i + 4] = Put(c.headers[i].key, c.headers[i].value, raw)

\* A sequence after four elements.
FourThen(s, a, b, d, e, q) ==
  /\ Len(s) = Len(q) + 4 /\ DOMAIN s = 1..Len(q) + 4
  /\ s[1] = a /\ s[2] = b /\ s[3] = d /\ s[4] = e
  /\ \A i \in 1..Len(q) : s[i + 4] = q[i]

\* Four elements, then a sequence.
LEMMA FourAndMore ==
  ASSUME NEW X, NEW a \in X, NEW b \in X, NEW d \in X, NEW e \in X, NEW q \in Seq(X)
  PROVE  FourThen(<<a, b, d, e>> \o q, a, b, d, e, q)
  BY DEF FourThen

\* The fields of a client's request.
LEMMA ClientFields ==
  ASSUME NEW c, IsClient(c)
  PROVE  /\ c.method \in Seq(Letters) /\ c.authority \in Seq(Letters) /\ c.path \in Seq(Letters)
         /\ c.query \in Seq(Letters) /\ c.peer \in Seq(Letters) /\ c.scheme \in Seq(Letters)
         /\ c.headers \in Seq([key : HeaderNames, value : Seq(Letters)])
  BY DEF IsClient

\* Wire has that shape.
LEMMA WireIs ==
  ASSUME NEW c, IsClient(c), NEW raw \in BOOLEAN
  PROVE  WireShape(Wire(c, raw), c, raw)
<1>1. PICK n \in Nat : n = Len(c.headers)
  <2>1. c.headers \in Seq([key : HeaderNames, value : Seq(Letters)])
    BY ClientFields, Zenon
  <2> QED
    BY <2>1, ElementsIn, Zenon
<1>2. PICK q : q = [i \in 1..n |-> Put(c.headers[i].key, c.headers[i].value, raw)]
  OBVIOUS
<1>4. PICK a, b, d, e : /\ a = Put(Letter(":method"), c.method, raw)
                        /\ b = Put(Letter(":scheme"), c.scheme, raw)
                        /\ d = Put(Letter(":authority"), c.authority, raw)
                        /\ e = Put(Letter(":path"), Target(c), raw)
  BY Zenon
<1>3. PICK X : X = {q[i] : i \in 1..n} \cup {a, b, d, e}
  OBVIOUS
<1>5. a \in X /\ b \in X /\ d \in X /\ e \in X
  BY <1>3
<1>6. q \in Seq(X) /\ Len(q) = n
  <2>1. \A i \in 1..n : q[i] \in X
    BY <1>3, Zenon
  <2>2. q = [i \in 1..n |-> q[i]]
    BY <1>2, Zenon
  <2> QED
    BY <2>1, <2>2, MadeOf, Zenon
<1>7. PICK s : s = <<a, b, d, e>> \o q
  OBVIOUS
<1>8. /\ Len(s) = n + 4 /\ DOMAIN s = 1..n + 4
      /\ s[1] = a /\ s[2] = b /\ s[3] = d /\ s[4] = e
      /\ \A i \in 1..n : s[i + 4] = q[i]
  <2>1. FourThen(s, a, b, d, e, q)
    BY <1>5, <1>6, <1>7, FourAndMore, Zenon
  <2> QED
    BY <2>1, <1>6, Zenon DEF FourThen
<1>9. Wire(c, raw) = s
  BY <1>1, <1>2, <1>4, <1>7, Zenon DEF Wire
<1> QED
  BY <1>1, <1>2, <1>4, <1>8, <1>9, Zenon DEF WireShape

\* The last value of a header that was sent once.
LEMMA LastValueAt ==
  ASSUME NEW hs, NEW w, NEW j \in Nat,
         \A i \in DOMAIN hs : Lower(hs[i].key) = Letter(w) <=> i = j, j \in DOMAIN hs
  PROVE  LastValue(hs, w) = Val(hs[j])
<1>1. {i \in DOMAIN hs : Lower(hs[i].key) = Letter(w)} = {j}
  BY Zenon
<1>2. Max({j}) = j
  BY DEF Max
<1>3. {j} # {}
  OBVIOUS
<1> QED
  BY <1>1, <1>2, <1>3, Zenon DEF LastValue

\* The keys of what is sent.
LEMMA WireKeys ==
  ASSUME NEW c, IsClient(c), NEW raw \in BOOLEAN, NEW hs, WireShape(hs, c, raw)
  PROVE  /\ Lower(hs[1].key) = Letter(":method") /\ Lower(hs[2].key) = Letter(":scheme")
         /\ Lower(hs[3].key) = Letter(":authority") /\ Lower(hs[4].key) = Letter(":path")
         /\ \A i \in 1..Len(c.headers) :
              /\ Lower(hs[i + 4].key).word \notin RequestPseudo
              /\ c.headers[i].key \in HeaderNames /\ c.headers[i].value \in Seq(Letters)
<1>1. /\ hs[1].key = Letter(":method") /\ hs[2].key = Letter(":scheme")
      /\ hs[3].key = Letter(":authority") /\ hs[4].key = Letter(":path")
      /\ \A i \in 1..Len(c.headers) : hs[i + 4].key = c.headers[i].key
  <2>1. \A k, v : Put(k, v, raw).key = k
    BY PutVal, Zenon
  <2>2. hs[1].key = Letter(":method")
    BY <2>1, Zenon DEF WireShape
  <2>3. hs[2].key = Letter(":scheme")
    BY <2>1, Zenon DEF WireShape
  <2>4. hs[3].key = Letter(":authority")
    BY <2>1, Zenon DEF WireShape
  <2>5. hs[4].key = Letter(":path")
    BY <2>1, Zenon DEF WireShape
  <2>6. \A i \in 1..Len(c.headers) : hs[i + 4].key = c.headers[i].key
    <3>1. \A i \in 1..Len(c.headers) : hs[i + 4] = Put(c.headers[i].key, c.headers[i].value, raw)
      BY Zenon DEF WireShape
    <3> QED
      BY <2>1, <3>1, Zenon
  <2> QED
    BY <2>2, <2>3, <2>4, <2>5, <2>6, Zenon
<1>2. \A i \in 1..Len(c.headers) : c.headers[i] \in [key : HeaderNames, value : Seq(Letters)]
  BY ClientFields, ElementsIn, Zenon
<1>3. \A i \in 1..Len(c.headers) : c.headers[i].key \in HeaderNames /\ c.headers[i].value \in Seq(Letters)
  <2> TAKE i \in 1..Len(c.headers)
  <2>1. PICK x : x = c.headers[i] /\ x \in [key : HeaderNames, value : Seq(Letters)]
    BY <1>2, Zenon
  <2>2. x.key \in HeaderNames /\ x.value \in Seq(Letters)
    BY <2>1
  <2> QED
    BY <2>1, <2>2, Zenon
<1>4. \A i \in 1..Len(c.headers) : c.headers[i].key.word \notin RequestPseudo
  BY Zenon DEF IsClient
<1>5. \A i \in 1..Len(c.headers) : Lower(hs[i + 4].key).word \notin RequestPseudo
  BY <1>1, <1>3, <1>4, Spellings, Zenon
<1> QED
  BY <1>1, <1>3, <1>5, LetterWords, Zenon

\* Where a pseudo-header is.
LEMMA WireLast ==
  ASSUME NEW c, IsClient(c), NEW raw \in BOOLEAN
  PROVE  LET hs == Wire(c, raw) IN
         /\ LastValue(hs, ":method") = c.method /\ LastValue(hs, ":scheme") = c.scheme
         /\ LastValue(hs, ":authority") = c.authority /\ LastValue(hs, ":path") = Target(c)
<1>1. PICK hs : hs = Wire(c, raw)
  OBVIOUS
<1>2. WireShape(hs, c, raw)
  BY <1>1, WireIs, Zenon
<1>3. PICK n \in Nat : n = Len(c.headers)
  BY ClientFields, ElementsIn, Zenon
<1>4. DOMAIN hs = 1..n + 4
  BY <1>2, <1>3, Zenon DEF WireShape
<1>5. PICK W : W = [i \in 1..n + 4 |-> Lower(hs[i].key)]
  OBVIOUS
<1>6. /\ W[1] = Letter(":method") /\ W[2] = Letter(":scheme")
      /\ W[3] = Letter(":authority") /\ W[4] = Letter(":path")
      /\ \A i \in 1..n : W[i + 4].word \notin RequestPseudo
  <2>1. \A i \in 1..n : Lower(hs[i + 4].key).word \notin RequestPseudo
    BY <1>2, <1>3, WireKeys, Zenon
  <2>2. \A i \in 1..n + 4 : W[i] = Lower(hs[i].key)
    BY <1>5
  <2>3. 1 \in 1..n + 4 /\ 2 \in 1..n + 4 /\ 3 \in 1..n + 4 /\ 4 \in 1..n + 4
        /\ \A i \in 1..n : i + 4 \in 1..n + 4
    OBVIOUS
  <2>4. \A i \in 1..n : W[i + 4].word \notin RequestPseudo
    BY <2>1, <2>2, <2>3, Zenon
  <2>5. /\ Lower(hs[1].key) = Letter(":method") /\ Lower(hs[2].key) = Letter(":scheme")
        /\ Lower(hs[3].key) = Letter(":authority") /\ Lower(hs[4].key) = Letter(":path")
    BY <1>2, WireKeys, Zenon
  <2>6. W[1] = Letter(":method") /\ W[2] = Letter(":scheme")
    BY <2>2, <2>3, <2>5, Zenon
  <2>7. W[3] = Letter(":authority") /\ W[4] = Letter(":path")
    BY <2>2, <2>3, <2>5, Zenon
  <2> QED
    BY <2>4, <2>6, <2>7, Zenon
<1>7. \A i \in 1..n + 4 : i \in 1..4 \/ (i - 4 \in 1..n /\ (i - 4) + 4 = i)
  OBVIOUS
<1>8. \A i \in 1..n + 4 : W[i].word \notin RequestPseudo \/ i \in 1..4
  BY <1>6, <1>7, Zenon
<1>9. \A i \in 1..n + 4 : /\ W[i] = Letter(":method") <=> i = 1
                          /\ W[i] = Letter(":scheme") <=> i = 2
                          /\ W[i] = Letter(":authority") <=> i = 3
                          /\ W[i] = Letter(":path") <=> i = 4
  BY <1>6, <1>8 DEF Letter, RequestPseudo
<1>10. /\ \A i \in DOMAIN hs : Lower(hs[i].key) = Letter(":method") <=> i = 1
       /\ \A i \in DOMAIN hs : Lower(hs[i].key) = Letter(":scheme") <=> i = 2
       /\ \A i \in DOMAIN hs : Lower(hs[i].key) = Letter(":authority") <=> i = 3
       /\ \A i \in DOMAIN hs : Lower(hs[i].key) = Letter(":path") <=> i = 4
  BY <1>4, <1>5, <1>9, Zenon
<1>11. 1 \in DOMAIN hs /\ 2 \in DOMAIN hs /\ 3 \in DOMAIN hs /\ 4 \in DOMAIN hs
       /\ 1 \in Nat /\ 2 \in Nat /\ 3 \in Nat /\ 4 \in Nat
  BY <1>4
<1>12. /\ LastValue(hs, ":method") = Val(hs[1]) /\ LastValue(hs, ":scheme") = Val(hs[2])
       /\ LastValue(hs, ":authority") = Val(hs[3]) /\ LastValue(hs, ":path") = Val(hs[4])
  BY <1>10, <1>11, LastValueAt, Zenon
<1>13. \A k, v : Val(Put(k, v, raw)) = v
  BY PutVal, Zenon
<1>14. Val(hs[1]) = c.method
  <2>1. hs[1] = Put(Letter(":method"), c.method, raw)
    BY <1>2, Zenon DEF WireShape
  <2> QED
    BY <1>13, <2>1, Zenon
<1>15. Val(hs[2]) = c.scheme
  <2>1. hs[2] = Put(Letter(":scheme"), c.scheme, raw)
    BY <1>2, Zenon DEF WireShape
  <2> QED
    BY <1>13, <2>1, Zenon
<1>16. Val(hs[3]) = c.authority
  <2>1. hs[3] = Put(Letter(":authority"), c.authority, raw)
    BY <1>2, Zenon DEF WireShape
  <2> QED
    BY <1>13, <2>1, Zenon
<1>17. Val(hs[4]) = Target(c)
  <2>1. hs[4] = Put(Letter(":path"), Target(c), raw)
    BY <1>2, Zenon DEF WireShape
  <2> QED
    BY <1>13, <2>1, Zenon
<1> QED
  BY <1>1, <1>12, <1>14, <1>15, <1>16, <1>17, Zenon

\* A client's headers as entries of the map.
Entries(c) == [i \in 1..Len(c.headers) |-> Added(c.headers[i].key, c.headers[i].value)]

\* Their type.
LEMMA EntriesType ==
  ASSUME NEW c, IsClient(c)
  PROVE  /\ Entries(c) \in Seq([key : HeaderNames, value : Seq(Letters)])
         /\ Len(Entries(c)) = Len(c.headers) /\ Len(c.headers) \in Nat
         /\ \A i \in 1..Len(c.headers) :
              /\ Entries(c)[i] = Added(c.headers[i].key, c.headers[i].value)
              /\ Entries(c)[i].key = Canonical(c.headers[i].key) /\ c.headers[i].key \in HeaderNames
              /\ Entries(c)[i].value = c.headers[i].value
<1>1. PICK n \in Nat : n = Len(c.headers)
  BY ClientFields, ElementsIn, Zenon
<1>2. PICK u : u = Entries(c)
  OBVIOUS
<1>3. u = [i \in 1..n |-> u[i]]
  BY <1>1, <1>2 DEF Entries
<1>4. \A i \in 1..n : u[i] = Added(c.headers[i].key, c.headers[i].value)
  BY <1>1, <1>2, Zenon DEF Entries
<1>5. \A i \in 1..n : c.headers[i].key \in HeaderNames /\ c.headers[i].value \in Seq(Letters)
  BY <1>1, WireIs, WireKeys, Zenon
<1>6. \A i \in 1..n : u[i] \in [key : HeaderNames, value : Seq(Letters)]
                     /\ u[i].key = Canonical(c.headers[i].key) /\ u[i].value = c.headers[i].value
  <2> TAKE i \in 1..n
  <2>1. PICK k \in HeaderNames, v \in Seq(Letters) : k = Canonical(c.headers[i].key) /\ v = c.headers[i].value
    <3>1. Canonical(c.headers[i].key) \in HeaderNames /\ c.headers[i].value \in Seq(Letters)
      BY <1>5, Spellings, Zenon
    <3> QED
      BY <3>1, Zenon
  <2>2. u[i] = [key |-> k, value |-> v]
    BY <1>4, <2>1, Zenon DEF Added
  <2> QED
    BY <2>1, <2>2
<1>7. u \in Seq([key : HeaderNames, value : Seq(Letters)]) /\ Len(u) = n
  <2>1. PICK E : E = [key : HeaderNames, value : Seq(Letters)]
    OBVIOUS
  <2>2. \A i \in 1..n : u[i] \in E
    BY <1>6, <2>1, Zenon
  <2>3. u \in Seq(E) /\ Len(u) = n
    BY <1>3, <2>2, MadeOf, Zenon
  <2> QED
    BY <2>1, <2>3, Zenon
<1> QED
  BY <1>1, <1>2, <1>4, <1>5, <1>6, <1>7, Zenon

\* After four turns that append nothing, turns of one element each.
LEMMA FlattenAfterFour ==
  ASSUME NEW E, NEW u \in Seq(E), NEW tt, tt = [i \in 1..Len(u) + 4 |-> tt[i]],
         \A i \in 1..4 : tt[i] = <<>>, \A i \in 1..Len(u) : tt[i + 4] = <<u[i]>>
  PROVE  Flatten(tt) = u
<1>1. PICK n \in Nat : n = Len(u)
  OBVIOUS
<1>2. PICK pp : pp = [i \in 1..4 |-> <<>>]
  OBVIOUS
<1>3. PICK qq : qq = [i \in 1..n |-> <<u[i]>>]
  OBVIOUS
<1>4. pp \in Seq(Seq(E)) /\ Len(pp) = 4
  BY <1>2
<1>5. qq \in Seq(Seq(E)) /\ Len(qq) = n
  BY <1>1, <1>3
<1>6. tt = pp \o qq
  <2>1. PICK r : r = pp \o qq
    OBVIOUS
  <2>a. PICK X : X = Seq(E)
    OBVIOUS
  <2>b. pp \in Seq(X) /\ qq \in Seq(X)
    BY <2>a, <1>4, <1>5, Zenon
  <2>c. Follows(r, pp, qq, 4, n)
    BY <2>1, <2>b, <1>4, <1>5, ConcatIs, Zenon
  <2>2. r = [i \in 1..n + 4 |-> r[i]]
    <3>1. 4 + n = n + 4
      OBVIOUS
    <3> QED
      BY <2>c, <3>1, Zenon DEF Follows
  <2>3. \A i \in 1..4 : r[i] = <<>>
    BY <1>2, <2>c, Zenon DEF Follows
  <2>4. \A i \in 1..n : r[i + 4] = qq[i]
    <3>1. \A i \in 1..n : 4 + i = i + 4
      OBVIOUS
    <3>2. \A i \in 1..n : r[4 + i] = qq[i]
      BY <2>c, Zenon DEF Follows
    <3> QED
      BY <3>1, <3>2, Zenon
  <2>5. \A i \in 1..n : r[i + 4] = <<u[i]>>
    BY <1>3, <2>4
  <2>6. \A i \in 1..n + 4 : i \in 1..4 \/ (i - 4 \in 1..n /\ (i - 4) + 4 = i)
    OBVIOUS
  <2>7. ASSUME NEW i \in 1..n + 4
        PROVE  r[i] = tt[i]
    <3>1. CASE i \in 1..4
      BY <2>3, <3>1, Zenon
    <3>2. CASE i - 4 \in 1..n /\ (i - 4) + 4 = i
      <4>1. r[(i - 4) + 4] = <<u[i - 4]>>
        BY <2>5, <3>2, Zenon
      <4>2. tt[(i - 4) + 4] = <<u[i - 4]>>
        BY <1>1, <3>2, Zenon
      <4> QED
        BY <3>2, <4>1, <4>2, Zenon
    <3> QED
      BY <2>6, <3>1, <3>2, Zenon
  <2> QED
    BY <1>1, <2>1, <2>2, <2>7, Zenon
<1>7. Flatten(pp) = <<>>
  <2>1. \A i \in 1..Len(pp) : pp[i] = <<>>
    BY <1>2, <1>4
  <2> QED
    BY <1>4, <2>1, FlattenHead, Zenon
<1>8. Flatten(qq) = u
  BY <1>1, <1>3, FlattenSingles, Zenon
<1>9. Flatten(tt) = Flatten(pp) \o Flatten(qq)
  BY <1>4, <1>5, <1>6, FlattenConcat, Zenon
<1>10. <<>> \o u = u
  OBVIOUS
<1> QED
  BY <1>7, <1>8, <1>9, <1>10, Zenon

\* The headers of a client's request, and no pseudo-header among them.
LEMMA WireRegular ==
  ASSUME NEW c, IsClient(c), NEW raw \in BOOLEAN
  PROVE  Regular(Wire(c, raw), RequestPseudo) = Entries(c)
<1>1. PICK hs : hs = Wire(c, raw) /\ WireShape(hs, c, raw)
  BY WireIs, Zenon
<1>2. PICK n \in Nat : n = Len(c.headers)
  BY ClientFields, ElementsIn, Zenon
<1>3. PICK u : u = Entries(c)
  OBVIOUS
<1>4. u \in Seq([key : HeaderNames, value : Seq(Letters)]) /\ Len(u) = n
      /\ \A i \in 1..n : u[i] = Added(c.headers[i].key, c.headers[i].value)
  BY <1>2, <1>3, EntriesType, Zenon
<1>5. Len(hs) = n + 4
  BY <1>1, <1>2, Zenon DEF WireShape
<1>6. PICK tt : tt = [i \in 1..n + 4 |->
                   When(Lower(hs[i].key).word \notin RequestPseudo, <<Added(hs[i].key, Val(hs[i]))>>)]
  OBVIOUS
<1>7. Regular(hs, RequestPseudo) = Flatten(tt)
  BY <1>5, <1>6, Zenon DEF Regular
<1>8. \A i \in 1..4 : tt[i] = <<>>
  <2>1. \A i \in 1..4 : i \in 1..n + 4 /\ (i = 1 \/ i = 2 \/ i = 3 \/ i = 4)
    OBVIOUS
  <2>2. /\ Lower(hs[1].key) = Letter(":method") /\ Lower(hs[2].key) = Letter(":scheme")
        /\ Lower(hs[3].key) = Letter(":authority") /\ Lower(hs[4].key) = Letter(":path")
    BY <1>1, WireKeys, Zenon
  <2>3. \A i \in 1..4 : Lower(hs[i].key).word \in RequestPseudo
    BY <2>1, <2>2 DEF Letter, RequestPseudo
  <2> QED
    BY <1>6, <2>1, <2>3, Zenon DEF When
<1>9. \A i \in 1..n : tt[i + 4] = <<u[i]>>
  <2> TAKE i \in 1..n
  <2>1. i + 4 \in 1..n + 4
    OBVIOUS
  <2>2. Lower(hs[i + 4].key).word \notin RequestPseudo
    BY <1>1, <1>2, WireKeys, Zenon
  <2>3. hs[i + 4] = Put(c.headers[i].key, c.headers[i].value, raw)
    BY <1>1, <1>2, Zenon DEF WireShape
  <2>4. hs[i + 4].key = c.headers[i].key /\ Val(hs[i + 4]) = c.headers[i].value
    <3>1. PICK k, v : k = c.headers[i].key /\ v = c.headers[i].value
      BY Zenon
    <3>2. Put(k, v, raw).key = k /\ Val(Put(k, v, raw)) = v
      BY PutVal, Zenon
    <3> QED
      BY <2>3, <3>1, <3>2, Zenon
  <2>5. tt[i + 4] = <<Added(hs[i + 4].key, Val(hs[i + 4]))>>
    BY <1>6, <2>1, <2>2, Zenon DEF When
  <2> QED
    BY <1>4, <2>4, <2>5, Zenon
<1>10. tt = [i \in 1..Len(u) + 4 |-> tt[i]]
  BY <1>4, <1>6
<1>11. PICK E : E = [key : HeaderNames, value : Seq(Letters)]
  OBVIOUS
<1>12. u \in Seq(E) /\ Len(u) = n
  BY <1>4, <1>11, Zenon
<1>13. Flatten(tt) = u
  BY <1>8, <1>9, <1>10, <1>12, FlattenAfterFour, Zenon
<1> QED
  BY <1>1, <1>3, <1>7, <1>13, Zenon

\* The target's "?" is where the path ends.
LEMMA TargetCut ==
  ASSUME NEW c, IsClient(c)
  PROVE  LET t == Target(c)  idx == IndexByte(t, "?") IN
         /\ c.path = IF idx = 0 THEN t ELSE SubSeq(t, 1, idx - 1)
         /\ c.query = IF idx = 0 THEN <<>> ELSE After(t, idx)
<1>1. PICK p \in Seq(Letters), q \in Seq(Letters) : p = c.path /\ q = c.query
  BY ClientFields, Zenon
<1>2. \A i \in 1..Len(p) : p[i] # Letter("?")
  BY <1>1, Zenon DEF IsClient
<1>3. PICK x \in Letters : x = Letter("?")
  BY LetterIn, WordsAssumption
<1>4. CASE q = <<>>
  <2>1. Target(c) = p
    BY <1>1, <1>4, Zenon DEF Target
  <2>2. IsIndex(p, "?", 0)
    BY <1>2, Zenon DEF IsIndex
  <2>3. IndexByte(p, "?") = 0
    BY <2>2, IndexEq, Zenon
  <2> QED
    BY <1>1, <1>4, <2>1, <2>3, Zenon
<1>5. CASE q # <<>>
  <2>1. PICK t : t = p \o <<x>> \o q
    OBVIOUS
  <2>2. Target(c) = t
    BY <1>1, <1>3, <1>5, <2>1, Zenon DEF Target
  <2>3. t \in Seq(Letters) /\ Len(t) = Len(p) + 1 + Len(q) /\ t[Len(p) + 1] = x
        /\ \A i \in 1..Len(p) : t[i] = p[i]
    BY <2>1
  <2>4. SubSeq(t, 1, Len(p)) = p
    BY <2>1
  <2>5. SubSeq(t, Len(p) + 2, Len(t)) = q
    BY <2>1
  <2>6. PICK m \in Nat : m = Len(p) + 1
    OBVIOUS
  <2>7. m \in 1..Len(t) /\ m # 0 /\ m - 1 = Len(p) /\ m + 1 = Len(p) + 2
    BY <2>3, <2>6
  <2>8. \A j \in 1..m - 1 : t[j] # x
    BY <1>2, <1>3, <2>3, <2>7, Zenon
  <2>9. IsIndex(t, "?", m)
    BY <1>3, <2>3, <2>6, <2>7, <2>8, Zenon DEF IsIndex
  <2>10. IndexByte(t, "?") = m
    BY <2>3, <2>9, IndexEq, Zenon
  <2>11. SubSeq(t, 1, m - 1) = c.path /\ After(t, m) = c.query
    BY <1>1, <2>4, <2>5, <2>7, Zenon DEF After
  <2> QED
    BY <2>2, <2>7, <2>10, <2>11, Zenon
<1> QED
  BY <1>4, <1>5, Zenon

\* An http.Header: canonical names, none without a value.
HeaderMap(h) ==
  /\ DOMAIN h \subseteq HeaderNames
  /\ \A k \in DOMAIN h : Canonical(k) = k /\ h[k] \in Seq(Seq(Letters)) /\ h[k] # <<>>

\* Entries with canonical names make one.
LEMMA HeaderMapMade ==
  ASSUME NEW kvs \in Seq([key : HeaderNames, value : Seq(Letters)]),
         \A i \in 1..Len(kvs) : Canonical(kvs[i].key) = kvs[i].key
  PROVE  HeaderMap(Gather(kvs))
<1>1. PICK h, K, V : h = Gather(kvs) /\ K = HeaderNames /\ V = Seq(Letters)
  BY Zenon
<1>2. Gathered(h, kvs, K, V)
  BY <1>1, GatherMade, Zenon
<1>3. DOMAIN h = {kvs[i].key : i \in 1..Len(kvs)}
  BY <1>2, Zenon DEF Gathered
<1>4. DOMAIN h \subseteq K
  BY <1>2 DEF Gathered, ListMaps
<1>5. \A k \in DOMAIN h : Canonical(k) = k
  BY <1>3, Zenon
<1>6. \A k \in DOMAIN h : h[k] \in Seq(V) /\ h[k] # <<>>
  BY <1>2, <1>4, Zenon DEF Gathered
<1> QED
  BY <1>1, <1>4, <1>5, <1>6, Zenon DEF HeaderMap

\* A client's headers make one, and Host is not among them.
LEMMA ClientMap ==
  ASSUME NEW c, IsClient(c)
  PROVE  HeaderMap(Gather(Entries(c))) /\ Get(Gather(Entries(c)), "host") = <<>>
<1>1. PICK u, n : u = Entries(c) /\ n = Len(c.headers)
  BY Zenon
<1>2. /\ u \in Seq([key : HeaderNames, value : Seq(Letters)]) /\ Len(u) = n
      /\ \A i \in 1..n : u[i].key = Canonical(c.headers[i].key) /\ c.headers[i].key \in HeaderNames
  BY <1>1, EntriesType, Zenon
<1>3. ASSUME NEW i \in 1..n
      PROVE  Canonical(u[i].key) = u[i].key
  <2>1. PICK k \in HeaderNames : k = c.headers[i].key
    BY <1>2, Zenon
  <2>2. Canonical(Canonical(k)) = Canonical(k)
    BY Spellings, Zenon
  <2> QED
    BY <1>2, <2>1, <2>2, Zenon
<1>4. HeaderMap(Gather(u))
  BY <1>2, <1>3, HeaderMapMade, Zenon
<1>5. \A i \in 1..n : u[i].key # Canonical(Letter("host"))
  <2>1. \A i \in 1..n : c.headers[i].key.word # "host"
    BY <1>1, Zenon DEF IsClient
  <2> TAKE i \in 1..n
  <2>2. PICK k \in HeaderNames : k = c.headers[i].key
    BY <1>2, Zenon
  <2>3. Canonical(k).word = k.word /\ Canonical(Letter("host")).word = "host"
    BY DEF Canonical, Letter
  <2> QED
    BY <1>2, <2>1, <2>2, <2>3, Zenon
<1>6. PICK h, K, V : h = Gather(u) /\ K = HeaderNames /\ V = Seq(Letters)
  BY Zenon
<1>7. Gathered(h, u, K, V)
  BY <1>2, <1>6, GatherMade, Zenon
<1>8. Canonical(Letter("host")) \notin DOMAIN h
  BY <1>2, <1>5, <1>7, Zenon DEF Gathered
<1> QED
  BY <1>1, <1>4, <1>6, <1>8, Zenon DEF Get

\* What the two engines make of one client's request.
BothSee(a, p, c) ==
  /\ a.Method = c.method /\ p.Method = c.method
  /\ a.Headers = Gather(Entries(c)) /\ p.Headers = Gather(Entries(c))
  /\ a.RawQuery = c.query /\ p.RawQuery = c.query /\ a.Body = c.body /\ p.Body = c.body
  /\ a.Path = Unescape(c.path) /\ p.Path = c.path
  /\ a.Host = hostOnly(c.authority) /\ p.Host = c.authority
  /\ a.RemoteIP = clientIP(HTTPRequest(c)) /\ p.RemoteIP = extractClientIP(Gather(Entries(c)))

\* They make it.
LEMMA EnginesBuild ==
  ASSUME NEW c, IsClient(c), NEW raw \in BOOLEAN
  PROVE  BothSee(AuthzRequest(HTTPRequest(c)),
                 [parseRequestHeaders(Wire(c, raw)) EXCEPT !.Body = c.body], c)
<1>1. PICK h : h = Gather(Entries(c))
  OBVIOUS
<1>2. PICK r : r = HTTPRequest(c)
  OBVIOUS
<1>3. r.method = c.method /\ r.host = c.authority /\ r.path = Unescape(c.path)
      /\ r.query = c.query /\ r.header = h /\ r.body = c.body
  BY <1>1, <1>2 DEF HTTPRequest, Entries
<1>4. PICK a : a = AuthzRequest(r)
  OBVIOUS
<1>5. /\ a.Method = r.method /\ a.Headers = r.header /\ a.RawQuery = r.query /\ a.Body = r.body
      /\ a.Path = r.path /\ a.Host = hostOnly(r.host) /\ a.RemoteIP = clientIP(r)
  BY <1>4 DEF AuthzRequest
<1>6. PICK hs : hs = Wire(c, raw)
  OBVIOUS
<1>7. HeadersOf(hs, RequestPseudo) = h
  BY <1>1, <1>6, WireRegular, Zenon DEF HeadersOf
<1>8. PICK q : q = parseRequestHeaders(hs)
  OBVIOUS
<1>9. PICK t, idx, authority : t = LastValue(hs, ":path") /\ idx = IndexByte(t, "?")
                               /\ authority = LastValue(hs, ":authority")
  BY Zenon
<1>10. q = [Method |-> LastValue(hs, ":method"), Scheme |-> LastValue(hs, ":scheme"),
            Host |-> IF authority = <<>> THEN Get(h, "host") ELSE authority,
            Path |-> IF idx = 0 THEN t ELSE SubSeq(t, 1, idx - 1),
            RawQuery |-> IF idx = 0 THEN <<>> ELSE After(t, idx),
            RemoteIP |-> extractClientIP(h), Headers |-> h, Body |-> "empty"]
  BY <1>7, <1>8, <1>9, Zenon DEF parseRequestHeaders
<1>11. LastValue(hs, ":method") = c.method /\ authority = c.authority /\ t = Target(c)
  BY <1>6, <1>9, WireLast, Zenon
<1>12. /\ c.path = IF idx = 0 THEN t ELSE SubSeq(t, 1, idx - 1)
       /\ c.query = IF idx = 0 THEN <<>> ELSE After(t, idx)
  BY <1>9, <1>11, TargetCut, Zenon
<1>13. Get(h, "host") = <<>>
  BY <1>1, ClientMap, Zenon
<1>14. (IF authority = <<>> THEN Get(h, "host") ELSE authority) = c.authority
  BY <1>11, <1>13, Zenon
<1>15. q = [Method |-> c.method, Scheme |-> LastValue(hs, ":scheme"), Host |-> c.authority,
            Path |-> c.path, RawQuery |-> c.query,
            RemoteIP |-> extractClientIP(h), Headers |-> h, Body |-> "empty"]
  BY <1>10, <1>11, <1>12, <1>14, Zenon
<1>16. PICK p : p = [q EXCEPT !.Body = c.body]
  OBVIOUS
<1>17. /\ p.Method = c.method /\ p.Headers = h /\ p.RawQuery = c.query /\ p.Body = c.body
       /\ p.Path = c.path /\ p.Host = c.authority /\ p.RemoteIP = extractClientIP(h)
  BY <1>15, <1>16
<1>18. BothSee(a, p, c)
  BY <1>1, <1>2, <1>3, <1>5, <1>17, Zenon DEF BothSee
<1> QED
  BY <1>2, <1>4, <1>6, <1>8, <1>16, <1>18, Zenon

\* The all-values map of a policy has the same lists, under the lower-case names.
LEMMA HeadersAllIs ==
  ASSUME NEW h, HeaderMap(h)
  PROVE  /\ DOMAIN HeadersAll(h) = {Lower(k) : k \in DOMAIN h}
         /\ \A n \in DOMAIN HeadersAll(h) :
              /\ n \in HeaderNames /\ n = Letter(n.word)
              /\ Canonical(n) \in DOMAIN h /\ Lower(Canonical(n)) = n
              /\ HeadersAll(h)[n] = h[Canonical(n)]
              /\ HeadersAll(h)[n] \in Seq(Seq(Letters)) /\ HeadersAll(h)[n] # <<>>
<1>1. DOMAIN HeadersAll(h) = {Lower(k) : k \in DOMAIN h}
  BY DEF HeadersAll
<1>2. ASSUME NEW n \in DOMAIN HeadersAll(h)
      PROVE  /\ n \in HeaderNames /\ n = Letter(n.word)
             /\ Canonical(n) \in DOMAIN h /\ Lower(Canonical(n)) = n
             /\ HeadersAll(h)[n] = h[Canonical(n)]
             /\ HeadersAll(h)[n] \in Seq(Seq(Letters)) /\ HeadersAll(h)[n] # <<>>
  <2>1. PICK k \in DOMAIN h : n = Lower(k)
    BY <1>1, <1>2, Zenon
  <2>2. k \in HeaderNames /\ Canonical(k) = k /\ h[k] \in Seq(Seq(Letters)) /\ h[k] # <<>>
    BY Zenon DEF HeaderMap
  <2>3. n \in HeaderNames /\ n = Letter(n.word) /\ Canonical(n) = k /\ Lower(Canonical(n)) = n
    BY <2>1, <2>2, Spellings, Zenon
  <2>4. HeadersAll(h)[n] = h[Canonical(n)]
    BY <1>1, <1>2, Zenon DEF HeadersAll
  <2> QED
    BY <2>2, <2>3, <2>4, Zenon
<1> QED
  BY <1>1, <1>2, Zenon

\* A first value, where there is a list of values for each name.
LEMMA FirstsIs ==
  ASSUME NEW m, \A n \in DOMAIN m : m[n] \in Seq(Seq(Letters)) /\ m[n] # <<>>, NEW n \in DOMAIN m
  PROVE  /\ Firsts(m)[n] = m[n][1]
         /\ firstOr(Firsts(m), n, <<>>) = firstOrList(m, n, <<>>)
         /\ firstOr(Firsts(m), n, <<>>) # <<>> => has(n, m)
<1>1. DOMAIN Firsts(m) = DOMAIN m /\ Firsts(m)[n] = m[n][1]
  BY DEF Firsts
<1>2. PICK l : l = m[n]
  OBVIOUS
<1>3. 1 \in DOMAIN l
  BY <1>2
<1>4. firstOr(Firsts(m), n, <<>>) = l[1] /\ firstOrList(m, n, <<>>) = l[1]
  BY <1>1, <1>2, Zenon DEF firstOr, firstOrList
<1>5. l[1] # <<>> => has(n, m)
  BY <1>2, <1>3, Zenon DEF has
<1> QED
  BY <1>1, <1>2, <1>4, <1>5, Zenon

\* The variables built of a request.
VarOf(v, r) ==
  LET qs == ParseQuery(r.RawQuery)  all == HeadersAll(r.Headers) IN
  /\ v.method = r.Method /\ v.path = r.Path /\ v.host = r.Host /\ v.remoteIp = r.RemoteIP
  /\ v.headers = all /\ v.header = Firsts(all)
  /\ v.queries = (IF qs.ok THEN qs.m ELSE <<>>) /\ v.query = Firsts(v.queries)
  /\ v.body = BodyVar(r.Body, ContentType(Firsts(all)))

\* buildRequestVar makes it.
LEMMA RequestVarIs ==
  ASSUME NEW r
  PROVE  VarOf(buildRequestVar(r), r)
<1>1. PICK qs, all : qs = ParseQuery(r.RawQuery) /\ all = HeadersAll(r.Headers)
  BY Zenon
<1>2. PICK qa : qa = IF qs.ok THEN qs.m ELSE <<>>
  OBVIOUS
<1>3. PICK b : b = BodyVar(r.Body, ContentType(Firsts(all)))
  OBVIOUS
<1>4. buildRequestVar(r) =
        [method |-> r.Method, scheme |-> r.Scheme, host |-> r.Host, path |-> r.Path,
         remoteIp |-> r.RemoteIP, headers |-> all, header |-> Firsts(all),
         queries |-> qa, query |-> Firsts(qa), body |-> b]
  BY <1>1, <1>2, <1>3, Zenon DEF buildRequestVar
<1>5. PICK v : v = buildRequestVar(r)
  OBVIOUS
<1>6. /\ v.method = r.Method /\ v.path = r.Path /\ v.host = r.Host /\ v.remoteIp = r.RemoteIP
      /\ v.headers = all /\ v.header = Firsts(all)
      /\ v.queries = qa /\ v.query = Firsts(qa) /\ v.body = b
  BY <1>4, <1>5
<1> QED
  BY <1>1, <1>2, <1>3, <1>5, <1>6, Zenon DEF VarOf

\* Nothing is escaped.
LEMMA UnescapePlain ==
  ASSUME NEW t \in Seq(Letters), \A i \in DOMAIN t : t[i].form = "lower"
  PROVE  Unescape(t) = t
<1>1. ~Bad(t)
  BY DEF Bad
<1>2. \A i \in DOMAIN t : Decode(t[i]) = t[i]
  BY DEF Decode
<1>3. [i \in DOMAIN t |-> Decode(t[i])] = [i \in DOMAIN t |-> t[i]]
  BY <1>2, Zenon
<1>4. t = [i \in DOMAIN t |-> t[i]]
  OBVIOUS
<1> QED
  BY <1>1, <1>3, <1>4, Zenon DEF Unescape

\* A forwarded address is read in the same way by both engines.
LEMMA SameAddress ==
  ASSUME NEW c, NEW h, HeaderMap(h), h = HTTPRequest(c).header
  PROVE  \/ clientIP(HTTPRequest(c)) = extractClientIP(h)
         \/ \A n \in {Letter("x-forwarded-for"), Letter("x-real-ip")} \cap DOMAIN HeadersAll(h) :
              Firsts(HeadersAll(h))[n] = <<>>
<1>1. CASE Get(h, "x-forwarded-for") # <<>>
  BY <1>1, Zenon DEF clientIP, extractClientIP
<1>2. CASE Get(h, "x-forwarded-for") = <<>> /\ Get(h, "x-real-ip") # <<>>
  BY <1>2, Zenon DEF clientIP, extractClientIP
<1>3. CASE Get(h, "x-forwarded-for") = <<>> /\ Get(h, "x-real-ip") = <<>>
  <2>1. ASSUME NEW w, Get(h, w) = <<>>, Letter(w) \in DOMAIN HeadersAll(h)
        PROVE  Firsts(HeadersAll(h))[Letter(w)] = <<>>
    <3>1. Canonical(Letter(w)) \in DOMAIN h /\ HeadersAll(h)[Letter(w)] = h[Canonical(Letter(w))]
      BY <2>1, HeadersAllIs, Zenon
    <3>2. Get(h, w) = h[Canonical(Letter(w))][1]
      BY <3>1, Zenon DEF Get
    <3>3. Firsts(HeadersAll(h))[Letter(w)] = HeadersAll(h)[Letter(w)][1]
      BY <2>1, Zenon DEF Firsts
    <3> QED
      BY <2>1, <3>1, <3>2, <3>3, Zenon
  <2> QED
    BY <1>3, <2>1, Zenon
<1> QED
  BY <1>1, <1>2, <1>3, Zenon

-----------------------------------------------------------------------------
(* Parameters.                                                             *)

\* Decoding gives a text.
LEMMA UnescapeType ==
  ASSUME NEW t \in Seq(Letters)
  PROVE  Unescape(t) \in Seq(Letters)
<1>1. CASE Bad(t)
  BY <1>1 DEF Unescape
<1>2. CASE ~Bad(t)
  <2>1. PICK u : u = [i \in 1..Len(t) |-> Decode(t[i])]
    OBVIOUS
  <2>2. Unescape(t) = u
    BY <1>2, <2>1 DEF Unescape
  <2>3. \A l \in Letters : Decode(l) \in Letters
    BY DEF Decode, Letter, Letters
  <2>4. \A i \in 1..Len(t) : t[i] \in Letters
    BY ElementsIn, Zenon
  <2>5. u = [i \in 1..Len(t) |-> u[i]] /\ Len(t) \in Nat
    BY <2>1
  <2>6. \A i \in 1..Len(t) : u[i] \in Letters
    BY <2>1, <2>3, <2>4, Zenon
  <2>7. PICK n \in Nat : n = Len(t)
    BY <2>5, Zenon
  <2>8. u \in Seq(Letters)
    BY <2>5, <2>6, <2>7, MadeOf, Zenon
  <2> QED
    BY <2>2, <2>8, Zenon
<1> QED
  BY <1>1, <1>2, Zenon

\* A pair has a name and a value.
LEMMA PairTypes ==
  ASSUME NEW p \in Seq(Letters)
  PROVE  /\ Name(p) \in Seq(Letters) /\ Value(p) \in Seq(Letters)
         /\ Parsed(p) \in Seq([key : Seq(Letters), value : Seq(Letters)])
<1>1. PICK eq : eq = IndexByte(p, "=")
  OBVIOUS
<1>2. eq = 0 \/ eq \in 1..Len(p)
  BY <1>1, IndexIs, Zenon DEF IsIndex
<1>3. eq # 0 => SubSeq(p, 1, eq - 1) \in Seq(Letters) /\ SubSeq(p, eq + 1, Len(p)) \in Seq(Letters)
  BY <1>2
<1>4. <<>> \in Seq(Letters)
  OBVIOUS
<1>5. Name(p) \in Seq(Letters)
  BY <1>1, <1>3, Zenon DEF Name
<1>6. Value(p) \in Seq(Letters)
  BY <1>1, <1>3, <1>4, Zenon DEF Value, After
<1>a. PICK V : V = Seq(Letters)
  OBVIOUS
<1>7. PICK k \in V, v \in V : k = Unescape(Name(p)) /\ v = Unescape(Value(p))
  <2>1. Unescape(Name(p)) \in Seq(Letters) /\ Unescape(Value(p)) \in Seq(Letters)
    BY <1>5, <1>6, UnescapeType, Zenon
  <2> QED
    BY <1>a, <2>1, Zenon
<1>8. [key |-> k, value |-> v] \in [key : V, value : V]
  OBVIOUS
<1>b. PICK E : E = [key : V, value : V]
  OBVIOUS
<1>9. PICK e \in E : e = [key |-> k, value |-> v]
  BY <1>b, <1>8, Zenon
<1>10. <<e>> \in Seq(E) /\ <<>> \in Seq(E)
  OBVIOUS
<1>11. Parsed(p) \in Seq(E)
  BY <1>7, <1>9, <1>10, Zenon DEF Parsed, When
<1> QED
  BY <1>5, <1>6, <1>a, <1>b, <1>11, Zenon

\* The parameters of a query, none without a value.
LEMMA QueryMap ==
  ASSUME NEW raw \in Seq(Letters)
  PROVE  LET m == ParseQuery(raw).m IN
         \A n \in DOMAIN m : m[n] \in Seq(Seq(Letters)) /\ m[n] # <<>>
<1>1. PICK ps : ps = Split(raw, "&")
  OBVIOUS
<1>2. ps \in Seq(Seq(Letters))
  BY <1>1, SplitType, Zenon DEF PieceLists
<1>3. Len(ps) \in Nat /\ \A i \in 1..Len(ps) : ps[i] \in Seq(Letters)
  BY <1>2, ElementsIn, Zenon
<1>4. PICK V, E : V = Seq(Letters) /\ E = [key : V, value : V]
  BY Zenon
<1>5. PICK tt : tt = [i \in 1..Len(ps) |-> Parsed(ps[i])]
  OBVIOUS
<1>6. \A i \in 1..Len(ps) : tt[i] \in Seq(E)
  BY <1>3, <1>4, <1>5, PairTypes, Zenon
<1>7. tt = [i \in 1..Len(ps) |-> tt[i]]
  BY <1>5
<1>8. tt \in Seq(Seq(E))
  BY <1>3, <1>6, <1>7, MadeOf, Zenon
<1>9. Flatten(tt) \in Seq(E)
  BY <1>8, FlattenType, Zenon
<1>10. PICK m : m = Gather(Flatten(tt))
  OBVIOUS
<1>11. Gathered(m, Flatten(tt), V, V)
  BY <1>4, <1>9, <1>10, GatherMade, Zenon
<1>12. DOMAIN m \subseteq V
  BY <1>11 DEF Gathered, ListMaps
<1>13. \A n \in DOMAIN m : m[n] \in Seq(V) /\ m[n] # <<>>
  BY <1>11, <1>12, Zenon DEF Gathered
<1>14. ParseQuery(raw).m = m
  BY <1>1, <1>5, <1>10 DEF ParseQuery
<1> QED
  BY <1>4, <1>13, <1>14, Zenon

-----------------------------------------------------------------------------
(* What a policy reads of a request.                                       *)

\* The answer to See.
SawRequest(c, raw, lg) ==
  LET authz == AuthzRequest(HTTPRequest(c))
      proc  == [parseRequestHeaders(Wire(c, raw)) EXCEPT !.Body = c.body] IN
  call = [op |-> "request", client |-> c, lg |-> lg, query |-> authz.RawQuery,
          authz |-> buildRequestVar(authz), proc |-> buildRequestVar(proc),
          log |-> RequestAttrs(authz, lg), procLog |-> RequestAttrs(proc, lg)]

\* Its parts.
Parts(c, lg, a, p) ==
  /\ call.op = "request" /\ call.client = c /\ call.lg = lg /\ call.query = c.query
  /\ call.authz = buildRequestVar(a) /\ call.proc = buildRequestVar(p)
  /\ call.log = RequestAttrs(a, lg) /\ call.procLog = RequestAttrs(p, lg)
  /\ BothSee(a, p, c)

\* They are those of the call that See answers.
LEMMA SawParts ==
  ASSUME NEW c, IsClient(c), NEW raw \in BOOLEAN, NEW lg, SawRequest(c, raw, lg)
  PROVE  \E a, p : Parts(c, lg, a, p)
<1>1. PICK a, p : /\ a = AuthzRequest(HTTPRequest(c))
                  /\ p = [parseRequestHeaders(Wire(c, raw)) EXCEPT !.Body = c.body]
  BY Zenon
<1>2. BothSee(a, p, c)
  BY <1>1, EnginesBuild, Zenon
<1>3. a.RawQuery = c.query
  BY <1>2, Zenon DEF BothSee
<1>4. call = [op |-> "request", client |-> c, lg |-> lg, query |-> c.query,
              authz |-> buildRequestVar(a), proc |-> buildRequestVar(p),
              log |-> RequestAttrs(a, lg), procLog |-> RequestAttrs(p, lg)]
  BY <1>1, <1>3, Zenon DEF SawRequest
<1>5. /\ call.op = "request" /\ call.client = c /\ call.lg = lg /\ call.query = c.query
      /\ call.authz = buildRequestVar(a) /\ call.proc = buildRequestVar(p)
      /\ call.log = RequestAttrs(a, lg) /\ call.procLog = RequestAttrs(p, lg)
  BY <1>4
<1> QED
  BY <1>2, <1>5, Zenon DEF Parts

\* The engines agree.
LEMMA SeesSame ==
  ASSUME NEW c, IsClient(c), NEW lg, NEW a, NEW p, Parts(c, lg, a, p)
  PROVE  EnginesSeeSame
<1>1. VarOf(call.authz, a) /\ VarOf(call.proc, p)
  BY RequestVarIs, Zenon DEF Parts
<1>2. BothSee(a, p, c) /\ call.client = c
  BY Zenon DEF Parts
<1>3. PICK h : h = Gather(Entries(c)) /\ HeaderMap(h)
  BY ClientMap, Zenon
<1>4. PICK x, y : x = call.authz /\ y = call.proc
  BY Zenon
<1>5. a.Headers = h /\ p.Headers = h /\ a.RawQuery = p.RawQuery /\ a.Body = p.Body /\ a.Method = p.Method
  BY <1>2, <1>3, Zenon DEF BothSee
<1>6. x.method = y.method /\ x.headers = HeadersAll(h) /\ y.headers = HeadersAll(h)
      /\ x.header = Firsts(HeadersAll(h)) /\ y.header = Firsts(HeadersAll(h))
  BY <1>1, <1>4, <1>5, Zenon DEF VarOf
<1>7. x.body = y.body
  BY <1>1, <1>4, <1>5, Zenon DEF VarOf
<1>8. x.queries = y.queries /\ x.query = y.query
  BY <1>1, <1>4, <1>5, Zenon DEF VarOf
<1>9. x.remoteIp = y.remoteIp
      \/ \A n \in {Letter("x-forwarded-for"), Letter("x-real-ip")} \cap DOMAIN x.header : x.header[n] = <<>>
  <2>1. HTTPRequest(c).header = h
    BY <1>3 DEF HTTPRequest, Entries
  <2>2. x.remoteIp = clientIP(HTTPRequest(c)) /\ y.remoteIp = extractClientIP(h)
    BY <1>1, <1>2, <1>3, <1>4, Zenon DEF VarOf, BothSee
  <2>3. DOMAIN x.header = DOMAIN HeadersAll(h)
    BY <1>6 DEF Firsts
  <2> QED
    BY <1>3, <1>6, <2>1, <2>2, <2>3, SameAddress, SMTT(30)
<1>10. x.path = y.path \/ \E i \in DOMAIN c.path : c.path[i].form # "lower"
  <2>1. x.path = Unescape(c.path) /\ y.path = c.path
    BY <1>1, <1>2, <1>4, Zenon DEF VarOf, BothSee
  <2> QED
    BY <2>1, ClientFields, UnescapePlain, Zenon
<1>11. x.host = y.host \/ IndexByte(c.authority, ":") # 0
  <2>1. x.host = hostOnly(c.authority) /\ y.host = c.authority
    BY <1>1, <1>2, <1>4, Zenon DEF VarOf, BothSee
  <2> QED
    BY <2>1, Zenon DEF hostOnly
<1> QED
  BY <1>2, <1>4, <1>6, <1>7, <1>8, <1>9, <1>10, <1>11, Zenon DEF EnginesSeeSame

\* The maps agree.
LEMMA BucketsSame ==
  ASSUME NEW c, IsClient(c), NEW lg, NEW a, NEW p, Parts(c, lg, a, p)
  PROVE  BucketsAgree
<1>1. PICK h : h = Gather(Entries(c)) /\ HeaderMap(h)
  BY ClientMap, Zenon
<1>2. PICK all : all = HeadersAll(h)
  OBVIOUS
<1>3. \A n \in DOMAIN all : all[n] \in Seq(Seq(Letters)) /\ all[n] # <<>>
  BY <1>1, <1>2, HeadersAllIs, Zenon
<1>4. PICK qs : qs = ParseQuery(c.query)
  OBVIOUS
<1>5. \A n \in DOMAIN qs.m : qs.m[n] \in Seq(Seq(Letters)) /\ qs.m[n] # <<>>
  BY <1>4, ClientFields, QueryMap, Zenon
<1>6. PICK q : q = IF qs.ok THEN qs.m ELSE <<>>
  OBVIOUS
<1>7. \A n \in DOMAIN q : q[n] \in Seq(Seq(Letters)) /\ q[n] # <<>>
  <2>1. q = qs.m \/ q = <<>>
    BY <1>6, Zenon
  <2>2. q = <<>> => DOMAIN q = {}
    OBVIOUS
  <2> QED
    BY <1>5, <2>1, <2>2, Zenon
<1>8. \A v \in {call.authz, call.proc} :
        v.headers = all /\ v.header = Firsts(all) /\ v.queries = q /\ v.query = Firsts(q)
  <2>1. ASSUME NEW v, NEW r, VarOf(v, r), r.Headers = h, r.RawQuery = c.query
        PROVE  v.headers = all /\ v.header = Firsts(all) /\ v.queries = q /\ v.query = Firsts(q)
    BY <2>1, <1>2, <1>4, <1>6, Zenon DEF VarOf
  <2>2. VarOf(call.authz, a) /\ VarOf(call.proc, p)
    BY RequestVarIs, Zenon DEF Parts
  <2>3. a.Headers = h /\ p.Headers = h /\ a.RawQuery = c.query /\ p.RawQuery = c.query
    BY <1>1, Zenon DEF Parts, BothSee
  <2> QED
    BY <2>1, <2>2, <2>3, Zenon
<1>9. \A n \in DOMAIN all : /\ firstOr(Firsts(all), n, <<>>) = firstOrList(all, n, <<>>)
                            /\ firstOr(Firsts(all), n, <<>>) # <<>> => has(n, all)
  BY <1>3, FirstsIs, Zenon
<1>10. \A n \in DOMAIN q : /\ firstOr(Firsts(q), n, <<>>) = firstOrList(q, n, <<>>)
                           /\ firstOr(Firsts(q), n, <<>>) # <<>> => has(n, q)
  BY <1>7, FirstsIs, Zenon
<1> QED
  BY <1>8, <1>9, <1>10, Zenon DEF BucketsAgree

\* Of some positions of a sequence, one is the last.
LEMMA Greatest ==
  ASSUME NEW n \in Nat, NEW A \in SUBSET (1..n), A # {}
  PROVE  Max(A) \in A /\ \A i \in A : i <= Max(A)
<1>1. PICK B : B = {n - i : i \in A}
  OBVIOUS
<1>2. B \in SUBSET Nat /\ B # {}
  <2>1. \A i \in A : n - i \in Nat
    OBVIOUS
  <2> QED
    BY <1>1, <2>1, Zenon
<1>3. PICK b \in B : \A m \in B : b <= m
  BY <1>2, Least, Zenon
<1>4. PICK a \in A : b = n - a
  BY <1>1, <1>3
<1>5. \A i \in A : a >= i
  <2> TAKE i \in A
  <2>1. n - i \in B
    BY <1>1
  <2>2. b <= n - i
    BY <1>3, <2>1
  <2> QED
    BY <1>4, <2>2
<1>6. Max(A) \in A /\ \A i \in A : Max(A) >= i
  BY <1>5, Zenon DEF Max
<1> QED
  BY <1>6

-----------------------------------------------------------------------------
(* What a policy reads of a response.                                      *)

Fields == [key : HeaderNames, value : Seq(Letters), rawValue : Seq(Letters)]

\* A field, and the value that is read of it.
LEMMA FieldIs ==
  ASSUME NEW hs, IsResponse(hs), NEW i \in 1..Len(hs)
  PROVE  /\ hs[i].key \in HeaderNames /\ Val(hs[i]) \in Seq(Letters)
         /\ Val(hs[i]) = hs[i].value \o hs[i].rawValue
<1>1. hs[i] \in Fields /\ (hs[i].value = <<>> \/ hs[i].rawValue = <<>>)
  <2>1. hs \in Seq(Fields)
    BY Zenon DEF IsResponse, Fields
  <2> QED
    BY <2>1, ElementsIn, Zenon DEF IsResponse
<1>2. PICK f : f = hs[i]
  OBVIOUS
<1>3. f.key \in HeaderNames /\ f.value \in Seq(Letters) /\ f.rawValue \in Seq(Letters)
  BY <1>1, <1>2 DEF Fields
<1>4. PICK v \in Seq(Letters), r \in Seq(Letters) : v = f.value /\ r = f.rawValue
  BY <1>3, Zenon
<1>5. v = <<>> => v \o r = r
  OBVIOUS
<1>6. r = <<>> => v \o r = v
  OBVIOUS
<1> QED
  BY <1>1, <1>2, <1>3, <1>4, <1>5, <1>6, Zenon DEF Val

\* The values sent under a name.
Sent(hs, n) ==
  Flatten([i \in 1..Len(hs) |-> When(Lower(hs[i].key) = n, <<hs[i].value \o hs[i].rawValue>>)])

\* The last of them is the one LastValue takes.
LEMMA SentLast ==
  ASSUME NEW hs, IsResponse(hs), NEW w
  PROVE  LET st == Sent(hs, Letter(w)) IN
         LastValue(hs, w) = IF st = <<>> THEN <<>> ELSE LastOf(st)
<1>1. PICK m \in Nat : m = Len(hs) /\ DOMAIN hs = 1..m
  <2>1. hs \in Seq(Fields)
    BY Zenon DEF IsResponse, Fields
  <2> QED
    BY <2>1, ElementsIn, Zenon
<1>2. PICK A : A = {i \in 1..m : Lower(hs[i].key) = Letter(w)}
  OBVIOUS
<1>3. A \in SUBSET (1..m)
  BY <1>2
<1>4. PICK V : V = Seq(Letters)
  OBVIOUS
<1>5. \A i \in 1..m : Val(hs[i]) \in V /\ Val(hs[i]) = hs[i].value \o hs[i].rawValue
  BY <1>1, <1>4, FieldIs, Zenon
<1>6. PICK tt : tt = [i \in 1..m |-> When(Lower(hs[i].key) = Letter(w), <<hs[i].value \o hs[i].rawValue>>)]
  OBVIOUS
<1>7. \A i \in 1..m : tt[i] = IF i \in A THEN <<Val(hs[i])>> ELSE <<>>
  BY <1>2, <1>5, <1>6, Zenon DEF When
<1>8. tt \in Seq(Seq(V)) /\ Len(tt) = m
  <2>1. \A v \in V : <<v>> \in Seq(V)
    OBVIOUS
  <2>2. <<>> \in Seq(V)
    OBVIOUS
  <2>3. \A i \in 1..m : tt[i] \in Seq(V)
    BY <1>5, <1>7, <2>1, <2>2, Zenon
  <2>4. tt = [i \in 1..m |-> tt[i]]
    BY <1>6
  <2> QED
    BY <2>3, <2>4, MadeOf, Zenon
<1>9. PICK st : st = Sent(hs, Letter(w)) /\ st = Flatten(tt)
  BY <1>1, <1>6, Zenon DEF Sent
<1>a. \A v : <<v>> # <<>> /\ LastOf(<<v>>) = v
  BY DEF LastOf
<1>10. st = <<>> <=> \A i \in 1..m : tt[i] = <<>>
  BY <1>8, <1>9, FlattenHead, Zenon
<1>11. LastValue(hs, w) = IF A = {} THEN <<>> ELSE Val(hs[Max(A)])
  BY <1>1, <1>2, Zenon DEF LastValue
<1>12. CASE A = {}
  <2>1. st = <<>>
    BY <1>7, <1>10, <1>12, Zenon
  <2> QED
    BY <1>9, <1>11, <1>12, <2>1, Zenon
<1>13. CASE A # {}
  <2>1. PICK k \in A : k = Max(A) /\ \A i \in A : i <= k
    BY <1>3, <1>13, Greatest, Zenon
  <2>2. k \in 1..m /\ tt[k] = <<Val(hs[k])>>
    BY <1>3, <1>7, Zenon
  <2>3. \A i \in k + 1..m : i \in 1..m /\ i \notin A
    BY <2>1, <2>2, <1>3
  <2>4. \A i \in k + 1..m : tt[i] = <<>>
    BY <1>7, <2>3, Zenon
  <2>5. LastOf(st) = LastOf(tt[k])
    BY <1>8, <1>9, <1>a, <2>2, <2>4, FlattenLast, Zenon
  <2>6. st # <<>>
    BY <1>10, <1>a, <2>2, Zenon
  <2> QED
    BY <1>9, <1>11, <1>13, <1>a, <2>1, <2>2, <2>5, <2>6, Zenon
<1> QED
  BY <1>12, <1>13, Zenon

CanonicalNames == {k \in HeaderNames : Canonical(k) = k}
HeaderEntries  == [key : CanonicalNames, value : Seq(Letters)]

\* The turns of Regular over a response.
Turn(hv) == When(Lower(hv.key).word \notin {":status"}, <<Added(hv.key, Val(hv))>>)

\* A header becomes an entry of the map.
LEMMA AddedType ==
  ASSUME NEW k \in HeaderNames, NEW v \in Seq(Letters)
  PROVE  /\ Added(k, v) \in HeaderEntries
         /\ Added(k, v).key = Canonical(k) /\ Added(k, v).value = v
<1>1. Canonical(k) \in CanonicalNames
  BY Spellings, Zenon DEF CanonicalNames
<1>2. PICK x \in CanonicalNames : x = Canonical(k)
  BY <1>1, Zenon
<1>3. Added(k, v) = [key |-> x, value |-> v]
  BY <1>2, Zenon DEF Added
<1> QED
  BY <1>2, <1>3 DEF HeaderEntries

\* The type of what they append.
LEMMA TurnsType ==
  ASSUME NEW hs, IsResponse(hs)
  PROVE  LET tt == [i \in 1..Len(hs) |-> Turn(hs[i])] IN
         /\ tt \in Seq(Seq(HeaderEntries)) /\ Len(tt) = Len(hs)
         /\ Regular(hs, {":status"}) = Flatten(tt)
         /\ Regular(hs, {":status"}) \in Seq(HeaderEntries)
<1>1. PICK m \in Nat : m = Len(hs)
  <2>1. hs \in Seq(Fields)
    BY Zenon DEF IsResponse, Fields
  <2> QED
    BY <2>1, ElementsIn, Zenon
<1>2. PICK tt : tt = [i \in 1..m |-> Turn(hs[i])]
  OBVIOUS
<1>3. \A i \in 1..m : Added(hs[i].key, Val(hs[i])) \in HeaderEntries
  BY <1>1, FieldIs, AddedType, Zenon
<1>4. PICK E : E = HeaderEntries
  OBVIOUS
<1>5. \A e \in E : <<e>> \in Seq(E)
  OBVIOUS
<1>6. <<>> \in Seq(E)
  OBVIOUS
<1>7. \A i \in 1..m : tt[i] \in Seq(E)
  BY <1>2, <1>3, <1>4, <1>5, <1>6, Zenon DEF Turn, When
<1>8. tt = [i \in 1..m |-> tt[i]]
  BY <1>2
<1>9. tt \in Seq(Seq(E)) /\ Len(tt) = m
  BY <1>7, <1>8, MadeOf, Zenon
<1>10. Flatten(tt) \in Seq(E)
  BY <1>9, FlattenType, Zenon
<1>11. Regular(hs, {":status"}) = Flatten(tt)
  BY <1>1, <1>2, Zenon DEF Regular, Turn
<1> QED
  BY <1>1, <1>2, <1>4, <1>9, <1>10, <1>11, Zenon

\* The values in the map under a name are those that were sent.
LEMMA SentUnder ==
  ASSUME NEW hs, IsResponse(hs), NEW n \in HeaderNames, n = Letter(n.word), n # Letter(":status")
  PROVE  Under(Regular(hs, {":status"}), Canonical(n)) = Sent(hs, n)
<1>1. PICK m : m = Len(hs)
  OBVIOUS
<1>2. PICK k \in CanonicalNames : k = Canonical(n)
  BY Spellings, Zenon DEF CanonicalNames
<1>3. PICK V, E : V = Seq(Letters) /\ E = HeaderEntries
  BY Zenon
<1>4. \A e \in E : e.value \in V
  BY <1>3 DEF HeaderEntries
<1>5. PICK f : f = [e \in E |-> When(e.key = k, <<e.value>>)]
  OBVIOUS
<1>6. Maps(f, E, V)
  <2>1. \A v \in V : <<v>> \in Seq(V)
    OBVIOUS
  <2>2. <<>> \in Seq(V)
    OBVIOUS
  <2>3. \A e \in E : When(e.key = k, <<e.value>>) \in Seq(V)
    BY <1>4, <2>1, <2>2, Zenon DEF When
  <2> QED
    BY <1>5, <2>3, Zenon DEF Maps
<1>7. PICK tt : /\ tt = [i \in 1..m |-> Turn(hs[i])] /\ tt \in Seq(Seq(E)) /\ Len(tt) = m
                /\ Regular(hs, {":status"}) = Flatten(tt) /\ Flatten(tt) \in Seq(E)
  BY <1>1, <1>3, TurnsType, Zenon
<1>8. PICK u \in Seq(E) : u = Flatten(tt)
  BY <1>7, Zenon
<1>9. Under(u, k) = FlatMap(f, u)
  <2>1. \A i \in 1..Len(u) : u[i] \in E
    BY ElementsIn, Zenon
  <2>2. \A i \in 1..Len(u) : f[u[i]] = When(u[i].key = k, <<u[i].value>>)
    BY <1>5, <2>1, Zenon
  <2>3. [i \in 1..Len(u) |-> When(u[i].key = k, <<u[i].value>>)] = [i \in 1..Len(u) |-> f[u[i]]]
    BY <2>2, Zenon
  <2> QED
    BY <2>3, Zenon DEF Under, FlatMap
<1>10. FlatMap(f, u) = Flatten(Each(f, tt))
  BY <1>6, <1>7, <1>8, FlatMapFlatten, Zenon
<1>11. ASSUME NEW i \in 1..m
       PROVE  FlatMap(f, tt[i]) = When(Lower(hs[i].key) = n, <<hs[i].value \o hs[i].rawValue>>)
  <2>1. PICK x \in HeaderNames, v \in V : x = hs[i].key /\ v = Val(hs[i])
                                          /\ v = hs[i].value \o hs[i].rawValue
    BY <1>1, <1>3, FieldIs, Zenon
  <2>2. PICK e \in E : e = Added(x, v) /\ e.key = Canonical(x) /\ e.value = v
    BY <1>3, AddedType, Zenon
  <2>3. tt[i] = When(Lower(x).word \notin {":status"}, <<e>>)
    BY <1>7, <2>1, <2>2, Zenon DEF Turn
  <2>4. f[e] = When(Canonical(x) = k, <<v>>)
    BY <1>5, <2>2, Zenon
  <2>5. Canonical(x) = k <=> Lower(x) = n
    <3>1. Lower(n) = n
      BY Spellings, Zenon
    <3>2. Canonical(x) = k => Lower(x) = n
      BY <1>2, <3>1, Spellings, Zenon
    <3>3. Lower(x) = n => Canonical(x) = k
      BY <1>2, Spellings, Zenon
    <3> QED
      BY <3>2, <3>3, Zenon
  <2>6. CASE Lower(x).word = ":status"
    <3>1. tt[i] = <<>>
      BY <2>3, <2>6, Zenon DEF When
    <3>2. FlatMap(f, tt[i]) = <<>>
      BY <1>6, <2>2, <3>1, FlatMapOne, Zenon
    <3>3. Lower(x) # n
      BY <2>6, Zenon
    <3> QED
      BY <2>1, <3>2, <3>3, Zenon DEF When
  <2>7. CASE Lower(x).word # ":status"
    <3>1. tt[i] = <<e>>
      BY <2>3, <2>7, Zenon DEF When
    <3>2. FlatMap(f, <<e>>) = f[e]
      BY <1>6, FlatMapOne, Z3
    <3> QED
      BY <2>1, <2>4, <2>5, <3>1, <3>2, Zenon
  <2> QED
    BY <2>6, <2>7, Zenon
<1>12. Each(f, tt) = [i \in 1..m |-> When(Lower(hs[i].key) = n, <<hs[i].value \o hs[i].rawValue>>)]
  <2>1. [i \in 1..m |-> FlatMap(f, tt[i])]
        = [i \in 1..m |-> When(Lower(hs[i].key) = n, <<hs[i].value \o hs[i].rawValue>>)]
    BY <1>11, Zenon
  <2> QED
    BY <1>7, <2>1, Zenon DEF Each
<1> QED
  BY <1>1, <1>2, <1>7, <1>8, <1>9, <1>10, <1>12, Zenon DEF Sent

\* The headers of a response make an http.Header.
LEMMA ResponseMap ==
  ASSUME NEW hs, IsResponse(hs)
  PROVE  LET h == HeadersOf(hs, {":status"}) IN
         /\ HeaderMap(h)
         /\ Gathered(h, Regular(hs, {":status"}), CanonicalNames, Seq(Letters))
<1>1. PICK u, E : u = Regular(hs, {":status"}) /\ E = HeaderEntries /\ u \in Seq(E)
  BY TurnsType, Zenon
<1>2. Gathered(Gather(u), u, CanonicalNames, Seq(Letters))
  BY <1>1, GatherMade, Zenon DEF HeaderEntries
<1>3. PICK h : h = Gather(u)
  OBVIOUS
<1>4. DOMAIN h \subseteq CanonicalNames
  BY <1>2, <1>3 DEF Gathered, ListMaps
<1>5. \A k \in DOMAIN h : h[k] \in Seq(Seq(Letters)) /\ h[k] # <<>>
  BY <1>2, <1>3, <1>4, Zenon DEF Gathered
<1>6. HeaderMap(h)
  BY <1>4, <1>5, Zenon DEF HeaderMap, CanonicalNames
<1> QED
  BY <1>1, <1>2, <1>3, <1>6, Zenon DEF HeadersOf

\* The answer to SeeResponse.
SawResponse(hs, lg) ==
  LET resp == parseResponseHeaders(hs) IN
  call = [op |-> "response", hs |-> hs, lg |-> lg,
          var |-> buildResponseVar(resp), log |-> ResponseAttrs(resp, lg)]

\* Its parts.
ResponseParts(hs, lg) ==
  LET h == HeadersOf(hs, {":status"}) IN
  /\ call.op = "response" /\ call.hs = hs /\ call.lg = lg
  /\ call.var.status = StatusOf(LastValue(hs, ":status")) /\ call.var.headers = HeadersAll(h)
  /\ call.log.headers = LoggedHeaders(h, lg) /\ call.log.contentType = LoggedType(h)

\* They are those of the call that SeeResponse answers.
LEMMA SawResponseParts ==
  ASSUME NEW hs, NEW lg, SawResponse(hs, lg)
  PROVE  ResponseParts(hs, lg)
<1>1. PICK r, h, s : /\ r = parseResponseHeaders(hs) /\ h = HeadersOf(hs, {":status"})
                     /\ s = StatusOf(LastValue(hs, ":status"))
  BY Zenon
<1>2. r.Status = s /\ r.Headers = h
  BY <1>1 DEF parseResponseHeaders
<1>3. PICK v, l : v = buildResponseVar(r) /\ l = ResponseAttrs(r, lg)
  BY Zenon
<1>4. v.status = r.Status /\ v.headers = HeadersAll(r.Headers)
  BY <1>3 DEF buildResponseVar
<1>5. l.headers = LoggedHeaders(r.Headers, lg) /\ l.contentType = LoggedType(r.Headers)
  <2>1. r # NilResponse
    BY <1>1 DEF parseResponseHeaders, NilResponse
  <2> QED
    BY <1>3, <2>1 DEF ResponseAttrs
<1>6. call = [op |-> "response", hs |-> hs, lg |-> lg, var |-> v, log |-> l]
  BY <1>1, <1>3, Zenon DEF SawResponse
<1>7. call.op = "response" /\ call.hs = hs /\ call.lg = lg /\ call.var = v /\ call.log = l
  BY <1>6
<1> QED
  BY <1>1, <1>2, <1>4, <1>5, <1>7, Zenon DEF ResponseParts

\* A response is read as it was sent.
LEMMA SeesResponse ==
  ASSUME NEW hs, IsResponse(hs), NEW lg, ResponseParts(hs, lg)
  PROVE  ResponseSeen
<1>1. PICK h : h = HeadersOf(hs, {":status"})
  OBVIOUS
<1>2. HeaderMap(h) /\ Gathered(h, Regular(hs, {":status"}), CanonicalNames, Seq(Letters))
  BY <1>1, ResponseMap, Zenon
<1>3. PICK m \in Nat : m = Len(hs) /\ DOMAIN hs = 1..m
  <2>1. hs \in Seq(Fields)
    BY Zenon DEF IsResponse, Fields
  <2> QED
    BY <2>1, ElementsIn, Zenon
<1>4. ASSUME NEW j \in 1..m, NEW n, n = Lower(hs[j].key), n # Letter(":status")
      PROVE  HeadersAll(h)[n] = Sent(hs, n)
  <2>1. hs[j].key \in HeaderNames
    BY <1>3, FieldIs, Zenon
  <2>2. n \in HeaderNames /\ n = Letter(n.word) /\ Lower(Canonical(n)) = n /\ Canonical(n) \in CanonicalNames
    BY <1>4, <2>1, Spellings, Zenon DEF CanonicalNames
  <2>3. PICK k \in CanonicalNames : k = Canonical(n)
    BY <2>2, Zenon
  <2>4. Under(Regular(hs, {":status"}), k) = Sent(hs, n)
    BY <1>4, <2>2, <2>3, SentUnder, Zenon
  <2>5. Sent(hs, n) # <<>>
    <3>1. PICK tt : tt = [i \in 1..m |-> When(Lower(hs[i].key) = n, <<hs[i].value \o hs[i].rawValue>>)]
      OBVIOUS
    <3>2. PICK V : V = Seq(Letters)
      OBVIOUS
    <3>3. \A i \in 1..m : hs[i].value \o hs[i].rawValue \in V
      BY <1>3, <3>2, FieldIs, Zenon
    <3>4. \A v \in V : <<v>> \in Seq(V) /\ <<v>> # <<>>
      OBVIOUS
    <3>5. <<>> \in Seq(V)
      OBVIOUS
    <3>6. \A i \in 1..m : tt[i] \in Seq(V)
      BY <3>1, <3>3, <3>4, <3>5, Zenon DEF When
    <3>7. tt = [i \in 1..m |-> tt[i]]
      BY <3>1
    <3>8. tt \in Seq(Seq(V)) /\ Len(tt) = m
      BY <3>6, <3>7, MadeOf, Zenon
    <3>9. tt[j] # <<>>
      BY <1>4, <3>1, <3>3, <3>4, Zenon DEF When
    <3>10. Flatten(tt) # <<>>
      BY <3>8, <3>9, FlattenHead, Zenon
    <3> QED
      BY <1>3, <3>1, <3>10, Zenon DEF Sent
  <2>6. k \in DOMAIN h /\ h[k] = Sent(hs, n)
    BY <1>2, <2>4, <2>5, Zenon DEF Gathered
  <2>7. n \in DOMAIN HeadersAll(h)
    <3>1. DOMAIN HeadersAll(h) = {Lower(x) : x \in DOMAIN h}
      BY <1>2, HeadersAllIs, Zenon
    <3> QED
      BY <2>2, <2>3, <2>6, <3>1, Zenon
  <2> QED
    BY <1>2, <2>3, <2>6, <2>7, HeadersAllIs, Zenon
<1>5. PICK st : st = Sent(hs, Letter(":status"))
  OBVIOUS
<1>6. LastValue(hs, ":status") = IF st = <<>> THEN <<>> ELSE LastOf(st)
  BY <1>5, SentLast, Zenon
<1>7. StatusOf(LastValue(hs, ":status")) =
        IF st = <<>> \/ st[Len(st)] = <<>> \/ st[Len(st)][1].form # "number" THEN "200"
        ELSE st[Len(st)][1].word
  BY <1>6, Zenon DEF StatusOf, LastOf
<1>8. /\ call.op = "response" /\ call.hs = hs /\ call.var.headers = HeadersAll(h)
      /\ call.var.status = StatusOf(LastValue(hs, ":status"))
  BY <1>1, Zenon DEF ResponseParts
<1>9. \A n \in {Lower(hs[i].key) : i \in DOMAIN hs} \ {Letter(":status")} :
        HeadersAll(h)[n] = Sent(hs, n)
  BY <1>3, <1>4, Zenon
<1>10. \A n \in {Lower(call.hs[i].key) : i \in DOMAIN call.hs} \ {Letter(":status")} :
         call.var.headers[n] = Sent(call.hs, n)
  BY <1>8, <1>9, Zenon
<1>11. LET s == Sent(call.hs, Letter(":status")) IN
       call.var.status =
         IF s = <<>> \/ s[Len(s)] = <<>> \/ s[Len(s)][1].form # "number" THEN "200"
         ELSE s[Len(s)][1].word
  BY <1>5, <1>7, <1>8, Zenon
<1> QED
  BY <1>10, <1>11, Zenon DEF ResponseSeen, Sent

-----------------------------------------------------------------------------
(* What the access log shows of the headers.                               *)

\* A mask as long as the value, with its first n letters if they are at most half of it.
MaskOf(x, v, n) ==
  /\ Len(x) = Len(v)
  /\ \A i \in DOMAIN v : x[i] = Letter("*") \/ (x[i] = v[i] /\ i <= n /\ 2 * n <= Len(v))

\* An int that does not wrap round.
LEMMA Fits64 ==
  ASSUME NEW n \in Nat, n < IntHalf
  PROVE  Int64(n) = n
<1>1. PICK H \in Nat : H = IntHalf
  BY IntAssumption
<1>2. ASSUME NEW a \in Nat, NEW b \in Nat, a < b
      PROVE  a % b = a
  BY <1>2
<1>3. n + H \in Nat /\ 2 * H \in Nat /\ n + H < 2 * H
  BY <1>1
<1>4. (n + H) % (2 * H) = n + H
  BY <1>2, <1>3
<1>5. Int64(n) = ((n + H) % (2 * H)) - H
  BY <1>1, Zenon DEF Int64
<1> QED
  BY <1>4, <1>5

\* mask makes one.
LEMMA MaskIs ==
  ASSUME NEW v \in Seq(Letters), NEW n \in Int, 2 * n < IntHalf
  PROVE  MaskOf(mask(v, n), v, n)
<1>1. PICK star : star = Letter("*")
  OBVIOUS
<1>2. \A m \in Nat : Repeat("*", m) = [i \in 1..m |-> star]
  BY <1>1 DEF Repeat
<1>3. CASE v = <<>>
  <2>1. mask(v, n) = <<>>
    BY <1>3, Zenon DEF mask
  <2> QED
    BY <1>3, <2>1 DEF MaskOf
<1>4. CASE v # <<>> /\ (n <= 0 \/ Len(v) < Int64(2 * n))
  <2>1. mask(v, n) = [i \in 1..Len(v) |-> star]
    <3>1. mask(v, n) = Repeat("*", Len(v))
      BY <1>4, Zenon DEF mask
    <3>2. Len(v) \in Nat
      OBVIOUS
    <3> QED
      BY <1>2, <3>1, <3>2, Zenon
  <2> QED
    BY <1>1, <2>1 DEF MaskOf
<1>5. CASE v # <<>> /\ ~(n <= 0 \/ Len(v) < Int64(2 * n))
  <2>1. n \in Nat /\ n > 0 /\ 2 * n \in Nat
    BY <1>5
  <2>2. Int64(2 * n) = 2 * n
    BY <2>1, Fits64
  <2>3. Int64(2 * n) <= Len(v)
    BY <1>5, <2>1, <2>2
  <2>4. 2 * n <= Len(v) /\ ~(n > Len(v)) /\ Len(v) - n \in Nat
    BY <2>1, <2>2, <2>3
  <2>5. mask(v, n) = SubSeq(v, 1, n) \o Repeat("*", Len(v) - n)
    BY <1>5, <2>4, Zenon DEF mask
  <2>6. PICK a, b : a = SubSeq(v, 1, n) /\ b = [i \in 1..Len(v) - n |-> star]
    BY Zenon
  <2>7. a \in Seq(Letters) /\ Len(a) = n /\ \A i \in 1..n : a[i] = v[i]
    BY <2>1, <2>4, <2>6
  <2>8. star \in Letters
    BY <1>1, LetterIn, WordsAssumption
  <2>9. b \in Seq(Letters) /\ Len(b) = Len(v) - n /\ \A i \in 1..Len(v) - n : b[i] = star
    BY <2>4, <2>6, <2>8
  <2>10. PICK r : r = a \o b /\ Follows(r, a, b, n, Len(v) - n)
    BY <2>7, <2>9, ConcatIs, Zenon
  <2>11. Len(r) = n + (Len(v) - n) /\ (\A i \in 1..n : r[i] = a[i])
         /\ \A i \in 1..Len(v) - n : r[n + i] = b[i]
    BY <2>10, Zenon DEF Follows
  <2>12. ASSUME NEW i \in 1..Len(v)
         PROVE  r[i] = star \/ (r[i] = v[i] /\ i <= n /\ 2 * n <= Len(v))
    <3>1. CASE i <= n
      <4>1. i \in 1..n
        BY <2>1, <3>1
      <4> QED
        BY <2>4, <2>7, <2>11, <3>1, <4>1, Zenon
    <3>2. CASE ~(i <= n)
      <4>1. i - n \in 1..Len(v) - n /\ n + (i - n) = i
        BY <2>1, <2>4, <3>2
      <4> QED
        BY <2>9, <2>11, <4>1, Zenon
    <3> QED
      BY <3>1, <3>2, Zenon
  <2>13. Len(r) = Len(v) /\ DOMAIN v = 1..Len(v)
    BY <2>1, <2>4, <2>11
  <2>14. mask(v, n) = r
    BY <1>2, <2>4, <2>5, <2>6, <2>10, Zenon
  <2> QED
    BY <1>1, <2>12, <2>13, <2>14, Zenon DEF MaskOf
<1> QED
  BY <1>3, <1>4, <1>5, Zenon

\* A list of names, in any case, with spaces around.
LEMMA ListedIs == \A xs, name : Listed(xs, name) <=> name \in lowerSet(xs)
  BY DEF Listed, lowerSet

\* The headers are logged as the lists say.
LEMMA LoggedRight ==
  ASSUME NEW h, HeaderMap(h), NEW lg, lg.redactReveal \in Int, 2 * lg.redactReveal < IntHalf
  PROVE  HeadersMasked(HeadersAll(h), LoggedHeaders(h, lg), lg)
<1>1. PICK all, logged : all = HeadersAll(h) /\ logged = LoggedHeaders(h, lg)
  BY Zenon
<1>2. PICK shown : shown = {Lower(k) : k \in {x \in DOMAIN h : <<Lower(x)>> \notin lowerSet(lg.excludeHeaders)}}
  OBVIOUS
<1>3. logged = [lk \in shown |->
        LET joined == Join(h[Canonical(lk)], CommaSpace) IN
        IF <<lk>> \in lowerSet(lg.redactHeaders) THEN mask(joined, lg.redactReveal) ELSE joined]
  BY <1>1, <1>2, Zenon DEF LoggedHeaders
<1>4. DOMAIN logged = shown
  BY <1>3
<1>5. CommaSpace \in Seq(Letters)
  <2>1. PICK ws : ws = <<",", " ">>
    OBVIOUS
  <2>2. DOMAIN ws = 1..2 /\ \A i \in 1..2 : ws[i] \in Words
    <3>1. "," \in Words /\ " " \in Words
      BY WordsAssumption
    <3>2. DOMAIN ws = 1..2 /\ ws[1] = "," /\ ws[2] = " "
      <4>1. \A a, b : DOMAIN <<a, b>> = 1..2 /\ <<a, b>>[1] = a /\ <<a, b>>[2] = b
        OBVIOUS
      <4> QED
        BY <2>1, <4>1, Zenon
    <3>3. \A i \in 1..2 : i = 1 \/ i = 2
      OBVIOUS
    <3> QED
      BY <3>1, <3>2, <3>3, Zenon
  <2>3. PICK u : u = [i \in 1..2 |-> Letter(ws[i])]
    OBVIOUS
  <2>4. \A i \in 1..2 : u[i] \in Letters
    BY <2>2, <2>3, LetterIn, Zenon
  <2>5. u \in Seq(Letters)
    BY <2>3, <2>4
  <2> QED
    BY <2>1, <2>2, <2>3, <2>5, Zenon DEF CommaSpace, Text
<1>6. ASSUME NEW n \in DOMAIN all
      PROVE  LET whole == Join(all[n], CommaSpace) IN
             IF Listed(lg.excludeHeaders, <<n>>) THEN n \notin DOMAIN logged
             ELSE IF Listed(lg.redactHeaders, <<n>>)
                  THEN Masked(logged[n], whole, lg.redactReveal, Len(all[n]) = 1)
                  ELSE logged[n] = whole
  <2>1. /\ Canonical(n) \in DOMAIN h /\ Lower(Canonical(n)) = n /\ all[n] = h[Canonical(n)]
        /\ all[n] \in Seq(Seq(Letters))
    BY <1>1, HeadersAllIs, Zenon
  <2>2. PICK whole \in Seq(Letters) : whole = Join(all[n], CommaSpace)
    <3>1. <<>> \in Seq(Letters)
      OBVIOUS
    <3>2. Join(all[n], CommaSpace) \in Seq(Letters)
      BY <1>5, <2>1, <3>1, JoinAppend, Zenon
    <3> QED
      BY <3>2, Zenon
  <2>3. CASE Listed(lg.excludeHeaders, <<n>>)
    <3>1. n \notin shown
      BY <1>2, <2>3, ListedIs, Zenon
    <3> QED
      BY <1>4, <2>3, <3>1, Zenon
  <2>4. CASE ~Listed(lg.excludeHeaders, <<n>>)
    <3>1. n \in shown
      BY <1>2, <2>1, <2>4, ListedIs, Zenon
    <3>2. logged[n] = IF <<n>> \in lowerSet(lg.redactHeaders) THEN mask(whole, lg.redactReveal) ELSE whole
      BY <1>3, <2>1, <2>2, <3>1, Zenon
    <3>3. MaskOf(mask(whole, lg.redactReveal), whole, lg.redactReveal)
      BY MaskIs, Zenon
    <3>4. Masked(mask(whole, lg.redactReveal), whole, lg.redactReveal, Len(all[n]) = 1)
      BY <3>3, Zenon DEF MaskOf, Masked
    <3> QED
      BY <2>2, <2>4, <3>2, <3>4, ListedIs, Zenon
  <2> QED
    BY <2>3, <2>4, Zenon
<1> QED
  BY <1>1, <1>6, Zenon DEF HeadersMasked

\* The logged type is what a policy reads of it, in lower case.
LEMMA TypeRight ==
  ASSUME NEW h, HeaderMap(h)
  PROVE  LoggedType(h) = ToLower(ContentType(Firsts(HeadersAll(h))))
<1>1. PICK all, first : all = HeadersAll(h) /\ first = Firsts(all)
  BY Zenon
<1>2. DOMAIN first = DOMAIN all /\ \A k \in DOMAIN all : first[k] = all[k][1]
  BY <1>1 DEF Firsts
<1>3. PICK n : n = Letter("content-type")
  OBVIOUS
<1>4. Lower(Canonical(n)) = n
  BY <1>3 DEF Letter, Lower, Canonical
<1>5. CASE Canonical(n) \in DOMAIN h
  <2>1. n \in DOMAIN all
    <3>1. DOMAIN all = {Lower(k) : k \in DOMAIN h}
      BY <1>1, HeadersAllIs, Zenon
    <3> QED
      BY <1>4, <1>5, <3>1
  <2>2. all[n] = h[Canonical(n)]
    BY <1>1, <2>1, HeadersAllIs, Zenon
  <2> QED
    BY <1>1, <1>2, <1>3, <1>5, <2>1, <2>2, Zenon DEF LoggedType, Get, ContentType
<1>6. CASE Canonical(n) \notin DOMAIN h
  <2>1. n \notin DOMAIN all
    BY <1>1, <1>6, HeadersAllIs, Zenon
  <2> QED
    BY <1>1, <1>2, <1>3, <1>6, <2>1, Zenon DEF LoggedType, Get, ContentType
<1> QED
  BY <1>5, <1>6, Zenon

\* Both are logged as they should be.
LEMMA LogRight ==
  ASSUME NEW h, HeaderMap(h), NEW lg, lg.redactReveal \in Int, 2 * lg.redactReveal < IntHalf,
         NEW log, log.headers = LoggedHeaders(h, lg), log.contentType = LoggedType(h)
  PROVE  HeadersLogged(HeadersAll(h), log, lg)
  BY LoggedRight, TypeRight, Zenon DEF HeadersLogged, TypeLogged

-----------------------------------------------------------------------------
(* What the access log shows of the query.                                 *)

\* The query of one pair.
LEMMA ParsePiece ==
  ASSUME NEW p \in Seq(Letters), NoneOf(p, "&")
  PROVE  ParseQuery(p).m = Gather(Parsed(p))
<1>1. PICK ps : ps = Split(p, "&") /\ ps = <<p>>
  BY SplitWhole, Zenon
<1>2. PICK V, E : V = Seq(Letters) /\ E = [key : V, value : V]
  BY Zenon
<1>3. PICK x \in Seq(E) : x = Parsed(p)
  BY <1>2, PairTypes, Zenon
<1>4. PICK tt : tt = [i \in 1..Len(ps) |-> Parsed(ps[i])]
  OBVIOUS
<1>5. tt = Append(<<>>, x)
  <2>1. Len(ps) = 1 /\ ps[1] = p
    BY <1>1
  <2>2. \A i \in 1..1 : i = 1
    OBVIOUS
  <2>3. tt = [i \in 1..1 |-> x]
    BY <1>3, <1>4, <2>1, <2>2, Zenon
  <2> QED
    BY <2>3
<1>6. <<>> \in Seq(Seq(E)) /\ <<>> \o x = x
  OBVIOUS
<1>7. Flatten(tt) = x
  BY <1>5, <1>6, FlattenAppend, FlattenEmpty, Zenon
<1>8. ParseQuery(p).m = Gather(Flatten(tt))
  BY <1>1, <1>4 DEF ParseQuery
<1> QED
  BY <1>3, <1>7, <1>8, Zenon

\* A pair that parses has one name and one value.
LEMMA PieceMap ==
  ASSUME NEW p \in Seq(Letters), NoneOf(p, "&")
  PROVE  LET m == ParseQuery(p).m IN
         IF ~Fails(p) /\ p # <<>>
         THEN DOMAIN m = {Unescape(Name(p))} /\ m[Unescape(Name(p))] = <<Unescape(Value(p))>>
         ELSE DOMAIN m = {}
<1>1. ParseQuery(p).m = Gather(Parsed(p))
  BY ParsePiece, Zenon
<1>2. CASE ~Fails(p) /\ p # <<>>
  <2>1. PICK k, v : k = Unescape(Name(p)) /\ v = Unescape(Value(p))
    BY Zenon
  <2>2. Parsed(p) = <<[key |-> k, value |-> v]>>
    BY <1>2, <2>1, Zenon DEF Parsed, When
  <2>3. PICK m : m = ParseQuery(p).m /\ m = Gather(<<[key |-> k, value |-> v]>>)
    BY <1>1, <2>2, Zenon
  <2>4. DOMAIN m = {k} /\ m[k] = <<v>>
    BY <2>3, GatherOne, Zenon
  <2> QED
    BY <1>2, <2>1, <2>3, <2>4, Zenon
<1>3. CASE ~(~Fails(p) /\ p # <<>>)
  <2>1. Parsed(p) = <<>>
    BY <1>3, Zenon DEF Parsed, When
  <2>2. DOMAIN Gather(<<>>) = {}
    BY GatherEmpty
  <2> QED
    BY <1>1, <1>3, <2>1, <2>2, Zenon
<1> QED
  BY <1>2, <1>3, Zenon

\* Three stars.
LEMMA Stars ==
  LET s == Repeat("*", 3) IN
  /\ s \in Seq(Letters) /\ Len(s) = 3 /\ \A i \in 1..3 : s[i] = Letter("*")
  /\ Unescape(s) = s
<1>1. PICK s : s = [i \in 1..3 |-> Letter("*")]
  OBVIOUS
<1>2. Letter("*") \in Letters
  BY LetterIn, WordsAssumption
<1>3. s \in Seq(Letters) /\ Len(s) = 3 /\ DOMAIN s = 1..3 /\ \A i \in 1..3 : s[i] = Letter("*")
  BY <1>1, <1>2
<1>4. \A i \in DOMAIN s : s[i].form = "lower"
  BY <1>3 DEF Letter
<1>5. Unescape(s) = s
  BY <1>3, <1>4, UnescapePlain, Zenon
<1> QED
  BY <1>1, <1>3, <1>5, Zenon DEF Repeat

\* A pair whose value is hidden.
Hidden(q, eq) == SubSeq(q, 1, eq) \o Repeat("*", 3)

\* It has the name it had, and three stars for its value.
LEMMA HiddenIs ==
  ASSUME NEW q \in Seq(Letters), NEW eq \in 1..Len(q), eq = IndexByte(q, "=")
  PROVE  LET r == Hidden(q, eq) IN
         /\ r \in Seq(Letters) /\ r # <<>> /\ IndexByte(r, "=") = eq
         /\ Name(r) = Name(q) /\ Value(r) = Repeat("*", 3)
         /\ \A w : NoneOf(q, w) /\ w # "*" => NoneOf(r, w)
         /\ ~Bad(q) => ~Bad(r)
<1>1. PICK a, b : a = SubSeq(q, 1, eq) /\ b = Repeat("*", 3)
  BY Zenon
<1>2. a \in Seq(Letters) /\ Len(a) = eq /\ \A i \in 1..eq : a[i] = q[i]
  BY <1>1
<1>3. b \in Seq(Letters) /\ Len(b) = 3 /\ \A i \in 1..3 : b[i] = Letter("*")
  BY <1>1, Stars, Zenon
<1>4. PICK r \in Seq(Letters) : r = a \o b /\ Follows(r, a, b, eq, 3)
  BY <1>2, <1>3, ConcatIs, ZenonT(30)
<1>5. Len(r) = eq + 3 /\ (\A i \in 1..eq : r[i] = q[i]) /\ \A i \in 1..3 : r[eq + i] = Letter("*")
  <2>1. Len(r) = eq + 3 /\ (\A i \in 1..eq : r[i] = a[i]) /\ \A i \in 1..3 : r[eq + i] = b[i]
    BY <1>4, Zenon DEF Follows
  <2> QED
    BY <1>2, <1>3, <2>1, Zenon
<1>6. q[eq] = Letter("=") /\ \A j \in 1..eq - 1 : q[j] # Letter("=")
  <2>1. IsIndex(q, "=", eq)
    BY IndexIs, Zenon
  <2>2. eq # 0
    OBVIOUS
  <2> QED
    BY <2>1, <2>2, Zenon DEF IsIndex
<1>7. IndexByte(r, "=") = eq
  <2>1. eq \in 1..Len(r) /\ eq \in 1..eq /\ \A j \in 1..eq - 1 : j \in 1..eq
    BY <1>5
  <2>2. IsIndex(r, "=", eq)
    BY <1>5, <1>6, <2>1, Zenon DEF IsIndex
  <2> QED
    BY <2>2, IndexEq, Zenon
<1>8. SubSeq(r, 1, eq - 1) = SubSeq(q, 1, eq - 1)
  BY <1>5
<1>9. SubSeq(r, eq + 1, Len(r)) = b
  <2>1. PICK z : z = SubSeq(r, eq + 1, Len(r)) /\ TailIs(z, r, eq, Len(r) - eq)
    <3>1. eq \in Nat /\ eq <= Len(r)
      BY <1>5
    <3> QED
      BY <3>1, SubSeqTail, Zenon
  <2>2. z = [i \in 1..3 |-> z[i]] /\ \A i \in 1..3 : z[i] = r[eq + i]
    <3>1. Len(r) - eq = 3
      BY <1>5
    <3> QED
      BY <2>1, <3>1, Zenon DEF TailIs
  <2>3. b = [i \in 1..3 |-> b[i]]
    BY <1>3
  <2>4. \A i \in 1..3 : z[i] = b[i]
    BY <1>3, <1>5, <2>2, Zenon
  <2> QED
    BY <2>1, <2>2, <2>3, <2>4, Zenon
<1>10. \A i \in 1..eq + 3 : i \in 1..eq \/ (i - eq \in 1..3 /\ eq + (i - eq) = i)
  OBVIOUS
<1>11. \A i \in 1..eq + 3 : r[i] = Letter("*") \/ (i \in 1..Len(q) /\ r[i] = q[i])
  <2>1. \A i \in 1..eq : i \in 1..Len(q)
    OBVIOUS
  <2> QED
    BY <1>5, <1>10, <2>1, Zenon
<1>12. \A w : NoneOf(q, w) /\ w # "*" => NoneOf(r, w)
  <2>1. \A w : w # "*" => Letter(w) # Letter("*")
    BY DEF Letter
  <2> QED
    BY <1>5, <1>11, <2>1, Zenon DEF NoneOf
<1>13. ~Bad(q) => ~Bad(r)
  <2>1. Letter("*").form # "bad"
    BY DEF Letter
  <2>2. DOMAIN r = 1..eq + 3 /\ DOMAIN q = 1..Len(q)
    BY <1>5
  <2> QED
    BY <1>11, <2>1, <2>2, Zenon DEF Bad
<1>14. r # <<>>
  BY <1>5
<1>15. eq # 0
  OBVIOUS
<1>16. Name(r) = Name(q)
  BY <1>7, <1>8, <1>15, Zenon DEF Name
<1>17. Value(r) = b
  BY <1>7, <1>9, <1>15, Zenon DEF Value, After
<1>18. Hidden(q, eq) = r
  BY <1>1, <1>4, Zenon DEF Hidden
<1> QED
  BY <1>1, <1>7, <1>12, <1>13, <1>14, <1>16, <1>17, <1>18, Zenon

\* A pair of the log, r, for the pair q that was sent.
PairShown(q, r, xs) ==
  LET s == ParseQuery(q).m  l == ParseQuery(r).m IN
  \A n \in DOMAIN s :
    /\ n \in DOMAIN l
    /\ IF Listed(xs, ToLower(n)) /\ IndexByte(q, "=") # 0
       THEN l[n] = <<Repeat("*", 3)>> ELSE l[n] = s[n]

\* Redact hides the value of a listed name, and nothing else.
LEMMA PairRedacted ==
  ASSUME NEW q \in Seq(Letters), NoneOf(q, "&"), NEW xs
  PROVE  LET r == Redact(q, lowerSet(xs)) IN
         r \in Seq(Letters) /\ NoneOf(r, "&") /\ PairShown(q, r, xs)
<1>1. PICK S, r, eq : S = lowerSet(xs) /\ r = Redact(q, S) /\ eq = IndexByte(q, "=")
  BY Zenon
<1>2. eq = 0 \/ eq \in 1..Len(q)
  BY <1>1, IndexIs, Zenon DEF IsIndex
<1>3. eq # 0 => Name(q) = SubSeq(q, 1, eq - 1)
  BY <1>1, Zenon DEF Name
<1>4. PICK s, k : s = ParseQuery(q).m /\ k = Unescape(Name(q))
  BY Zenon
<1>5. \A n \in DOMAIN s : n = k /\ ~Fails(q)
  BY <1>4, PieceMap, Zenon
<1>6. CASE ~(eq # 0 /\ Sensitive(SubSeq(q, 1, eq - 1), S))
  <2>1. r = q
    BY <1>1, <1>6, Zenon DEF Redact
  <2>2. eq # 0 => ToLower(k) \notin S
    BY <1>3, <1>4, <1>6, Zenon DEF Sensitive
  <2>3. \A n \in DOMAIN s : ~(Listed(xs, ToLower(n)) /\ eq # 0)
    BY <1>1, <1>5, <2>2, ListedIs, Zenon
  <2>4. PairShown(q, q, xs)
    BY <1>1, <1>4, <2>3, Zenon DEF PairShown
  <2> QED
    BY <1>1, <2>1, <2>4, Zenon
<1>7. CASE eq # 0 /\ Sensitive(SubSeq(q, 1, eq - 1), S)
  <2>1. eq \in 1..Len(q) /\ r = Hidden(q, eq)
    BY <1>1, <1>2, <1>7, Zenon DEF Redact, Hidden
  <2>2. /\ r \in Seq(Letters) /\ r # <<>> /\ IndexByte(r, "=") = eq
        /\ Name(r) = Name(q) /\ Value(r) = Repeat("*", 3)
        /\ (\A w : NoneOf(q, w) /\ w # "*" => NoneOf(r, w)) /\ (~Bad(q) => ~Bad(r))
    BY <1>1, <2>1, HiddenIs, Zenon
  <2>3. "&" # "*" /\ ";" # "*"
    OBVIOUS
  <2>4. NoneOf(r, "&")
    BY <2>2, <2>3, Zenon
  <2>5. ToLower(k) \in S
    BY <1>3, <1>4, <1>7, Zenon DEF Sensitive
  <2>6. ASSUME ~Fails(q)
        PROVE  ~Fails(r)
    <3>1. IndexByte(q, ";") = 0 /\ ~Bad(q)
      BY <2>6, Zenon DEF Fails
    <3>2. NoneOf(q, ";")
      <4>1. IsIndex(q, ";", 0)
        BY <3>1, IndexIs, Zenon
      <4>2. 0 \notin 1..Len(q)
        OBVIOUS
      <4> QED
        BY <4>1, <4>2, Zenon DEF IsIndex, NoneOf
    <3>3. NoneOf(r, ";")
      BY <2>2, <2>3, <3>2, Zenon
    <3>4. IsIndex(r, ";", 0)
      BY <3>3, Zenon DEF IsIndex, NoneOf
    <3>5. IndexByte(r, ";") = 0
      BY <2>2, <3>4, IndexEq, Zenon
    <3> QED
      BY <2>2, <3>1, <3>5, Zenon DEF Fails
  <2>7. PICK l : l = ParseQuery(r).m
    OBVIOUS
  <2>8. Unescape(Value(r)) = Repeat("*", 3) /\ Unescape(Name(r)) = k
    BY <1>4, <2>2, Stars, Zenon
  <2>9. ~Fails(r) => k \in DOMAIN l /\ l[k] = <<Repeat("*", 3)>>
    <3>1. ~Fails(r) /\ r # <<>> => DOMAIN l = {k} /\ l[k] = <<Repeat("*", 3)>>
      BY <2>2, <2>4, <2>7, <2>8, PieceMap, Zenon
    <3> QED
      BY <2>2, <3>1, Zenon
  <2>10. \A n \in DOMAIN s : n \in DOMAIN l /\ Listed(xs, ToLower(n)) /\ l[n] = <<Repeat("*", 3)>>
    BY <1>1, <1>5, <2>5, <2>6, <2>9, ListedIs, Zenon
  <2>11. PairShown(q, r, xs)
    BY <1>1, <1>4, <1>7, <2>7, <2>10, Zenon DEF PairShown
  <2> QED
    BY <1>1, <2>2, <2>4, <2>11, Zenon
<1> QED
  BY <1>6, <1>7, Zenon

\* The logged query, for the query that was sent.
QueryShown(raw, logged, xs) ==
  LET sent == Split(raw, "&")  shown == Split(logged, "&") IN
  Len(shown) = Len(sent) /\ \A i \in DOMAIN sent : PairShown(sent[i], shown[i], xs)

\* Pair by pair.
LEMMA QueryRight ==
  ASSUME NEW raw \in Seq(Letters), NEW lg
  PROVE  QueryShown(raw, redactedQuery(raw, lg), lg.redactQueryParams)
<1>1. PICK xs, S : xs = lg.redactQueryParams /\ S = lowerSet(xs)
  BY Zenon
<1>2. PICK ps : ps = Split(raw, "&")
  OBVIOUS
<1>3. ps \in Seq(Seq(Letters)) /\ ps # <<>> /\ \A i \in 1..Len(ps) : NoneOf(ps[i], "&")
  BY <1>2, SplitType, Zenon DEF PieceLists
<1>4. Len(ps) \in Nat /\ DOMAIN ps = 1..Len(ps) /\ \A i \in 1..Len(ps) : ps[i] \in Seq(Letters)
  BY <1>3, ElementsIn, Zenon
<1>5. CASE raw = <<>> \/ S = {}
  <2>1. redactedQuery(raw, lg) = raw
    BY <1>1, <1>5, Zenon DEF redactedQuery
  <2>2. ASSUME NEW i \in DOMAIN ps
        PROVE  PairShown(ps[i], ps[i], xs)
    <3>1. CASE raw = <<>>
      <4>1. ps = <<<<>>>>
        BY <1>2, <3>1, SplitEmpty, Zenon
      <4>2. ps[i] = <<>>
        BY <4>1
      <4>3. IsIndex(<<>>, "=", 0) /\ <<>> \in Seq(Letters)
        BY DEF IsIndex
      <4>4. IndexByte(ps[i], "=") = 0
        BY <4>2, <4>3, IndexEq, Zenon
      <4> QED
        BY <4>4, Zenon DEF PairShown
    <3>2. CASE S = {}
      <4>1. \A n : ~Listed(xs, n)
        BY <1>1, <3>2, ListedIs, Zenon
      <4> QED
        BY <4>1, Zenon DEF PairShown
    <3> QED
      BY <1>5, <3>1, <3>2, Zenon
  <2> QED
    BY <1>1, <1>2, <2>1, <2>2, Zenon DEF QueryShown
<1>6. CASE ~(raw = <<>> \/ S = {})
  <2>1. PICK rs : rs = [i \in 1..Len(ps) |-> Redact(ps[i], S)]
    OBVIOUS
  <2>2. \A i \in 1..Len(ps) : rs[i] \in Seq(Letters) /\ NoneOf(rs[i], "&") /\ PairShown(ps[i], rs[i], xs)
    BY <1>1, <1>3, <1>4, <2>1, PairRedacted, Zenon
  <2>3. rs = [i \in 1..Len(ps) |-> rs[i]]
    BY <2>1
  <2>4. rs \in Seq(Seq(Letters)) /\ Len(rs) = Len(ps)
    <3>0. PICK n \in Nat : n = Len(ps)
      BY <1>4, Zenon
    <3>1. PICK V : n = Len(ps) /\ V = Seq(Letters)
      BY <3>0, Zenon
    <3>2. rs = [i \in 1..n |-> rs[i]] /\ \A i \in 1..n : rs[i] \in V
      BY <2>2, <2>3, <3>1, Zenon
    <3>3. rs \in Seq(V) /\ Len(rs) = n
      BY <3>2, MadeOf, Zenon
    <3> QED
      BY <3>1, <3>3, Zenon
  <2>5. rs # <<>>
    BY <1>3, <2>4
  <2>6. rs \in PieceLists("&")
    BY <2>2, <2>4, <2>5, Zenon DEF PieceLists
  <2>7. "&" \in Words
    BY WordsAssumption
  <2>8. Text(<<"&">>) = <<Letter("&")>>
    <3>1. \A x : [i \in DOMAIN <<x>> |-> Letter(<<x>>[i])] = <<Letter(x)>>
      <4> TAKE x
      <4>1. PICK y : y = Letter(x)
        OBVIOUS
      <4>2. DOMAIN <<x>> = 1..1 /\ <<x>>[1] = x
        OBVIOUS
      <4>3. \A i \in 1..1 : i = 1
        OBVIOUS
      <4>4. [i \in DOMAIN <<x>> |-> Letter(<<x>>[i])] = [i \in 1..1 |-> y]
        BY <4>1, <4>2, <4>3, Zenon
      <4>5. [i \in 1..1 |-> y] = <<y>>
        OBVIOUS
      <4> QED
        BY <4>1, <4>4, <4>5, Zenon
    <3> QED
      BY <3>1, Zenon DEF Text
  <2>9. Split(Join(rs, <<Letter("&")>>), "&") = rs
    BY <2>6, <2>7, SplitJoin, Zenon
  <2>10. redactedQuery(raw, lg) = Join(rs, <<Letter("&")>>)
    BY <1>1, <1>2, <1>6, <2>1, <2>8, Zenon DEF redactedQuery
  <2> QED
    BY <1>1, <1>2, <1>4, <2>2, <2>4, <2>9, <2>10, Zenon DEF QueryShown
<1> QED
  BY <1>5, <1>6, Zenon

\* The request's log is redacted.
LEMMA RequestLogged ==
  ASSUME NEW c, IsClient(c), NEW lg \in Loggings, NEW a, NEW p, Parts(c, lg, a, p)
  PROVE  HeadersRedacted /\ QueryRedacted
<1>1. PICK h : h = Gather(Entries(c)) /\ HeaderMap(h)
  BY ClientMap, Zenon
<1>2. a.Headers = h /\ p.Headers = h /\ a.RawQuery = c.query /\ p.RawQuery = c.query
  BY <1>1, Zenon DEF Parts, BothSee
<1>3. \A r : RequestAttrs(r, lg).headers = LoggedHeaders(r.Headers, lg)
             /\ RequestAttrs(r, lg).query = redactedQuery(r.RawQuery, lg)
             /\ RequestAttrs(r, lg).contentType = LoggedType(r.Headers)
  BY DEF RequestAttrs
<1>4. call.log.headers = LoggedHeaders(h, lg) /\ call.procLog.headers = LoggedHeaders(h, lg)
      /\ call.log.query = redactedQuery(c.query, lg) /\ call.procLog.query = redactedQuery(c.query, lg)
      /\ call.log.contentType = LoggedType(h) /\ call.procLog.contentType = LoggedType(h)
  BY <1>2, <1>3, Zenon DEF Parts
<1>5. call.authz.headers = HeadersAll(h) /\ call.proc.headers = HeadersAll(h)
  <2>1. VarOf(call.authz, a) /\ VarOf(call.proc, p)
    BY RequestVarIs, Zenon DEF Parts
  <2> QED
    BY <1>2, <2>1, Zenon DEF VarOf
<1>6. call.op = "request" /\ call.lg = lg /\ call.query = c.query
  BY Zenon DEF Parts
<1>7. lg.redactReveal \in Int
  BY LoggingsAssumption
<1>8. HeadersRedacted
  <2> SUFFICES ASSUME 2 * lg.redactReveal < IntHalf
               PROVE  /\ HeadersLogged(HeadersAll(h), call.log, lg)
                      /\ HeadersLogged(HeadersAll(h), call.procLog, lg)
    BY <1>5, <1>6, Zenon DEF HeadersRedacted
  <2> QED
    BY <1>1, <1>4, <1>7, LogRight, Zenon
<1>9. QueryRedacted
  <2>1. QueryShown(c.query, redactedQuery(c.query, lg), lg.redactQueryParams)
    BY ClientFields, QueryRight, Zenon
  <2>2. QueryShown(call.query, call.log.query, call.lg.redactQueryParams)
        /\ QueryShown(call.query, call.procLog.query, call.lg.redactQueryParams)
    BY <1>4, <1>6, <2>1, Zenon
  <2>3. \A x \in {call.log, call.procLog} : QueryShown(call.query, x.query, call.lg.redactQueryParams)
    BY <2>2, Zenon
  <2> QED
    BY <2>3, Zenon DEF QueryRedacted, QueryShown, PairShown
<1> QED
  BY <1>8, <1>9, Zenon

\* So is the response's.
LEMMA ResponseLogged ==
  ASSUME NEW hs, IsResponse(hs), NEW lg \in Loggings, ResponseParts(hs, lg)
  PROVE  HeadersRedacted
<1>1. PICK h : h = HeadersOf(hs, {":status"}) /\ HeaderMap(h)
  BY ResponseMap, Zenon
<1>2. /\ call.op = "response" /\ call.lg = lg /\ call.var.headers = HeadersAll(h)
      /\ call.log.headers = LoggedHeaders(h, lg) /\ call.log.contentType = LoggedType(h)
  BY <1>1, Zenon DEF ResponseParts
<1>3. lg.redactReveal \in Int
  BY LoggingsAssumption
<1>4. "response" # "request"
  OBVIOUS
<1> SUFFICES ASSUME 2 * lg.redactReveal < IntHalf
             PROVE  HeadersLogged(HeadersAll(h), call.log, lg)
  BY <1>2, <1>4, Zenon DEF HeadersRedacted
<1> QED
  BY <1>1, <1>2, <1>3, LogRight, Zenon

\* Every state is idle or holds the answer to one call.
Answers ==
  \/ call = Idle
  \/ \E l \in Lexings : call = [op |-> "compile", expr |-> l, out |-> Compile(l)]
  \/ \E g \in Patterns :
       call = [op |-> "glob", pattern |-> g, out |-> {s \in Strings : matchGlob(s, g)}]
  \/ \E x \in Requested, raw \in BOOLEAN, lg \in Loggings : SawRequest(x, raw, lg)
  \/ \E hs \in Responses, lg \in Loggings : SawResponse(hs, lg)

\* It is so from the start, and each call leaves it so.
THEOREM CallsAnswered == TextSpec => []Answers
<1>1. TextInit => Answers
  BY DEF TextInit, Answers
<1>2. Answers /\ [TextNext]_call => Answers'
  <2> SUFFICES ASSUME Answers, [TextNext]_call
               PROVE  Answers'
    OBVIOUS
  <2>1. CASE Parse
    BY <2>1, Zenon DEF Parse, Answers
  <2>2. CASE Match
    BY <2>2, Zenon DEF Match, Answers
  <2>3. CASE See
    BY <2>3, Zenon DEF See, Answers, SawRequest
  <2>4. CASE SeeResponse
    BY <2>4, Zenon DEF SeeResponse, Answers, SawResponse
  <2>5. CASE Return
    BY <2>5, Zenon DEF Return, Answers, Idle
  <2>6. CASE UNCHANGED call
    BY <2>6, Zenon DEF Answers, SawRequest, SawResponse
  <2> QED
    BY <2>1, <2>2, <2>3, <2>4, <2>5, <2>6, Zenon DEF TextNext
<1> QED
  BY <1>1, <1>2, PTL DEF TextSpec

\* The kinds of answer.
LEMMA Kinds ==
  ASSUME Answers
  PROVE  \/ call.op = "none"
         \/ call.op = "compile" /\ \E l \in Lexings : call.expr = l /\ call.out = Compile(l)
         \/ call.op = "glob" /\ \E g \in Patterns :
              call.pattern = g /\ call.out = {s \in Strings : matchGlob(s, g)}
         \/ call.op = "request" /\ \E x \in Requested, raw \in BOOLEAN, lg \in Loggings : SawRequest(x, raw, lg)
         \/ call.op = "response" /\ \E hs \in Responses, lg \in Loggings : SawResponse(hs, lg)
<1>1. CASE call = Idle
  BY <1>1 DEF Idle
<1>2. ASSUME NEW l \in Lexings, call = [op |-> "compile", expr |-> l, out |-> Compile(l)]
      PROVE  call.op = "compile" /\ call.expr = l /\ call.out = Compile(l)
  BY <1>2
<1>3. ASSUME NEW g \in Patterns, call = [op |-> "glob", pattern |-> g, out |-> {s \in Strings : matchGlob(s, g)}]
      PROVE  call.op = "glob" /\ call.pattern = g /\ call.out = {s \in Strings : matchGlob(s, g)}
  <2>1. PICK o : o = {s \in Strings : matchGlob(s, g)}
    OBVIOUS
  <2>2. call = [op |-> "glob", pattern |-> g, out |-> o]
    BY <1>3, <2>1, Zenon
  <2>3. call.op = "glob" /\ call.pattern = g /\ call.out = o
    BY <2>2
  <2> QED
    BY <2>1, <2>3, Zenon
<1>4. ASSUME NEW x \in Requested, NEW raw \in BOOLEAN, NEW lg \in Loggings, SawRequest(x, raw, lg)
      PROVE  call.op = "request"
  BY <1>4, SawParts, RequestedAssumption, Zenon DEF Parts
<1>5. ASSUME NEW hs \in Responses, NEW lg \in Loggings, SawResponse(hs, lg)
      PROVE  call.op = "response"
  BY <1>5, SawResponseParts, Zenon DEF ResponseParts
<1> QED
  BY <1>1, <1>2, <1>3, <1>4, <1>5, Zenon DEF Answers

\* The variables given to the expressions are faithful to what was sent, for
\* every request, response and list of words: both engines give a policy the same
\* request, its maps agree with each other, and a response is read as sent.
THEOREM Faithful == TextSpec => []VariablesFaithful
<1>1. Answers => VariablesFaithful
  <2> SUFFICES ASSUME Answers
               PROVE  VariablesFaithful
    OBVIOUS
  <2>1. ASSUME call.op # "request"
        PROVE  EnginesSeeSame /\ BucketsAgree
    BY <2>1, Zenon DEF EnginesSeeSame, BucketsAgree
  <2>2. ASSUME call.op # "response"
        PROVE  ResponseSeen
    BY <2>2, Zenon DEF ResponseSeen
  <2>3. ASSUME call.op = "request"
        PROVE  EnginesSeeSame /\ BucketsAgree
    <3>1. PICK x \in Requested, raw \in BOOLEAN, lg \in Loggings : SawRequest(x, raw, lg)
      BY <2>3, Kinds
    <3>2. IsClient(x)
      BY RequestedAssumption, Zenon
    <3>3. PICK a, p : Parts(x, lg, a, p)
      BY <3>1, <3>2, SawParts, Zenon
    <3> QED
      BY <3>2, <3>3, SeesSame, BucketsSame, Zenon
  <2>4. ASSUME call.op = "response"
        PROVE  ResponseSeen
    <3>1. PICK hs \in Responses, lg \in Loggings : SawResponse(hs, lg)
      BY <2>4, Kinds
    <3>2. IsResponse(hs)
      BY ResponsesAssumption, Zenon
    <3> QED
      BY <3>1, <3>2, SawResponseParts, SeesResponse, Zenon
  <2> QED
    BY <2>1, <2>2, <2>3, <2>4, Zenon DEF VariablesFaithful
<1> QED
  BY <1>1, CallsAnswered, PTL

\* The logged headers and the logged query show what the logging section lets them show,
\* and body.content_type follows a header that no list hides, for every request, response
\* and logging section.
THEOREM Redacted == TextSpec => []LogRedacted
<1>1. Answers => LogRedacted
  <2> SUFFICES ASSUME Answers
               PROVE  LogRedacted
    OBVIOUS
  <2>1. CASE call.op = "request"
    <3>1. PICK x \in Requested, raw \in BOOLEAN, lg \in Loggings : SawRequest(x, raw, lg)
      BY <2>1, Kinds
    <3>2. IsClient(x)
      BY RequestedAssumption, Zenon
    <3>3. PICK a, p : Parts(x, lg, a, p)
      BY <3>1, <3>2, SawParts, Zenon
    <3> QED
      BY <3>2, <3>3, RequestLogged, Zenon DEF LogRedacted
  <2>2. CASE call.op = "response"
    <3>1. PICK hs \in Responses, lg \in Loggings : SawResponse(hs, lg)
      BY <2>2, Kinds
    <3>2. IsResponse(hs)
      BY ResponsesAssumption, Zenon
    <3>3. HeadersRedacted
      BY <3>1, <3>2, SawResponseParts, ResponseLogged, Zenon
    <3>4. "response" # "request"
      OBVIOUS
    <3> QED
      BY <2>2, <3>3, <3>4, Zenon DEF LogRedacted, QueryRedacted
  <2>3. CASE call.op \notin {"request", "response"}
    BY <2>3, Zenon DEF LogRedacted, HeadersRedacted, QueryRedacted
  <2> QED
    BY <2>1, <2>2, <2>3, Zenon
<1> QED
  BY <1>1, CallsAnswered, PTL
=============================================================================
