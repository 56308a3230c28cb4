--------------------------- MODULE SequenceFacts ---------------------------
(***************************************************************************)
(* Facts about natural numbers and sequences that the proofs about         *)
(* compile(), EvaluateProc, requests and patterns rest on: induction, with *)
(* a property as the set of what has it, and what the operators of Loops   *)
(* give.                                                                   *)
(***************************************************************************)
EXTENDS Loops, WellFoundedInduction, TLAPS

\* A set of natural numbers has a least element.
LEMMA Least ==
  ASSUME NEW T \in SUBSET Nat, T # {}
  PROVE  \E n \in T : \A m \in T : n <= m
<1> DEFINE R == OpToRel(<, Nat)
<1>1. IsWellFoundedOn(R, Nat)
  BY NatLessThanWellFounded
<1>2. \A x, y \in Nat : x < y => <<x, y>> \in R
  BY DEF OpToRel
<1> HIDE DEF R
<1>3. \E x \in T : \A y \in T : ~(<<y, x>> \in R)
  BY <1>1, WFMin
<1>4. PICK x \in T : \A y \in T : ~(<<y, x>> \in R)
  BY <1>3
<1>5. \A y \in T : ~(y < x)
  BY <1>2, <1>4, Zenon
<1> QED
  BY <1>5

\* Induction.
LEMMA NatInduct ==
  ASSUME NEW T, 0 \in T, \A n \in Nat : n \in T => n + 1 \in T
  PROVE  Nat \subseteq T
<1> SUFFICES ASSUME Nat \ T # {} PROVE FALSE
  OBVIOUS
<1>1. PICK n \in Nat \ T : \A m \in Nat \ T : n <= m
  BY Least
<1>2. n # 0 /\ n - 1 \in Nat
  OBVIOUS
<1>3. n - 1 \in T
  BY <1>1, <1>2
<1> QED
  BY <1>2, <1>3

\* Induction on the length of a sequence.
LEMMA SeqInduct ==
  ASSUME NEW X, NEW T, <<>> \in T,
         \A s \in Seq(X), x \in X : s \in T => Append(s, x) \in T
  PROVE  Seq(X) \subseteq T
<1> DEFINE N == {n \in Nat : \A s \in Seq(X) : Len(s) = n => s \in T}
<1>1. 0 \in N
  OBVIOUS
<1>2. ASSUME NEW n \in Nat, n \in N
      PROVE  n + 1 \in N
  <2> SUFFICES ASSUME NEW s \in Seq(X), Len(s) = n + 1 PROVE s \in T
    OBVIOUS
  <2>1. /\ SubSeq(s, 1, n) \in Seq(X) /\ Len(SubSeq(s, 1, n)) = n /\ s[n + 1] \in X
        /\ s = Append(SubSeq(s, 1, n), s[n + 1])
    OBVIOUS
  <2> QED
    BY <1>2, <2>1
<1>3. Nat \subseteq N
  <2> HIDE DEF N
  <2> QED
    BY <1>1, <1>2, NatInduct
<1> QED
  BY <1>3

-----------------------------------------------------------------------------
(* Flatten.                                                                *)

\* The function Flatten is defined with: the concatenations of the first sequences.
IsFlatten(f, ss) == f = [i \in 0..Len(ss) |-> IF i = 0 THEN <<>> ELSE f[i - 1] \o ss[i]]

\* There is one.
LEMMA FlattenExists ==
  ASSUME NEW ss, Len(ss) \in Nat
  PROVE  \E f : IsFlatten(f, ss)
<1> DEFINE Upto(f, n) == f = [i \in 0..n |-> IF i = 0 THEN <<>> ELSE f[i - 1] \o ss[i]]
           N == {n \in Nat : \E f : Upto(f, n)}
<1>1. 0 \in N
  <2>1. PICK f : f = [i \in 0..0 |-> <<>>]
    BY Zenon
  <2>2. \A i \in 0..0 : i = 0
    OBVIOUS
  <2>3. Upto(f, 0)
    BY <2>1, <2>2, Zenon
  <2>4. 0 \in Nat
    OBVIOUS
  <2> QED
    BY <2>3, <2>4, Zenon
<1>2. ASSUME NEW n \in Nat, n \in N
      PROVE  n + 1 \in N
  <2>1. PICK f : Upto(f, n)
    BY <1>2
  <2> DEFINE e == f[n] \o ss[n + 1]
             g == [i \in 0..n + 1 |-> IF i = n + 1 THEN e ELSE f[i]]
  <2>2. ASSUME NEW i \in 0..n + 1
        PROVE  g[i] = IF i = 0 THEN <<>> ELSE g[i - 1] \o ss[i]
    <3>1. CASE i = n + 1
      <4>1. i # 0 /\ i - 1 \in 0..n + 1 /\ i - 1 # n + 1 /\ i - 1 = n
        BY <3>1
      <4>2. g[i] = e /\ g[i - 1] = f[n]
        BY <3>1, <4>1, Zenon
      <4> QED
        BY <3>1, <4>1, <4>2, Zenon
    <3>2. CASE i \in 0..n
      <4>1. i # n + 1 /\ (i # 0 => i - 1 \in 0..n + 1 /\ i - 1 # n + 1)
        BY <3>2
      <4>2. g[i] = f[i] /\ (i # 0 => g[i - 1] = f[i - 1])
        BY <4>1, Zenon
      <4>3. f[i] = IF i = 0 THEN <<>> ELSE f[i - 1] \o ss[i]
        BY <2>1, <3>2, Zenon
      <4> QED
        BY <4>2, <4>3, Zenon
    <3> QED
      BY <3>1, <3>2
  <2>3. g = [i \in 0..n + 1 |-> g[i]]
    OBVIOUS
  <2> HIDE DEF g
  <2>4. Upto(g, n + 1)
    BY <2>2, <2>3, Zenon
  <2>5. n + 1 \in Nat
    OBVIOUS
  <2> QED
    BY <2>4, <2>5, Zenon
<1> HIDE DEF N
<1>3. Len(ss) \in N
  BY <1>1, <1>2, NatInduct
<1> QED
  BY <1>3, Zenon DEF N, IsFlatten

\* Its values, one sequence more at each step.
Flattens(f, ss, n) ==
  /\ Flatten(ss) = f[n] /\ f[0] = <<>>
  /\ \A i \in Nat : i + 1 <= n => f[i + 1] = f[i] \o ss[i + 1]

\* There is one for all sequences.
LEMMA FlattenIs ==
  ASSUME NEW ss, NEW n \in Nat, Len(ss) = n
  PROVE  \E f : Flattens(f, ss, n)
<1> DEFINE f == CHOOSE f : IsFlatten(f, ss)
<1>1. IsFlatten(f, ss)
  BY FlattenExists, Zenon
<1>2. Flatten(ss) = IF Len(ss) = 0 THEN <<>> ELSE f[Len(ss)]
  BY Zenon DEF Flatten, IsFlatten
<1> HIDE DEF f
<1>3. \A i \in 0..n : f[i] = IF i = 0 THEN <<>> ELSE f[i - 1] \o ss[i]
  BY <1>1, Zenon DEF IsFlatten
<1>4. 0 \in 0..n /\ \A i \in Nat : i + 1 <= n => i + 1 \in 0..n /\ i + 1 # 0 /\ (i + 1) - 1 = i
  OBVIOUS
<1>5. Flattens(f, ss, n)
  BY <1>2, <1>3, <1>4, Zenon DEF Flattens
<1> QED
  BY <1>5, Zenon

\* Nothing gives nothing.
LEMMA FlattenEmpty == Flatten(<<>>) = <<>>
<1>1. PICK ss : ss = <<>>
  OBVIOUS
<1>2. Len(ss) = 0 /\ 0 \in Nat
  BY <1>1
<1>3. PICK f : Flattens(f, ss, 0)
  BY <1>2, FlattenIs, Zenon
<1> QED
  BY <1>1, <1>3, Zenon DEF Flattens

\* The last sequence comes last.
LEMMA FlattenAppend ==
  ASSUME NEW X, NEW ss \in Seq(Seq(X)), NEW s \in Seq(X)
  PROVE  Flatten(Append(ss, s)) = Flatten(ss) \o s
<1>1. PICK n \in Nat : Len(ss) = n
  OBVIOUS
<1>2. PICK tt : tt = Append(ss, s)
  BY Zenon
<1>3. Len(tt) = n + 1 /\ n + 1 \in Nat /\ tt[n + 1] = s /\ \A i \in 1..n : tt[i] = ss[i]
  BY <1>1, <1>2
<1>4. PICK f : /\ Flatten(tt) = f[n + 1] /\ f[0] = <<>>
               /\ \A i \in Nat : i + 1 <= n + 1 => f[i + 1] = f[i] \o tt[i + 1]
  <2>1. PICK m \in Nat : m = n + 1
    BY <1>3, Zenon
  <2>2. PICK f : Flattens(f, tt, m)
    BY <1>3, <2>1, FlattenIs, Zenon
  <2> QED
    BY <2>1, <2>2, Zenon DEF Flattens
<1>5. PICK g : /\ Flatten(ss) = g[n] /\ g[0] = <<>>
               /\ \A i \in Nat : i + 1 <= n => g[i + 1] = g[i] \o ss[i + 1]
  <2>1. PICK g : Flattens(g, ss, n)
    BY <1>1, FlattenIs
  <2> QED
    BY <2>1, Zenon DEF Flattens
<1> DEFINE N == {i \in Nat : i <= n => f[i] = g[i]}
<1>6. 0 \in N
  BY <1>4, <1>5
<1>7. ASSUME NEW i \in Nat, i \in N
      PROVE  i + 1 \in N
  <2>1. CASE i + 1 <= n
    <3>1. i <= n /\ i + 1 <= n + 1 /\ i + 1 \in 1..n /\ i + 1 \in Nat
      BY <2>1
    <3>2. f[i] = g[i] /\ tt[i + 1] = ss[i + 1]
      BY <1>3, <1>7, <3>1, Zenon
    <3> QED
      BY <1>4, <1>5, <2>1, <3>1, <3>2, Zenon
  <2>2. CASE ~(i + 1 <= n)
    BY <2>2
  <2> QED
    BY <2>1, <2>2
<1> HIDE DEF N
<1>8. n \in N
  BY <1>6, <1>7, NatInduct, Zenon
<1>9. n <= n /\ n + 1 <= n + 1
  OBVIOUS
<1>10. f[n] = g[n] /\ f[n + 1] = f[n] \o s
  BY <1>3, <1>4, <1>8, <1>9, Zenon DEF N
<1> QED
  BY <1>2, <1>4, <1>5, <1>10, Zenon

\* It is a sequence of elements of the sequences.
LEMMA FlattenType ==
  ASSUME NEW X, NEW ss \in Seq(Seq(X))
  PROVE  Flatten(ss) \in Seq(X)
<1> DEFINE T == {t \in Seq(Seq(X)) : Flatten(t) \in Seq(X)}
<1>1. <<>> \in T
  <2>1. <<>> \in Seq(Seq(X)) /\ <<>> \in Seq(X)
    OBVIOUS
  <2> QED
    BY <2>1, FlattenEmpty, Zenon
<1>2. ASSUME NEW t \in Seq(Seq(X)), NEW s \in Seq(X), t \in T
      PROVE  Append(t, s) \in T
  <2>1. Flatten(Append(t, s)) = Flatten(t) \o s
    BY FlattenAppend
  <2>2. PICK u \in Seq(X) : u = Flatten(t)
    BY <1>2, Zenon
  <2>3. u \o s \in Seq(X) /\ Append(t, s) \in Seq(Seq(X))
    OBVIOUS
  <2> QED
    BY <2>1, <2>2, <2>3, Zenon
<1> HIDE DEF T
<1>3. Seq(Seq(X)) \subseteq T
  BY <1>1, <1>2, SeqInduct, Zenon
<1> QED
  BY <1>3, Zenon DEF T

\* The elements of two sequences, one after the other.
LEMMA ConcatElements ==
  ASSUME NEW X, NEW u \in Seq(X), NEW v \in Seq(X)
  PROVE  Range(u \o v) = Range(u) \cup Range(v)
<1>1. PICK w : w = u \o v
  OBVIOUS
<1>2. DOMAIN u = 1..Len(u) /\ DOMAIN v = 1..Len(v) /\ DOMAIN w = 1..Len(u) + Len(v)
  BY <1>1
<1>3. \A x : x \in Range(u) => x \in Range(w)
  <2>1. \A i \in 1..Len(u) : i \in 1..Len(u) + Len(v) /\ w[i] = u[i]
    BY <1>1
  <2> QED
    BY <1>2, <2>1, Zenon DEF Range
<1>4. \A x : x \in Range(v) => x \in Range(w)
  <2>1. \A i \in 1..Len(v) : Len(u) + i \in 1..Len(u) + Len(v) /\ w[Len(u) + i] = v[i]
    BY <1>1
  <2> QED
    BY <1>2, <2>1, Zenon DEF Range
<1>5. \A x : x \in Range(w) => x \in Range(u) \/ x \in Range(v)
  <2>1. \A i \in 1..Len(u) + Len(v) :
          \/ i \in 1..Len(u) /\ w[i] = u[i]
          \/ i - Len(u) \in 1..Len(v) /\ w[i] = v[i - Len(u)]
    BY <1>1
  <2> QED
    BY <1>2, <2>1, Zenon DEF Range
<1> QED
  BY <1>1, <1>3, <1>4, <1>5, Zenon

\* Its elements are those of the sequences.
LEMMA FlattenElements ==
  ASSUME NEW X, NEW ss \in Seq(Seq(X))
  PROVE  Range(Flatten(ss)) = UNION {Range(ss[i]) : i \in 1..Len(ss)}
<1> DEFINE All(t) == UNION {Range(t[i]) : i \in 1..Len(t)}
           T == {t \in Seq(Seq(X)) : Range(Flatten(t)) = All(t)}
<1>0. \A u, v \in Seq(X) : Range(u \o v) = Range(u) \cup Range(v)
  BY ConcatElements
<1>1. <<>> \in T
  <2>1. <<>> \in Seq(Seq(X)) /\ Range(<<>>) = {} /\ All(<<>>) = {}
    BY DEF Range
  <2> QED
    BY <2>1, FlattenEmpty, Zenon
<1>2. ASSUME NEW t \in Seq(Seq(X)), NEW s \in Seq(X), t \in T
      PROVE  Append(t, s) \in T
  <2>1. Range(Flatten(Append(t, s))) = Range(Flatten(t)) \cup Range(s)
    <3>1. Flatten(t) \in Seq(X) /\ Flatten(Append(t, s)) = Flatten(t) \o s
      BY FlattenAppend, FlattenType, Zenon
    <3> QED
      BY <1>0, <3>1, Zenon
  <2>2. All(Append(t, s)) = All(t) \cup Range(s)
    <3>1. /\ Len(Append(t, s)) = Len(t) + 1 /\ Append(t, s)[Len(t) + 1] = s
          /\ \A i \in 1..Len(t) : Append(t, s)[i] = t[i]
      OBVIOUS
    <3>2. 1..Len(t) + 1 = (1..Len(t)) \cup {Len(t) + 1}
      OBVIOUS
    <3> QED
      BY <3>1, <3>2, Zenon
  <2>3. Append(t, s) \in Seq(Seq(X)) /\ Range(Flatten(t)) = All(t)
    BY <1>2
  <2> QED
    BY <2>1, <2>2, <2>3, Zenon
<1> HIDE DEF T
<1>3. Seq(Seq(X)) \subseteq T
  BY <1>1, <1>2, SeqInduct, Zenon
<1> QED
  BY <1>3, Zenon DEF T

\* It is empty where they all are, and starts as the first that is not.
LEMMA FlattenHead ==
  ASSUME NEW X, NEW ss \in Seq(Seq(X))
  PROVE  /\ Flatten(ss) = <<>> <=> \A i \in 1..Len(ss) : ss[i] = <<>>
         /\ \A k \in 1..Len(ss) :
              ss[k] # <<>> /\ (\A i \in 1..k - 1 : ss[i] = <<>>) => Flatten(ss)[1] = ss[k][1]
<1> DEFINE Nothing(t) == Flatten(t) = <<>> <=> \A i \in 1..Len(t) : t[i] = <<>>
           First(t)   == \A k \in 1..Len(t) :
              t[k] # <<>> /\ (\A i \in 1..k - 1 : t[i] = <<>>) => Flatten(t)[1] = t[k][1]
           T == {t \in Seq(Seq(X)) : Nothing(t) /\ First(t)}
<1>1. <<>> \in T
  BY FlattenEmpty
<1>2. ASSUME NEW t \in Seq(Seq(X)), NEW s \in Seq(X), t \in T
      PROVE  Append(t, s) \in T
  <2>1. PICK u \in Seq(X) : u = Flatten(t)
    BY FlattenType, Zenon
  <2>2. PICK v \in Seq(X) : v = Flatten(Append(t, s)) /\ v = u \o s
    <3>1. Append(t, s) \in Seq(Seq(X))
      OBVIOUS
    <3> QED
      BY <2>1, <3>1, FlattenAppend, FlattenType, Zenon
  <2>3. PICK n \in Nat : Len(t) = n
    OBVIOUS
  <2>4. PICK tt \in Seq(Seq(X)) : /\ tt = Append(t, s) /\ Len(tt) = n + 1 /\ tt[n + 1] = s
                                 /\ \A i \in 1..n : tt[i] = t[i]
    <3>1. Append(t, s) \in Seq(Seq(X)) /\ Len(Append(t, s)) = n + 1 /\ Append(t, s)[n + 1] = s
          /\ \A i \in 1..n : Append(t, s)[i] = t[i]
      BY <2>3
    <3> QED
      BY <3>1, Zenon
  <2>5. /\ v = <<>> <=> u = <<>> /\ s = <<>>
        /\ u # <<>> => v[1] = u[1]
        /\ u = <<>> => v = s
    <3>1. Len(v) = Len(u) + Len(s) /\ Len(u) \in Nat /\ Len(s) \in Nat
      BY <2>2
    <3>2. /\ v = <<>> <=> Len(v) = 0
          /\ u = <<>> <=> Len(u) = 0
          /\ s = <<>> <=> Len(s) = 0
      OBVIOUS
    <3>3. v = <<>> <=> u = <<>> /\ s = <<>>
      BY <3>1, <3>2
    <3>4. ASSUME u # <<>> PROVE v[1] = u[1]
      <4>1. 1 \in 1..Len(u)
        BY <3>1, <3>2, <3>4
      <4> QED
        BY <2>2, <4>1
    <3>5. ASSUME u = <<>> PROVE v = s
      <4>1. <<>> \o s = s
        OBVIOUS
      <4> QED
        BY <2>2, <3>5, <4>1, Zenon
    <3> QED
      BY <3>3, <3>4, <3>5, Zenon
  <2>6. Nothing(t) /\ First(t)
    BY <1>2
  <2>7. 1..n + 1 = (1..n) \cup {n + 1}
    OBVIOUS
  <2>8. Nothing(tt)
    BY <2>1, <2>2, <2>3, <2>4, <2>5, <2>6, <2>7, Zenon
  <2>9. ASSUME NEW k \in 1..n + 1, tt[k] # <<>>, \A i \in 1..k - 1 : tt[i] = <<>>
        PROVE  v[1] = tt[k][1]
    <3>1. CASE k \in 1..n
      <4>1. t[k] # <<>> /\ \A i \in 1..k - 1 : t[i] = <<>>
        BY <2>4, <2>9, <3>1
      <4>2. u # <<>> /\ u[1] = t[k][1]
        BY <2>1, <2>3, <2>6, <3>1, <4>1, Zenon
      <4> QED
        BY <2>4, <2>5, <3>1, <4>2, Zenon
    <3>2. CASE k = n + 1
      <4>1. \A i \in 1..n : t[i] = <<>>
        BY <2>4, <2>9, <3>2
      <4>2. u = <<>>
        BY <2>1, <2>3, <2>6, <4>1, Zenon
      <4> QED
        BY <2>4, <2>5, <3>2, <4>2, Zenon
    <3> QED
      BY <3>1, <3>2, <2>7, Zenon
  <2>10. First(tt)
    BY <2>2, <2>4, <2>9, Zenon
  <2> QED
    BY <2>4, <2>8, <2>10, Zenon
<1> HIDE DEF T
<1>3. Seq(Seq(X)) \subseteq T
  BY <1>1, <1>2, SeqInduct, Zenon
<1> QED
  BY <1>3, Zenon DEF T

-----------------------------------------------------------------------------
(* What a loop appends that appends f[x] for each element x of a sequence. *)

FlatMap(f, s) == Flatten([n \in 1..Len(s) |-> f[s[n]]])
Maps(f, X, Y) == f \in [X -> Seq(Y)]

\* Loops over several sequences.
Each(f, ss) == [i \in 1..Len(ss) |-> FlatMap(f, ss[i])]

\* It appends sequences of the elements of f's values.
LEMMA FlatMapType ==
  ASSUME NEW X, NEW Y, NEW f, Maps(f, X, Y), NEW s \in Seq(X)
  PROVE  /\ [n \in 1..Len(s) |-> f[s[n]]] \in Seq(Seq(Y))
         /\ FlatMap(f, s) \in Seq(Y)
<1>1. [n \in 1..Len(s) |-> f[s[n]]] \in Seq(Seq(Y))
  BY DEF Maps
<1> QED
  BY <1>1, FlattenType, Zenon DEF FlatMap

\* Element by element.
LEMMA FlatMapAppend ==
  ASSUME NEW X, NEW Y, NEW f, Maps(f, X, Y)
  PROVE  /\ FlatMap(f, <<>>) = <<>>
         /\ \A s \in Seq(X), x \in X : FlatMap(f, Append(s, x)) = FlatMap(f, s) \o f[x]
<1>1. FlatMap(f, <<>>) = <<>>
  <2>1. [n \in 1..Len(<<>>) |-> f[<<>>[n]]] = <<>>
    OBVIOUS
  <2> QED
    BY <2>1, FlattenEmpty, Zenon DEF FlatMap
<1>2. ASSUME NEW s \in Seq(X), NEW x \in X
      PROVE  FlatMap(f, Append(s, x)) = FlatMap(f, s) \o f[x]
  <2> DEFINE ss == [n \in 1..Len(s) |-> f[s[n]]]
             t  == Append(s, x)
  <2>1. ss \in Seq(Seq(Y)) /\ f[x] \in Seq(Y)
    BY FlatMapType DEF Maps
  <2>2. [n \in 1..Len(t) |-> f[t[n]]] = Append(ss, f[x])
    OBVIOUS
  <2> HIDE DEF ss
  <2>3. Flatten(Append(ss, f[x])) = Flatten(ss) \o f[x]
    BY <2>1, FlattenAppend, Zenon
  <2> QED
    BY <2>2, <2>3, Zenon DEF FlatMap, ss
<1> QED
  BY <1>1, <1>2

\* A loop over two sequences, one after the other.
LEMMA FlatMapConcat ==
  ASSUME NEW X, NEW Y, NEW f, Maps(f, X, Y), NEW s \in Seq(X), NEW t \in Seq(X)
  PROVE  FlatMap(f, s \o t) = FlatMap(f, s) \o FlatMap(f, t)
<1> DEFINE T == {u \in Seq(X) : FlatMap(f, s \o u) = FlatMap(f, s) \o FlatMap(f, u)}
<1>0. \A u \in Seq(X) : FlatMap(f, u) \in Seq(Y)
  BY FlatMapType, Zenon
<1>1. <<>> \in T
  <2>1. s \o <<>> = s /\ <<>> \in Seq(X) /\ \A v \in Seq(Y) : v \o <<>> = v
    OBVIOUS
  <2>2. FlatMap(f, <<>>) = <<>> /\ FlatMap(f, s) \in Seq(Y)
    BY <1>0, FlatMapAppend, Zenon
  <2>3. FlatMap(f, s \o <<>>) = FlatMap(f, s) \o FlatMap(f, <<>>)
    BY <2>1, <2>2, Zenon
  <2> QED
    BY <2>1, <2>3, Zenon
<1>2. ASSUME NEW u \in Seq(X), NEW x \in X, u \in T
      PROVE  Append(u, x) \in T
  <2>1. s \o Append(u, x) = Append(s \o u, x) /\ s \o u \in Seq(X) /\ Append(u, x) \in Seq(X)
    OBVIOUS
  <2>2. FlatMap(f, s \o Append(u, x)) = (FlatMap(f, s) \o FlatMap(f, u)) \o f[x]
    <3>1. PICK w \in Seq(X) : w = s \o u
      BY <2>1, Zenon
    <3>2. FlatMap(f, Append(w, x)) = FlatMap(f, w) \o f[x]
      BY FlatMapAppend, Z3
    <3> QED
      BY <1>2, <2>1, <3>1, <3>2, Zenon
  <2>3. FlatMap(f, Append(u, x)) = FlatMap(f, u) \o f[x]
    BY FlatMapAppend, Z3
  <2>4. PICK a \in Seq(Y), b \in Seq(Y), c \in Seq(Y) :
          a = FlatMap(f, s) /\ b = FlatMap(f, u) /\ c = f[x]
    <3>1. f[x] \in Seq(Y)
      BY DEF Maps
    <3> QED
      BY <1>0, <3>1, Zenon
  <2>5. (a \o b) \o c = a \o (b \o c)
    <3>1. PICK y \in Seq(Y), z \in Seq(Y) : y = (a \o b) \o c /\ z = a \o (b \o c)
      <4>1. (a \o b) \o c \in Seq(Y) /\ a \o (b \o c) \in Seq(Y)
        OBVIOUS
      <4> QED
        BY <4>1, Zenon
    <3>2. Len(y) = Len(z) /\ \A i \in 1..Len(y) : y[i] = z[i]
      BY <3>1
    <3> QED
      BY <3>1, <3>2
  <2>6. FlatMap(f, s \o Append(u, x)) = FlatMap(f, s) \o FlatMap(f, Append(u, x))
    BY <2>2, <2>3, <2>4, <2>5, Zenon
  <2> QED
    BY <2>1, <2>6, Zenon
<1> HIDE DEF T
<1>3. Seq(X) \subseteq T
  BY <1>1, <1>2, SeqInduct, Zenon
<1> QED
  BY <1>3, Zenon DEF T

\* A loop over what other loops appended.
LEMMA FlatMapFlatten ==
  ASSUME NEW X, NEW Y, NEW f, Maps(f, X, Y), NEW ss \in Seq(Seq(X))
  PROVE  FlatMap(f, Flatten(ss)) = Flatten(Each(f, ss))
<1> DEFINE T == {tt \in Seq(Seq(X)) : FlatMap(f, Flatten(tt)) = Flatten(Each(f, tt))}
<1>0. \A u \in Seq(X) : FlatMap(f, u) \in Seq(Y)
  BY FlatMapType, Zenon
<1>1. <<>> \in T
  <2>1. <<>> \in Seq(Seq(X)) /\ Each(f, <<>>) = <<>>
    BY DEF Each
  <2> QED
    BY <2>1, FlattenEmpty, FlatMapAppend, Zenon
<1>2. ASSUME NEW tt \in Seq(Seq(X)), NEW s \in Seq(X), tt \in T
      PROVE  Append(tt, s) \in T
  <2>1. Append(tt, s) \in Seq(Seq(X)) /\ FlatMap(f, s) \in Seq(Y)
    BY <1>0
  <2>2. Each(f, tt) \in Seq(Seq(Y))
    BY <1>0 DEF Each
  <2>3. Each(f, Append(tt, s)) = Append(Each(f, tt), FlatMap(f, s))
    BY DEF Each
  <2>4. Flatten(tt) \in Seq(X) /\ Flatten(Append(tt, s)) = Flatten(tt) \o s
    BY FlattenAppend, FlattenType, Zenon
  <2>5. FlatMap(f, Flatten(Append(tt, s))) = FlatMap(f, Flatten(tt)) \o FlatMap(f, s)
    <3>1. PICK u \in Seq(X) : u = Flatten(tt)
      BY <2>4, Zenon
    <3>2. FlatMap(f, u \o s) = FlatMap(f, u) \o FlatMap(f, s)
      BY FlatMapConcat, Z3
    <3> QED
      BY <2>4, <3>1, <3>2, Zenon
  <2>6. Flatten(Append(Each(f, tt), FlatMap(f, s))) = Flatten(Each(f, tt)) \o FlatMap(f, s)
    BY <2>1, <2>2, FlattenAppend, Zenon
  <2> QED
    BY <1>2, <2>1, <2>3, <2>5, <2>6, Zenon
<1> HIDE DEF T
<1>3. Seq(Seq(X)) \subseteq T
  BY <1>1, <1>2, SeqInduct, Zenon
<1> QED
  BY <1>3, Zenon DEF T

\* A loop that keeps every element, and one that keeps none.
Keeps(f, s) == \A n \in 1..Len(s) : f[s[n]] = <<s[n]>>
Drops(f, s) == \A n \in 1..Len(s) : f[s[n]] = <<>>

\* The first gives its sequence, the second nothing.
LEMMA FlatMapUniform ==
  ASSUME NEW X, NEW Y, NEW f, Maps(f, X, Y), NEW s \in Seq(X)
  PROVE  /\ Keeps(f, s) => FlatMap(f, s) = s
         /\ Drops(f, s) => FlatMap(f, s) = <<>>
<1> USE DEF Keeps, Drops
<1> DEFINE A(t) == Keeps(f, t) => FlatMap(f, t) = t
           B(t) == Drops(f, t) => FlatMap(f, t) = <<>>
           T == {t \in Seq(X) : A(t) /\ B(t)}
<1>1. <<>> \in T
  BY FlatMapAppend
<1>2. ASSUME NEW t \in Seq(X), NEW x \in X, t \in T
      PROVE  Append(t, x) \in T
  <2>1. FlatMap(f, Append(t, x)) = FlatMap(f, t) \o f[x]
    BY FlatMapAppend, Z3
  <2>2. PICK n \in Nat : n = Len(t)
    OBVIOUS
  <2>3. /\ Append(t, x) \in Seq(X) /\ Len(Append(t, x)) = n + 1 /\ Append(t, x)[n + 1] = x
        /\ (\A i \in 1..n : Append(t, x)[i] = t[i]) /\ n + 1 \in 1..n + 1
        /\ \A i \in 1..n : i \in 1..n + 1
    BY <2>2
  <2>4. t \o <<x>> = Append(t, x) /\ <<>> \o <<>> = <<>>
    OBVIOUS
  <2>5. A(Append(t, x))
    BY <1>2, <2>1, <2>2, <2>3, <2>4, Zenon
  <2>6. B(Append(t, x))
    BY <1>2, <2>1, <2>2, <2>3, <2>4, Zenon
  <2> QED
    BY <2>3, <2>5, <2>6, Zenon
<1> HIDE DEF T
<1>3. Seq(X) \subseteq T
  BY <1>1, <1>2, SeqInduct, Zenon
<1> QED
  BY <1>3, Zenon DEF T

-----------------------------------------------------------------------------
(* Sequences, with the set of their elements unexpanded, and loops.        *)

\* What is in a sequence.
LEMMA ElementsIn ==
  ASSUME NEW X, NEW s \in Seq(X)
  PROVE  Len(s) \in Nat /\ DOMAIN s = 1..Len(s) /\ \A i \in 1..Len(s) : s[i] \in X
  OBVIOUS

\* A sequence from its elements.
LEMMA MadeOf ==
  ASSUME NEW X, NEW n \in Nat, NEW s, s = [i \in 1..n |-> s[i]], \A i \in 1..n : s[i] \in X
  PROVE  s \in Seq(X) /\ Len(s) = n
  OBVIOUS

\* a is u with e at its end.
Extends(a, u, e, n) ==
  /\ Len(a) = n + 1 /\ a = [i \in 1..n + 1 |-> a[i]]
  /\ a[n + 1] = e /\ \A i \in 1..n : a[i] = u[i]

\* As Append makes it.
LEMMA AppendIs ==
  ASSUME NEW X, NEW u \in Seq(X), NEW e \in X
  PROVE  Append(u, e) \in Seq(X) /\ Extends(Append(u, e), u, e, Len(u))
<1>1. PICK a : a = Append(u, e)
  OBVIOUS
<1>2. PICK n \in Nat : n = Len(u)
  OBVIOUS
<1>3. a \in Seq(X) /\ Len(a) = n + 1 /\ a[n + 1] = e
  BY <1>1, <1>2
<1>4. \A i \in 1..n : a[i] = u[i]
  BY <1>1, <1>2
<1>5. a = [i \in 1..n + 1 |-> a[i]]
  BY <1>3
<1> QED
  BY <1>1, <1>2, <1>3, <1>4, <1>5, Zenon DEF Extends

\* Such a loop makes the sequence of those elements.
LEMMA FlattenSingles ==
  ASSUME NEW X, NEW u \in Seq(X)
  PROVE  Flatten([n \in 1..Len(u) |-> <<u[n]>>]) = u
<1> DEFINE f == [x \in X |-> <<x>>]
<1>1. Maps(f, X, X)
  <2>1. \A x \in X : <<x>> \in Seq(X)
    OBVIOUS
  <2> QED
    BY <2>1 DEF Maps
<1>2. \A n \in 1..Len(u) : u[n] \in X
  OBVIOUS
<1>3. Keeps(f, u)
  BY <1>2, Zenon DEF Keeps
<1>4. FlatMap(f, u) = u
  BY <1>1, <1>3, FlatMapUniform, Zenon
<1>5. [n \in 1..Len(u) |-> f[u[n]]] = [n \in 1..Len(u) |-> <<u[n]>>]
  BY <1>2, Zenon
<1> QED
  BY <1>4, <1>5, Zenon DEF FlatMap

\* A loop over two sequences of turns.
LEMMA FlattenConcat ==
  ASSUME NEW X, NEW ss \in Seq(Seq(X)), NEW tt \in Seq(Seq(X))
  PROVE  Flatten(ss \o tt) = Flatten(ss) \o Flatten(tt)
<1> DEFINE f == [x \in Seq(X) |-> x]
<1>1. Maps(f, Seq(X), X)
  BY DEF Maps
<1>2. ASSUME NEW uu \in Seq(Seq(X))
      PROVE  FlatMap(f, uu) = Flatten(uu)
  <2>1. \A n \in 1..Len(uu) : uu[n] \in Seq(X)
    OBVIOUS
  <2>2. uu = [n \in 1..Len(uu) |-> uu[n]]
    OBVIOUS
  <2>3. [n \in 1..Len(uu) |-> f[uu[n]]] = [n \in 1..Len(uu) |-> uu[n]]
    BY <2>1, Zenon
  <2> QED
    BY <2>2, <2>3, Zenon DEF FlatMap
<1>3. PICK uu : uu = ss \o tt
  OBVIOUS
<1>4. uu \in Seq(Seq(X))
  BY <1>3
<1> HIDE DEF f
<1>5. PICK Y : Y = Seq(X)
  OBVIOUS
<1>6. Maps(f, Y, X) /\ ss \in Seq(Y) /\ tt \in Seq(Y)
  BY <1>1, <1>5, Zenon
<1>7. FlatMap(f, ss \o tt) = FlatMap(f, ss) \o FlatMap(f, tt)
  BY <1>6, FlatMapConcat, SMT
<1> QED
  BY <1>2, <1>3, <1>4, <1>7, Zenon

\* f holds what a loop of n turns has made of base after each turn, F[i] being turn i.
Unrolls(f, F, base, n) == f[0] = base /\ \A i \in Nat : i + 1 <= n => f[i + 1] = F[i + 1][f[i]]

\* There are such values as long as the turns stay in a set.
LEMMA LoopExists ==
  ASSUME NEW S, NEW F, NEW base \in S, NEW n \in Nat,
         \A i \in 1..n : F[i] \in [S -> S]
  PROVE  \E f \in [0..n -> S] : Unrolls(f, F, base, n)
<1> DEFINE N == {m \in Nat : m <= n => \E f \in [0..m -> S] : Unrolls(f, F, base, m)}
<1>1. 0 \in N
  <2>1. PICK f : f = [i \in 0..0 |-> base]
    BY Zenon
  <2>2. f \in [0..0 -> S] /\ f[0] = base
    BY <2>1
  <2>3. \A i \in Nat : ~(i + 1 <= 0)
    OBVIOUS
  <2>4. Unrolls(f, F, base, 0)
    BY <2>2, <2>3, Zenon DEF Unrolls
  <2>5. 0 \in Nat
    OBVIOUS
  <2> QED
    BY <2>2, <2>4, <2>5, Zenon
<1>2. ASSUME NEW m \in Nat, m \in N
      PROVE  m + 1 \in N
  <2> SUFFICES ASSUME m + 1 <= n
               PROVE  \E f \in [0..m + 1 -> S] : Unrolls(f, F, base, m + 1)
    <3>1. m + 1 \in Nat
      OBVIOUS
    <3> QED
      BY <3>1, Zenon
  <2>1. m <= n /\ m + 1 \in 1..n /\ m \in 0..m
    OBVIOUS
  <2>2. PICK f \in [0..m -> S] : Unrolls(f, F, base, m)
    BY <1>2, <2>1, Zenon
  <2>3. PICK e : e = F[m + 1][f[m]]
    OBVIOUS
  <2>4. e \in S
    <3>1. F[m + 1] \in [S -> S] /\ f[m] \in S
      BY <2>1, Zenon
    <3> QED
      BY <2>3, <3>1
  <2>5. PICK g : g = [i \in 0..m + 1 |-> IF i = m + 1 THEN e ELSE f[i]]
    OBVIOUS
  <2>6. g \in [0..m + 1 -> S]
    <3>1. \A i \in 0..m + 1 : i # m + 1 => i \in 0..m
      OBVIOUS
    <3> QED
      BY <2>4, <2>5, <3>1, Zenon
  <2>7. g[m + 1] = e /\ \A i \in 0..m : g[i] = f[i]
    <3>1. m + 1 \in 0..m + 1 /\ \A i \in 0..m : i # m + 1 /\ i \in 0..m + 1
      OBVIOUS
    <3> QED
      BY <2>5, <3>1, Zenon
  <2>8. ASSUME NEW i \in Nat, i + 1 <= m + 1
        PROVE  g[i + 1] = F[i + 1][g[i]]
    <3>1. CASE i = m
      BY <2>1, <2>3, <2>7, <3>1, Zenon
    <3>2. CASE i # m
      <4>1. i + 1 <= m /\ i \in 0..m /\ i + 1 \in 0..m
        BY <2>8, <3>2
      <4>2. f[i + 1] = F[i + 1][f[i]]
        BY <2>2, <4>1, Zenon DEF Unrolls
      <4> QED
        BY <2>7, <4>1, <4>2, Zenon
    <3> QED
      BY <3>1, <3>2
  <2>9. g[0] = base
    <3>1. 0 \in 0..m
      OBVIOUS
    <3> QED
      BY <2>2, <2>7, <3>1, Zenon DEF Unrolls
  <2>10. Unrolls(g, F, base, m + 1)
    BY <2>8, <2>9, Zenon DEF Unrolls
  <2> QED
    BY <2>6, <2>10, Zenon
<1> HIDE DEF N
<1>3. n \in N
  BY <1>1, <1>2, NatInduct, Zenon
<1>4. n <= n
  OBVIOUS
<1> QED
  BY <1>3, <1>4, Zenon DEF N

\* The n turns of two loops do the same.
InStep(f, g, n) ==
  f[0] = g[0] /\ \A i \in Nat : i + 1 <= n /\ f[i] = g[i] => f[i + 1] = g[i + 1]

\* Then the loops end the same.
LEMMA LoopsAgree ==
  ASSUME NEW f, NEW g, NEW n \in Nat, InStep(f, g, n)
  PROVE  f[n] = g[n]
<1> USE DEF InStep
<1> DEFINE N == {i \in Nat : i <= n => f[i] = g[i]}
<1>1. 0 \in N
  OBVIOUS
<1>2. ASSUME NEW i \in Nat, i \in N
      PROVE  i + 1 \in N
  <2>1. i + 1 <= n => i <= n
    OBVIOUS
  <2>2. i + 1 \in Nat
    OBVIOUS
  <2> QED
    BY <1>2, <2>1, <2>2, Zenon
<1> HIDE DEF N
<1>3. n \in N
  BY <1>1, <1>2, NatInduct, Zenon
<1>4. n <= n
  OBVIOUS
<1> QED
  BY <1>3, <1>4, Zenon DEF N

\* Maps of lists.
ListMaps(K, V) == UNION {[D -> Seq(V)] : D \in SUBSET K}

\* g is m with v at the end of the list of k.
Inserted(g, m, k, v) ==
  /\ DOMAIN g = DOMAIN m \cup {k} /\ \A x \in DOMAIN m : x # k => g[x] = m[x]
  /\ g[k] = IF k \in DOMAIN m THEN Append(m[k], v) ELSE <<v>>

\* As Insert makes it.
LEMMA InsertType ==
  ASSUME NEW K, NEW V, NEW m \in ListMaps(K, V), NEW k \in K, NEW v \in V
  PROVE  Insert(m, k, v) \in ListMaps(K, V) /\ Inserted(Insert(m, k, v), m, k, v)
<1>1. PICK D \in SUBSET K : m \in [D -> Seq(V)]
  BY DEF ListMaps
<1>2. PICK E : E = D \cup {k}
  OBVIOUS
<1>3. E \in SUBSET K /\ DOMAIN m = D
  BY <1>1, <1>2
<1>4. PICK g : g = Insert(m, k, v)
  OBVIOUS
<1>5. g = [x \in E |-> IF x # k THEN m[x] ELSE IF k \in DOMAIN m THEN Append(m[k], v) ELSE <<v>>]
  BY <1>2, <1>3, <1>4, Zenon DEF Insert
<1>6. \A x \in E : g[x] \in Seq(V)
  <2>1. <<v>> \in Seq(V) /\ \A x \in D : m[x] \in Seq(V) /\ Append(m[x], v) \in Seq(V)
    BY <1>1
  <2> QED
    BY <1>2, <1>3, <1>5, <2>1, Zenon
<1>7. g \in [E -> Seq(V)]
  <2>1. g = [x \in E |-> g[x]]
    BY <1>5, Zenon
  <2> QED
    BY <1>6, <2>1, Zenon
<1>8. g \in ListMaps(K, V)
  BY <1>3, <1>7, Zenon DEF ListMaps
<1>9. Inserted(g, m, k, v)
  BY <1>2, <1>3, <1>5, Zenon DEF Inserted
<1> QED
  BY <1>4, <1>8, <1>9, Zenon

\* The function Gather is defined with: the maps after each entry.
IsGather(f, kvs) ==
  f = [i \in 0..Len(kvs) |-> IF i = 0 THEN <<>> ELSE Insert(f[i - 1], kvs[i].key, kvs[i].value)]

\* Its values.
Gathers(f, kvs, n) ==
  /\ Gather(kvs) = f[n] /\ f[0] = <<>>
  /\ \A i \in Nat : i + 1 <= n => f[i + 1] = Insert(f[i], kvs[i + 1].key, kvs[i + 1].value)

\* There are such values.
LEMMA GatherIs ==
  ASSUME NEW K, NEW V, NEW kvs \in Seq([key : K, value : V])
  PROVE  \E f : Gathers(f, kvs, Len(kvs))
<1>1. PICK n \in Nat : n = Len(kvs)
  OBVIOUS
<1>2. PICK S : S = ListMaps(K, V)
  OBVIOUS
<1>3. <<>> \in S
  <2>1. <<>> \in [{} -> Seq(V)] /\ {} \in SUBSET K
    OBVIOUS
  <2> QED
    BY <1>2, <2>1, Zenon DEF ListMaps
<1>4. \A i \in 1..n : kvs[i].key \in K /\ kvs[i].value \in V
  <2>1. \A i \in 1..n : kvs[i] \in [key : K, value : V]
    BY <1>1, ElementsIn, Zenon
  <2> QED
    BY <2>1
<1>5. PICK F : F = [i \in 1..n |-> [m \in S |-> Insert(m, kvs[i].key, kvs[i].value)]]
  OBVIOUS
<1>6. \A i \in 1..n : F[i] \in [S -> S]
  <2> SUFFICES ASSUME NEW i \in 1..n PROVE F[i] \in [S -> S]
    OBVIOUS
  <2>1. \A m \in S : Insert(m, kvs[i].key, kvs[i].value) \in S
    BY <1>2, <1>4, InsertType, Zenon
  <2> QED
    BY <1>5, <2>1, Zenon
<1>7. PICK f \in [0..n -> S] : Unrolls(f, F, <<>>, n)
  BY <1>3, <1>6, LoopExists, Zenon
<1>8. ASSUME NEW i \in 0..n
      PROVE  f[i] = IF i = 0 THEN <<>> ELSE Insert(f[i - 1], kvs[i].key, kvs[i].value)
  <2>1. CASE i = 0
    BY <1>7, <2>1, Zenon DEF Unrolls
  <2>2. CASE i # 0
    <3>1. PICK j \in Nat : i = j + 1 /\ j = i - 1 /\ j + 1 <= n /\ j \in 0..n /\ j + 1 \in 1..n
      BY <2>2, i - 1 \in Nat
    <3>2. f[j + 1] = F[j + 1][f[j]]
      BY <1>7, <3>1, Zenon DEF Unrolls
    <3>3. f[j] \in S
      BY <3>1
    <3>4. f[j + 1] = Insert(f[j], kvs[j + 1].key, kvs[j + 1].value)
      BY <1>5, <3>1, <3>2, <3>3, Zenon
    <3> QED
      BY <2>2, <3>1, <3>4, Zenon
  <2> QED
    BY <2>1, <2>2
<1>9. \E g : IsGather(g, kvs)
  <2>1. f = [i \in 0..n |-> f[i]]
    OBVIOUS
  <2> QED
    BY <1>1, <1>8, <2>1, Zenon DEF IsGather
<1> DEFINE g == CHOOSE g : IsGather(g, kvs)
<1>10. IsGather(g, kvs)
  BY <1>9, Zenon
<1>11. Gather(kvs) = g[n]
  BY <1>1, Zenon DEF Gather, IsGather
<1> HIDE DEF g
<1>12. \A i \in 0..n : g[i] = IF i = 0 THEN <<>> ELSE Insert(g[i - 1], kvs[i].key, kvs[i].value)
  BY <1>1, <1>10, Zenon DEF IsGather
<1>13. 0 \in 0..n /\ \A i \in Nat : i + 1 <= n => i + 1 \in 0..n /\ i + 1 # 0 /\ (i + 1) - 1 = i
  OBVIOUS
<1>14. Gathers(g, kvs, n)
  BY <1>11, <1>12, <1>13, Zenon DEF Gathers
<1> QED
  BY <1>1, <1>14, Zenon

\* No entry, no key.
LEMMA GatherEmpty == Gather(<<>>) = <<>>
<1>1. PICK kvs : kvs = <<>>
  OBVIOUS
<1>2. kvs \in Seq([key : {}, value : {}]) /\ Len(kvs) = 0
  BY <1>1
<1>3. PICK f : Gathers(f, kvs, Len(kvs))
  BY <1>2, GatherIs, Zenon
<1> QED
  BY <1>1, <1>2, <1>3, Zenon DEF Gathers

\* The last entry is inserted last.
LEMMA GatherAppend ==
  ASSUME NEW K, NEW V, NEW kvs \in Seq([key : K, value : V]), NEW kv \in [key : K, value : V]
  PROVE  Gather(Append(kvs, kv)) = Insert(Gather(kvs), kv.key, kv.value)
<1>1. PICK n \in Nat : n = Len(kvs)
  OBVIOUS
<1>2. PICK tt : tt = Append(kvs, kv)
  OBVIOUS
<1>3. tt \in Seq([key : K, value : V])
  BY <1>2
<1>4. Len(tt) = n + 1 /\ n + 1 \in Nat /\ tt[n + 1] = kv /\ \A i \in 1..n : tt[i] = kvs[i]
  BY <1>1, <1>2
<1>5. PICK f : Gathers(f, tt, Len(tt))
  BY <1>3, GatherIs, Zenon
<1>6. PICK g : Gathers(g, kvs, Len(kvs))
  BY GatherIs, Zenon
<1>7. f[0] = g[0]
  BY <1>5, <1>6, Zenon DEF Gathers
<1>8. ASSUME NEW i \in Nat, i + 1 <= n, f[i] = g[i]
      PROVE  f[i + 1] = g[i + 1]
  <2>1. i + 1 <= n + 1 /\ i + 1 \in 1..n
    BY <1>8
  <2>2. f[i + 1] = Insert(f[i], tt[i + 1].key, tt[i + 1].value)
    BY <1>4, <1>5, <2>1, Zenon DEF Gathers
  <2>3. g[i + 1] = Insert(g[i], kvs[i + 1].key, kvs[i + 1].value)
    BY <1>1, <1>6, <1>8, Zenon DEF Gathers
  <2> QED
    BY <1>4, <1>8, <2>1, <2>2, <2>3, Zenon
<1>9. f[n] = g[n]
  <2>1. InStep(f, g, n)
    BY <1>7, <1>8, Zenon DEF InStep
  <2> QED
    BY <1>1, <2>1, LoopsAgree, Zenon
<1>10. n + 1 <= n + 1
  OBVIOUS
<1>11. f[n + 1] = Insert(f[n], kv.key, kv.value)
  BY <1>4, <1>5, <1>10, Zenon DEF Gathers
<1> QED
  BY <1>1, <1>2, <1>4, <1>5, <1>6, <1>9, <1>11, Zenon DEF Gathers

\* The values of the entries with key k, in order.
Under(kvs, k) == Flatten([i \in 1..Len(kvs) |-> When(kvs[i].key = k, <<kvs[i].value>>)])

\* No entry, no value.
LEMMA UnderEmpty == \A k : Under(<<>>, k) = <<>>
<1> TAKE k
<1>1. [i \in 1..Len(<<>>) |-> When((<<>>)[i].key = k, <<(<<>>)[i].value>>)] = <<>>
  OBVIOUS
<1> QED
  BY <1>1, FlattenEmpty, Zenon DEF Under

\* Entry by entry.
UnderGrows(t, kvs, kv, k) ==
  Under(t, k) = IF kv.key = k THEN Append(Under(kvs, k), kv.value) ELSE Under(kvs, k)

\* The last entry comes last under its key.
LEMMA UnderAppend ==
  ASSUME NEW K, NEW V, NEW kvs \in Seq([key : K, value : V]), NEW kv \in [key : K, value : V],
         NEW k
  PROVE  Under(kvs, k) \in Seq(V) /\ UnderGrows(Append(kvs, kv), kvs, kv, k)
<1> USE DEF UnderGrows
<1> DEFINE Turns(l) == [i \in 1..Len(l) |-> When(l[i].key = k, <<l[i].value>>)]
<1>0. \A e \in [key : K, value : V] : When(e.key = k, <<e.value>>) \in Seq(V)
  <2>1. \A e \in [key : K, value : V] : <<e.value>> \in Seq(V) /\ <<>> \in Seq(V)
    OBVIOUS
  <2> QED
    BY <2>1, Zenon DEF When
<1>1. PICK tt : tt = Append(kvs, kv)
  OBVIOUS
<1>2. PICK n \in Nat : n = Len(kvs)
  OBVIOUS
<1>3. Len(tt) = n + 1 /\ tt[n + 1] = kv /\ \A i \in 1..n : tt[i] = kvs[i]
  BY <1>1, <1>2
<1>4. \A i \in 1..n : kvs[i] \in [key : K, value : V]
  BY <1>2, ElementsIn, Zenon
<1>5. PICK u : u = Turns(kvs)
  OBVIOUS
<1>6. PICK e : e = When(kv.key = k, <<kv.value>>)
  OBVIOUS
<1>7. u \in Seq(Seq(V)) /\ Len(u) = n /\ e \in Seq(V)
  <2>1. \A i \in 1..n : u[i] \in Seq(V)
    BY <1>0, <1>2, <1>4, <1>5, Zenon
  <2>2. u = [i \in 1..n |-> u[i]]
    BY <1>2, <1>5, Zenon
  <2>3. e \in Seq(V)
    BY <1>0, <1>6, Zenon
  <2> QED
    BY <2>1, <2>2, <2>3, MadeOf, Zenon
<1>8. Turns(tt) = Append(u, e)
  <2>1. PICK a : a = Append(u, e)
    OBVIOUS
  <2>2. a = [i \in 1..n + 1 |-> a[i]] /\ a[n + 1] = e /\ \A i \in 1..n : a[i] = u[i]
    <3>1. Extends(a, u, e, n)
      BY <1>7, <2>1, AppendIs, Zenon
    <3> QED
      BY <3>1, Zenon DEF Extends
  <2>3. \A i \in 1..n + 1 : i # n + 1 => i \in 1..n
    OBVIOUS
  <2>4. \A i \in 1..n + 1 : a[i] = When(tt[i].key = k, <<tt[i].value>>)
    BY <1>2, <1>3, <1>5, <1>6, <2>2, <2>3, Zenon
  <2> QED
    BY <1>3, <2>1, <2>2, <2>4, Zenon
<1>9. Under(tt, k) = Flatten(u) \o e
  BY <1>7, <1>8, FlattenAppend, Zenon DEF Under
<1>10. PICK r : r = Under(kvs, k)
  OBVIOUS
<1>11. r = Flatten(u) /\ r \in Seq(V)
  BY <1>5, <1>7, <1>10, FlattenType, Zenon DEF Under
<1>12. CASE kv.key = k
  <2>1. e = <<kv.value>> /\ kv.value \in V
    BY <1>6, <1>12 DEF When
  <2>2. r \o e = Append(r, kv.value)
    BY <1>11, <2>1
  <2> QED
    BY <1>1, <1>9, <1>10, <1>11, <1>12, <2>2, Zenon
<1>13. CASE kv.key # k
  <2>1. e = <<>>
    BY <1>6, <1>13 DEF When
  <2>2. r \o e = r
    BY <1>11, <2>1
  <2> QED
    BY <1>1, <1>9, <1>10, <1>11, <1>13, <2>2, Zenon
<1> QED
  BY <1>12, <1>13

\* m has for each key of the entries the values under it, and there are some.
Gathered(m, kvs, K, V) ==
  /\ m \in ListMaps(K, V) /\ DOMAIN m = {kvs[i].key : i \in 1..Len(kvs)}
  /\ \A k \in K : IF k \in DOMAIN m THEN m[k] = Under(kvs, k) /\ m[k] \in Seq(V) /\ m[k] # <<>>
                  ELSE Under(kvs, k) = <<>>

\* Gather makes it.
LEMMA GatherMade ==
  ASSUME NEW K, NEW V, NEW kvs \in Seq([key : K, value : V])
  PROVE  Gathered(Gather(kvs), kvs, K, V)
<1> DEFINE E == [key : K, value : V]
           T == {s \in Seq(E) : Gathered(Gather(s), s, K, V)}
<1>1. <<>> \in T
  <2>1. PICK s : s = <<>>
    OBVIOUS
  <2>2. s \in Seq(E) /\ {s[i].key : i \in 1..Len(s)} = {} /\ DOMAIN s = {}
    BY <2>1
  <2>3. s \in ListMaps(K, V)
    <3>1. <<>> \in [{} -> Seq(V)] /\ {} \in SUBSET K
      OBVIOUS
    <3> QED
      BY <2>1, <3>1, Zenon DEF ListMaps
  <2>4. \A k \in K : Under(s, k) = <<>>
    BY <2>1, UnderEmpty, Zenon
  <2>5. Gathered(s, s, K, V)
    BY <2>2, <2>3, <2>4, Zenon DEF Gathered
  <2> QED
    BY <2>1, <2>2, <2>5, GatherEmpty, Zenon
<1>2. ASSUME NEW s \in Seq(E), NEW kv \in E, s \in T
      PROVE  Append(s, kv) \in T
  <2>1. PICK t : t = Append(s, kv)
    OBVIOUS
  <2>2. PICK n \in Nat : n = Len(s)
    OBVIOUS
  <2>3. t \in Seq(E) /\ Extends(t, s, kv, n)
    BY <2>1, <2>2, AppendIs, Zenon
  <2>4. PICK m : m = Gather(s)
    OBVIOUS
  <2>5. PICK k, v : k = kv.key /\ v = kv.value
    BY Zenon
  <2>6. k \in K /\ v \in V
    BY <2>5
  <2>7. PICK g : g = Insert(m, k, v)
    OBVIOUS
  <2>8. Gather(t) = g
    <3>1. Gather(Append(s, kv)) = Insert(Gather(s), kv.key, kv.value)
      BY GatherAppend
    <3> QED
      BY <2>1, <2>4, <2>5, <2>7, <3>1, Zenon
  <2>9. Gathered(m, s, K, V)
    BY <1>2, <2>4, Zenon
  <2>10. m \in ListMaps(K, V) /\ DOMAIN m = {s[i].key : i \in 1..n}
    BY <2>2, <2>9, Zenon DEF Gathered
  <2>11. /\ g \in ListMaps(K, V) /\ DOMAIN g = DOMAIN m \cup {k}
         /\ \A x \in DOMAIN m : x # k => g[x] = m[x]
         /\ g[k] = IF k \in DOMAIN m THEN Append(m[k], v) ELSE <<v>>
    <3>1. g \in ListMaps(K, V) /\ Inserted(g, m, k, v)
      BY <2>6, <2>7, <2>10, InsertType, Zenon
    <3> QED
      BY <3>1, Zenon DEF Inserted
  <2>12. DOMAIN g = {t[i].key : i \in 1..Len(t)}
    <3>1. Len(t) = n + 1 /\ t[n + 1] = kv /\ \A i \in 1..n : t[i] = s[i]
      BY <2>3, Zenon DEF Extends
    <3>2. n + 1 \in 1..n + 1 /\ \A i \in 1..n + 1 : i = n + 1 \/ i \in 1..n
      OBVIOUS
    <3>3. \A i \in 1..n : i \in 1..n + 1
      OBVIOUS
    <3>4. \A x : x \in {t[i].key : i \in 1..n + 1} <=> x \in {s[i].key : i \in 1..n} \/ x = k
      BY <2>5, <3>1, <3>2, <3>3, Zenon
    <3> QED
      BY <2>10, <2>11, <3>1, <3>4, Zenon
  <2>13. ASSUME NEW x \in K
         PROVE  IF x \in DOMAIN g THEN g[x] = Under(t, x) /\ g[x] \in Seq(V) /\ g[x] # <<>>
                ELSE Under(t, x) = <<>>
    <3>1. Under(s, x) \in Seq(V) /\ UnderGrows(Append(s, kv), s, kv, x)
      BY UnderAppend, Zenon
    <3>2. Under(t, x) = IF kv.key = x THEN Append(Under(s, x), kv.value) ELSE Under(s, x)
      BY <2>1, <3>1, Zenon DEF UnderGrows
    <3>3. IF x \in DOMAIN m THEN m[x] = Under(s, x) /\ m[x] \in Seq(V) /\ m[x] # <<>>
          ELSE Under(s, x) = <<>>
      BY <2>9, Zenon DEF Gathered
    <3>4. CASE x = k
      <4>1. Under(t, x) = Append(Under(s, x), v)
        BY <2>5, <3>2, <3>4, Zenon
      <4>2. Append(<<>>, v) = <<v>>
        OBVIOUS
      <4>3. g[x] = Under(t, x) /\ x \in DOMAIN g
        BY <2>11, <3>3, <3>4, <4>1, <4>2, Zenon
      <4>4. PICK u \in Seq(V) : u = Under(s, x)
        BY <3>1, Zenon
      <4>5. Append(u, v) \in Seq(V) /\ Append(u, v) # <<>>
        BY <2>6
      <4> QED
        BY <4>1, <4>3, <4>4, <4>5, Zenon
    <3>5. CASE x # k
      <4>1. Under(t, x) = Under(s, x)
        BY <2>5, <3>2, <3>5, Zenon
      <4>2. x \in DOMAIN g <=> x \in DOMAIN m
        BY <2>11, <3>5, Zenon
      <4> QED
        BY <2>11, <3>3, <3>5, <4>1, <4>2, Zenon
    <3> QED
      BY <3>4, <3>5
  <2>14. Gathered(g, t, K, V)
    BY <2>11, <2>12, <2>13, Zenon DEF Gathered
  <2> QED
    BY <2>1, <2>3, <2>8, <2>14, Zenon
<1> HIDE DEF T
<1>3. Seq(E) \subseteq T
  BY <1>1, <1>2, SeqInduct
<1> QED
  BY <1>3, Zenon DEF T

\* One entry, one key.
LEMMA GatherOne ==
  ASSUME NEW k, NEW v
  PROVE  DOMAIN Gather(<<[key |-> k, value |-> v]>>) = {k}
         /\ Gather(<<[key |-> k, value |-> v]>>)[k] = <<v>>
<1>1. PICK K, V, kv : K = {k} /\ V = {v} /\ kv = [key |-> k, value |-> v]
  BY Zenon
<1>2. kv \in [key : K, value : V] /\ kv.key = k /\ kv.value = v /\ k \in K /\ v \in V
  BY <1>1
<1>3. PICK s : s = <<>>
  OBVIOUS
<1>a. s \in Seq([key : K, value : V]) /\ Append(s, kv) = <<kv>>
  BY <1>3
<1>4. Gather(<<kv>>) = Insert(<<>>, k, v)
  <2> DEFINE E == [key : K, value : V]
  <2>0. s \in Seq(E) /\ kv \in E
    BY <1>2, <1>a, Zenon
  <2>2. ASSUME NEW a \in Seq(E), NEW b \in E
        PROVE  Gather(Append(a, b)) = Insert(Gather(a), b.key, b.value)
    BY GatherAppend
  <2> HIDE DEF E
  <2>1. Gather(Append(s, kv)) = Insert(Gather(s), kv.key, kv.value)
    BY <2>0, <2>2, Zenon
  <2> QED
    BY <1>2, <1>3, <1>a, <2>1, GatherEmpty, Zenon
<1>5. <<>> \in ListMaps(K, V) /\ DOMAIN <<>> = {}
  <2>1. <<>> \in [{} -> Seq(V)] /\ {} \in SUBSET K
    OBVIOUS
  <2> QED
    BY <2>1, Zenon DEF ListMaps
<1>6. Inserted(Insert(<<>>, k, v), <<>>, k, v)
  BY <1>2, <1>5, InsertType, Zenon
<1>7. DOMAIN Insert(<<>>, k, v) = {} \cup {k} /\ Insert(<<>>, k, v)[k] = <<v>>
  BY <1>5, <1>6, Zenon DEF Inserted
<1>8. {} \cup {k} = {k}
  OBVIOUS
<1> QED
  BY <1>1, <1>4, <1>7, <1>8, Zenon

\* r is u followed by v.
Follows(r, u, v, m, n) ==
  /\ r = [i \in 1..m + n |-> r[i]] /\ Len(r) = m + n
  /\ \A i \in 1..m : r[i] = u[i]
  /\ \A i \in 1..n : r[m + i] = v[i]

\* As \o makes it.
LEMMA ConcatIs ==
  ASSUME NEW X, NEW u \in Seq(X), NEW v \in Seq(X)
  PROVE  u \o v \in Seq(X) /\ Follows(u \o v, u, v, Len(u), Len(v))
<1>1. PICK r : r = u \o v
  OBVIOUS
<1>2. r \in Seq(X) /\ Len(r) = Len(u) + Len(v)
  BY <1>1
<1>3. r = [i \in 1..Len(u) + Len(v) |-> r[i]]
  BY <1>2
<1>4. \A i \in 1..Len(u) : r[i] = u[i]
  BY <1>1
<1>5. \A i \in 1..Len(v) : r[Len(u) + i] = v[i]
  BY <1>1
<1> QED
  BY <1>1, <1>2, <1>3, <1>4, <1>5, Zenon DEF Follows

LastOf(s) == s[Len(s)]

\* What a loop appends ends as the last turn that appends something does.
LEMMA FlattenLast ==
  ASSUME NEW X, NEW ss \in Seq(Seq(X)), NEW k \in 1..Len(ss), ss[k] # <<>>,
         \A i \in k + 1..Len(ss) : ss[i] = <<>>
  PROVE  LastOf(Flatten(ss)) = LastOf(ss[k])
<1> DEFINE Last(t) == \A j \in 1..Len(t) :
              t[j] # <<>> /\ (\A i \in j + 1..Len(t) : t[i] = <<>>) => LastOf(Flatten(t)) = LastOf(t[j])
           T == {t \in Seq(Seq(X)) : Last(t)}
<1>1. <<>> \in T
  OBVIOUS
<1>2. ASSUME NEW t \in Seq(Seq(X)), NEW s \in Seq(X), t \in T
      PROVE  Append(t, s) \in T
  <2>1. PICK u \in Seq(X) : u = Flatten(t)
    BY FlattenType, Zenon
  <2>2. PICK v : v = Flatten(Append(t, s)) /\ v = u \o s
    BY <2>1, FlattenAppend, Zenon
  <2>3. PICK n \in Nat : Len(t) = n
    OBVIOUS
  <2>4. PICK tt \in Seq(Seq(X)) : /\ tt = Append(t, s) /\ Len(tt) = n + 1 /\ tt[n + 1] = s
                                 /\ \A i \in 1..n : tt[i] = t[i]
    <3>1. Append(t, s) \in Seq(Seq(X)) /\ Len(Append(t, s)) = n + 1 /\ Append(t, s)[n + 1] = s
          /\ \A i \in 1..n : Append(t, s)[i] = t[i]
      <4>1. Append(t, s) \in Seq(Seq(X)) /\ Extends(Append(t, s), t, s, n)
        BY <2>3, AppendIs, Zenon
      <4> QED
        BY <4>1, Zenon DEF Extends
    <3> QED
      BY <3>1, Zenon
  <2>5. /\ s # <<>> => LastOf(v) = LastOf(s)
        /\ s = <<>> => v = u
    BY <2>2 DEF LastOf
  <2>6. Last(t)
    BY <1>2
  <2>7. 1..n + 1 = (1..n) \cup {n + 1}
    OBVIOUS
  <2>9. ASSUME NEW j \in 1..n + 1, tt[j] # <<>>, \A i \in j + 1..n + 1 : tt[i] = <<>>
        PROVE  LastOf(v) = LastOf(tt[j])
    <3>1. CASE j \in 1..n
      <4>a. n + 1 \in j + 1..n + 1 /\ \A i \in j + 1..n : i \in 1..n /\ i \in j + 1..n + 1
        BY <3>1
      <4>1. t[j] # <<>> /\ \A i \in j + 1..n : t[i] = <<>>
        BY <2>4, <2>9, <3>1, <4>a, Zenon
      <4>b. s = <<>>
        BY <2>4, <2>9, <4>a, Zenon
      <4>2. LastOf(u) = LastOf(t[j])
        BY <2>1, <2>3, <2>6, <3>1, <4>1, Zenon
      <4> QED
        BY <2>4, <2>5, <3>1, <4>b, <4>2, Zenon
    <3>2. CASE j = n + 1
      BY <2>4, <2>5, <2>9, <3>2, Zenon
    <3> QED
      BY <3>1, <3>2, <2>7, Zenon
  <2>10. Last(tt)
    BY <2>2, <2>4, <2>9, Zenon
  <2> QED
    BY <2>4, <2>10, Zenon
<1> HIDE DEF T
<1>3. Seq(Seq(X)) \subseteq T
  BY <1>1, <1>2, SeqInduct, Zenon
<1>4. ss \in T
  BY <1>3, Zenon
<1>5. Last(ss)
  BY <1>4, Zenon DEF T
<1> QED
  BY <1>5, Zenon

\* A loop of one turn.
LEMMA FlatMapOne ==
  ASSUME NEW X, NEW Y, NEW f, Maps(f, X, Y), NEW x \in X
  PROVE  FlatMap(f, <<x>>) = f[x] /\ FlatMap(f, <<>>) = <<>>
<1>1. Append(<<>>, x) = <<x>> /\ <<>> \in Seq(X)
  OBVIOUS
<1>2. FlatMap(f, Append(<<>>, x)) = FlatMap(f, <<>>) \o f[x] /\ FlatMap(f, <<>>) = <<>>
  <2>1. \A s \in Seq(X), y \in X : FlatMap(f, Append(s, y)) = FlatMap(f, s) \o f[y]
    BY FlatMapAppend
  <2>2. FlatMap(f, <<>>) = <<>>
    BY FlatMapAppend
  <2> QED
    BY <1>1, <2>1, <2>2, Zenon
<1>3. f[x] \in Seq(Y)
  BY DEF Maps
<1>4. <<>> \o f[x] = f[x]
  BY <1>3
<1> QED
  BY <1>1, <1>2, <1>4, Zenon

\* z is s without its first k elements.
TailIs(z, s, k, n) == z = [i \in 1..n |-> z[i]] /\ Len(z) = n /\ \A i \in 1..n : z[i] = s[k + i]

\* As SubSeq makes it.
LEMMA SubSeqTail ==
  ASSUME NEW X, NEW s \in Seq(X), NEW k \in Nat, k <= Len(s)
  PROVE  TailIs(SubSeq(s, k + 1, Len(s)), s, k, Len(s) - k)
<1>1. PICK z : z = SubSeq(s, k + 1, Len(s))
  OBVIOUS
<1>2. z \in Seq(X)
  BY <1>1
<1>3. Len(z) = Len(s) - k
  BY <1>1
<1>4. \A i \in 1..Len(s) - k : z[i] = s[k + i]
  BY <1>1
<1>5. z = [i \in 1..Len(s) - k |-> z[i]]
  BY <1>2, <1>3
<1> QED
  BY <1>1, <1>3, <1>4, <1>5, Zenon DEF TailIs
=============================================================================
