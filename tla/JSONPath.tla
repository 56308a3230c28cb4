------------------------------ MODULE JSONPath ------------------------------
(***************************************************************************)
(* Eval of the JSONPath subset (jsonpath.go) and the decoded bodies it is  *)
(* applied to (tryYAML and normaliseDecoded of policy.go).                 *)
(*                                                                         *)
(* A document is a leaf, a list or a map.  A key of a map is a Go value:   *)
(* its type, and the text that fmt.Sprint gives.  The YAML decoder refuses *)
(* only keys written alike, so 1 and 1.0, or True and "true", are two keys *)
(* with one text.  Go walks a map in a random order, so the operators that *)
(* walk one give the set of the answers that can come out.                 *)
(***************************************************************************)
EXTENDS PathSyntax, SequencesExt

CONSTANT Names   \* the texts of keys, in the order of their bytes

Leaf(v)      == [kind |-> "leaf", v |-> v]
List(items)  == [kind |-> "list", items |-> items]
Map(ks)      == [kind |-> "map", keys |-> ks]
String(text) == [text |-> text, type |-> "string"]

\* n.(map[string]any): the decoders make one where all keys are strings.
IsMap(n)  == n.kind = "map" /\ \A k \in DOMAIN n.keys : k.type = "string"
IsList(n) == n.kind = "list"

\* The functions with a value of F[x] for every x.
Picks(F) == {f \in [DOMAIN F -> UNION Range(F)] : \A x \in DOMAIN F : f[x] \in F[x]}

-----------------------------------------------------------------------------
\* Slip: the maps inside a list keep their keys.
normaliseDecodedShallow(v) ==
  IF v.kind = "map"
  THEN {Map(ks) : ks \in Picks([s \in {String(k.text) : k \in DOMAIN v.keys} |->
                                 {v.keys[k] : k \in {x \in DOMAIN v.keys : x.text = s.text}}])}
  ELSE {v}

\* normaliseDecoded: every map at any depth gets string keys.  Of the keys with one text,
\* the one that the walk meets last leaves its value.
RECURSIVE normaliseDecoded(_)
normaliseDecoded(v) ==
  CASE v.kind = "map"  ->
         LET with(text) == {k \in DOMAIN v.keys : k.text = text} IN
         {Map(ks) : ks \in Picks([s \in {String(k.text) : k \in DOMAIN v.keys} |->
                                   UNION {normaliseDecoded(v.keys[k]) : k \in with(s.text)}])}
    [] v.kind = "list" ->
         {List(items) : items \in Picks([i \in DOMAIN v.items |-> normaliseDecoded(v.items[i])])}
    [] OTHER           -> {v}

-----------------------------------------------------------------------------
\* append: every answer of the first, then every answer of the next.
Each(answers) ==
  FoldLeft(LAMBDA acc, c : {a \o b : a \in acc, b \in c}, {<<>>}, answers)

Child(m, name) ==
  IF String(name) \in DOMAIN m.keys THEN <<m.keys[String(name)]>> ELSE <<>>

RECURSIVE collectRecursive(_, _)
collectRecursive(n, name) ==
  CASE IsMap(n) ->
         UNION {Each(<<{Child(n, name)}>> \o
                     [i \in DOMAIN ks |-> collectRecursive(n.keys[ks[i]], name)])
                : ks \in SetToSeqs(DOMAIN n.keys)}
    [] IsList(n) ->
         Each([i \in DOMAIN n.items |-> collectRecursive(n.items[i], name)])
    [] OTHER -> {<<>>}

Rank(k) == CHOOSE i \in DOMAIN Names : Names[i] = k.text

\* sortStrings: each key in turn is moved down to its place.
sortStrings(s) ==
  FoldLeft(LAMBDA sorted, k :
             InsertAt(sorted, Len(SelectSeq(sorted, LAMBDA x : Rank(x) <= Rank(k))) + 1, k),
           <<>>, s)

Item(a, i) == IF i >= 0 /\ i < Len(a) THEN <<a[i + 1]>> ELSE <<>>

\* What one step takes from one node.
Selected(n, s) ==
  CASE s.kind = "key" /\ IsMap(n)       -> {Child(n, s.name)}
    [] s.kind = "index" /\ IsList(n)    ->
         {Item(n.items, IF s.idx < 0 THEN Len(n.items) + s.idx ELSE s.idx)}
    [] s.kind = "wildcard" /\ IsList(n) -> {n.items}
    [] s.kind = "wildcard" /\ IsMap(n)  ->
         {LET ks == sortStrings(order) IN [i \in DOMAIN ks |-> n.keys[ks[i]]]
          : order \in SetToSeqs(DOMAIN n.keys)}
    [] s.kind = "recursive"             -> collectRecursive(n, s.name)
    [] OTHER                            -> {<<>>}

Eval(steps, root) ==
  FoldLeft(LAMBDA acc, s : UNION {Each([i \in DOMAIN ns |-> Selected(ns[i], s)]) : ns \in acc},
           {<<root>>}, steps)

=============================================================================
