--------------------------- MODULE PureFunctions ---------------------------
(***************************************************************************)
(* The pure functions of the validator: those on texts, and jsonPath() on  *)
(* a decoded body, called one at a time on every input of a bounded set.   *)
(***************************************************************************)
EXTENDS TextFunctions, JSONPath, FiniteSets

CONSTANTS Documents,    \* decoded bodies, before normaliseDecoded
          Expressions   \* compiled JSONPath expressions

Init == TextInit

\* request.body.yaml, and jsonPath() on it.
Select == /\ call = Idle
          /\ \E d \in Documents, e \in Expressions :
               call' = [op |-> "eval", root |-> d, steps |-> e,
                        out |-> UNION {Eval(e, n) : n \in normaliseDecoded(d)}]

Next == Select \/ Parse \/ Match \/ See \/ SeeResponse \/ Return
Spec == Init /\ [][Next]_call

-----------------------------------------------------------------------------
(* JSONPath by places: a place is the path from the root, and an answer is *)
(* a chain of places, one for each step.                                   *)

Edges(n) == CASE n.kind = "map"  -> {[key |-> k] : k \in DOMAIN n.keys}
              [] n.kind = "list" -> {[item |-> i] : i \in DOMAIN n.items}
              [] OTHER           -> {}
Along(n, e) == IF n.kind = "map" THEN n.keys[e.key] ELSE n.items[e.item]
Reached(root, p) == FoldLeft(Along, root, p)

RECURSIVE Places(_)
Places(n) == {<<>>} \cup UNION {{<<e>> \o p : p \in Places(Along(n, e))} : e \in Edges(n)}

\* The keys of a map that print as one text.
Alike(n, text) == IF n.kind = "map" THEN {k \in DOMAIN n.keys : k.text = text} ELSE {}

Follows(root, p, s, q) ==
  CASE s.kind = "key"      -> q \in {Append(p, [key |-> k]) : k \in Alike(Reached(root, p), s.name)}
    [] s.kind = "index"    ->
         q = Append(p, [item |-> IF s.idx < 0 THEN Cardinality(Edges(Reached(root, p))) + s.idx + 1
                                 ELSE s.idx + 1])
    [] s.kind = "wildcard" -> IsStrictPrefix(p, q) /\ Len(q) = Len(p) + 1
    [] s.kind = "recursive" ->
         /\ IsStrictPrefix(p, q)
         /\ Last(q) \in {[key |-> k] : k \in Alike(Reached(root, Front(q)), s.name)}

Chains(root, steps) ==
  {c \in [1..Len(steps) + 1 -> Places(root)] :
     c[1] = <<>> /\ \A i \in DOMAIN steps : Follows(root, c[i], steps[i], c[i + 1])}

Before(p, q) ==
  LET i == Min({j \in DOMAIN p : p[j] # q[j]}) IN
  IF "key" \in DOMAIN p[i] THEN Rank(p[i].key) < Rank(q[i].key) ELSE p[i].item < q[i].item

\* Some map has two keys that print alike.
Clash(root) ==
  \E p \in Places(root) : \E i \in DOMAIN Names : Cardinality(Alike(Reached(root, p), Names[i])) > 1

\* jsonPath() over a decoded body finds only values that the expression selects in the
\* document.  Where no two keys of a map print alike it finds them all, once for each way
\* to reach them, whatever the types of the keys; and without ".." the answer then does not
\* depend on the order in which Go walks a map: lists as they are, keys sorted.  Which of
\* two values under keys that print alike it finds is left to that order.
PathsFound ==
  call.op = "eval" =>
    LET ends == Chains(call.root, call.steps)
        n == Len(call.steps) + 1
        values(p) == normaliseDecoded(Reached(call.root, p))
        value(p) == CHOOSE v \in values(p) : TRUE
        deep == \E i \in DOMAIN call.steps : call.steps[i].kind = "recursive"
    IN /\ \A out \in call.out :
            /\ Len(out) <= Cardinality(ends)
            /\ \A i \in DOMAIN out : \E c \in ends : out[i] \in values(c[n])
       /\ ~Clash(call.root) =>
            \A out \in call.out :
              /\ Len(out) = Cardinality(ends)
              /\ \A i \in DOMAIN out :
                   Cardinality({j \in DOMAIN out : out[j] = out[i]})
                     = Cardinality({c \in ends : value(c[n]) = out[i]})
       /\ ~Clash(call.root) /\ ~deep =>
            LET sorted == SetToSortSeq({c[n] : c \in ends}, Before) IN
            call.out = {[i \in DOMAIN sorted |-> value(sorted[i])]}
=============================================================================
