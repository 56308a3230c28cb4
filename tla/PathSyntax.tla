----------------------------- MODULE PathSyntax -----------------------------
(***************************************************************************)
(* Compile of jsonpath.go.  An expression is a sequence of lexemes: "$",   *)
(* ".", a name as the regular expressions take it, whole, and "[]", a      *)
(* bracket that reBracket matches with what is in it; one that it does not *)
(* match starts with "[".                                                  *)
(***************************************************************************)
EXTENDS Integers, Sequences

Key(name)       == [kind |-> "key", name |-> name]
Index(i)        == [kind |-> "index", idx |-> i]
Wildcard        == [kind |-> "wildcard"]
Recursive(name) == [kind |-> "recursive", name |-> name]

Takes(k, step) == [lexemes |-> k, step |-> step]
Error          == [lexemes |-> 0]

At(l, i) == IF i <= Len(l) THEN l[i].t ELSE "end"

\* Slip: the test for "." before the one for "..".
StepAtDotFirst(l, i) ==
  CASE At(l, i) = "."    -> IF At(l, i + 1) = "name" THEN Takes(2, Key(l[i + 1].name)) ELSE Error
    [] At(l, i) = "[]"   -> IF l[i].atoi THEN Takes(1, l[i].step) ELSE Error
    [] At(l, i) = "name" -> Takes(1, Key(l[i].name))
    [] OTHER             -> Error

\* One turn of Compile's loop: how many lexemes it takes and the step it
\* appends.  A bracket whose index does not fit an int fails in Atoi; a name
\* without a dot is read as if it had one.
StepAt(l, i) ==
  CASE At(l, i) = "." /\ At(l, i + 1) = "." ->
         IF At(l, i + 2) = "name" THEN Takes(3, Recursive(l[i + 2].name)) ELSE Error
    [] At(l, i) = "." /\ At(l, i + 1) # "." ->
         IF At(l, i + 1) = "name" THEN Takes(2, Key(l[i + 1].name)) ELSE Error
    [] At(l, i) = "[]"   -> IF l[i].atoi THEN Takes(1, l[i].step) ELSE Error
    [] At(l, i) = "name" -> Takes(1, Key(l[i].name))
    [] OTHER             -> Error

\* The steps from lexeme i on; none for an error.
CompileFrom(l) ==
  LET from[i \in 1..Len(l) + 1] ==
        IF i > Len(l) THEN {<<>>}
        ELSE LET s == StepAt(l, i) IN
             IF s.lexemes = 0 THEN {} ELSE {<<s.step>> \o r : r \in from[i + s.lexemes]}
  IN  from

Compile(expr) ==
  IF expr = <<>> THEN {} ELSE CompileFrom(expr)[IF expr[1].t = "$" THEN 2 ELSE 1]

=============================================================================
