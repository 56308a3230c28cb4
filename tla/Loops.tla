------------------------------- MODULE Loops -------------------------------
(***************************************************************************)
(* Lists, and maps of lists, as the loops of the code build them.  The     *)
(* proofs unfold these operators at almost every step, so they are kept in *)
(* a module that brings in little else.                                    *)
(***************************************************************************)
EXTENDS Integers, Sequences, Functions

\* What one turn of a loop appends: s, or nothing.
When(b, s) == IF b THEN s ELSE <<>>

\* What all turns append, ss[i] in turn i.
Flatten(ss) ==
  IF Len(ss) = 0 THEN <<>> ELSE
  LET upTo[i \in 0..Len(ss)] == IF i = 0 THEN <<>> ELSE upTo[i - 1] \o ss[i]
  IN  upTo[Len(ss)]

\* A map of lists, as appending each value to the list of its key builds it.
Insert(m, k, v) ==
  [x \in DOMAIN m \cup {k} |->
     IF x # k THEN m[x] ELSE IF k \in DOMAIN m THEN Append(m[k], v) ELSE <<v>>]
Gather(kvs) ==
  LET upTo[i \in 0..Len(kvs)] ==
        IF i = 0 THEN <<>> ELSE Insert(upTo[i - 1], kvs[i].key, kvs[i].value)
  IN  upTo[Len(kvs)]

\* strings.HasSuffix.
HasSuffix(t, s) == Len(s) <= Len(t) /\ SubSeq(t, Len(t) - Len(s) + 1, Len(t)) = s
=============================================================================
