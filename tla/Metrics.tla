------------------------------ MODULE Metrics ------------------------------
(***************************************************************************)
(* The decision counters of httpserver/metrics.go: request goroutines call *)
(* record() while scrapes of /metrics read the counters.  One action per   *)
(* atomic operation or critical section.                                   *)
(*                                                                         *)
(* Abstractions.  A counter object is a number, 0 is the nil pointer; the  *)
(* text and the order of the exposition and the three totals it starts     *)
(* with are left out; the scrapes of one scraper follow each other.        *)
(***************************************************************************)
EXTENDS Integers, FiniteSets

CONSTANTS
  Recorders,   \* goroutines that call record()
  Keys,        \* the ruleKeys in use, <<rule, outcome, dryRun>>
  MaxRecords   \* bound: calls of record()

OutcomesOf == {"allow", "deny", "error"}
Counters   == 1..MaxRecords

ASSUME KeysAssumption   == \A k \in Keys : k[2] \in OutcomesOf
ASSUME RecordAssumption == MaxRecords \in Nat \ {0}

VARIABLES
  total,    \* totalAllowed, totalDenied, totalErrors
  perRule,  \* perRule[k]: the counter k maps to
  count,    \* count[c]: the value of counter c
  at, key, c,   \* of each record() call: position, key, counter
  calls,    \* calls of record() so far
  scrape,   \* where the scrape is
  keys,     \* the keys it has collected and not printed
  page      \* page[k]: the value it last printed for k

recording == <<at, key, c, calls>>
scraping  == <<scrape, keys, page>>
metrics   == <<total, perRule, count, recording, scraping>>

MetricsTypeOK ==
  /\ total \in [OutcomesOf -> Nat]
  /\ perRule \in [Keys -> Counters \cup {0}] /\ count \in [Counters -> Nat]
  /\ at \in [Recorders -> {"idle", "lookup", "create", "count"}]
  /\ key \in [Recorders -> Keys] /\ c \in [Recorders -> Counters \cup {0}]
  /\ calls \in 0..MaxRecords
  /\ scrape \in {"idle", "print"} /\ keys \subseteq Keys /\ page \in [Keys -> Nat]

MetricsInit ==
  /\ total = [o \in OutcomesOf |-> 0]
  /\ perRule = [k \in Keys |-> 0] /\ count = [i \in Counters |-> 0]
  /\ at = [r \in Recorders |-> "idle"] /\ key \in [Recorders -> Keys]
  /\ c = [r \in Recorders |-> 0] /\ calls = 0
  /\ scrape = "idle" /\ keys = {} /\ page = [k \in Keys |-> 0]

-----------------------------------------------------------------------------
(* record().                                                               *)

AddTotal(r) ==
  /\ at[r] = "idle" /\ calls < MaxRecords
  /\ calls' = calls + 1
  /\ \E k \in Keys :
       /\ key' = [key EXCEPT ![r] = k]
       /\ total' = [total EXCEPT ![k[2]] = @ + 1]
  /\ at' = [at EXCEPT ![r] = "lookup"]
  /\ UNCHANGED <<perRule, count, c, scraping>>

\* Under the read lock.
Lookup(r) ==
  /\ at[r] = "lookup"
  /\ c' = [c EXCEPT ![r] = perRule[key[r]]]
  /\ at' = [at EXCEPT ![r] = IF perRule[key[r]] = 0 THEN "create" ELSE "count"]
  /\ UNCHANGED <<total, perRule, count, key, calls, scraping>>

\* new(ruleCounters): an object nothing refers to.  One per call of record() is enough.
Unused == {i \in Counters : /\ \A k \in Keys : perRule[k] # i
                            /\ \A r \in Recorders : c[r] # i
                            /\ count[i] = 0}

\* Slip: the map is not looked at again under the write lock.
CreateUnchecked(r) ==
  /\ at[r] = "create" /\ Unused # {}
  /\ LET new == CHOOSE i \in Unused : TRUE IN
       /\ perRule' = [perRule EXCEPT ![key[r]] = new]
       /\ c' = [c EXCEPT ![r] = new]
  /\ at' = [at EXCEPT ![r] = "count"]
  /\ UNCHANGED <<total, count, key, calls, scraping>>

\* Under the write lock, where another goroutine may have come first.
Create(r) ==
  /\ at[r] = "create" /\ Unused # {}
  /\ LET k   == key[r]
         ptr == IF perRule[k] # 0 THEN perRule[k] ELSE CHOOSE i \in Unused : TRUE
     IN  /\ perRule' = [perRule EXCEPT ![k] = ptr]
         /\ c' = [c EXCEPT ![r] = ptr]
  /\ at' = [at EXCEPT ![r] = "count"]
  /\ UNCHANGED <<total, count, key, calls, scraping>>

Count(r) ==
  /\ at[r] = "count"
  /\ count' = [count EXCEPT ![c[r]] = @ + 1]
  /\ c' = [c EXCEPT ![r] = 0]
  /\ at' = [at EXCEPT ![r] = "idle"]
  /\ UNCHANGED <<total, perRule, key, calls, scraping>>

-----------------------------------------------------------------------------
(* The handler of /metrics.                                                *)

\* The keys, under the read lock.
ScrapeKeys ==
  /\ scrape = "idle"
  /\ keys' = {k \in Keys : perRule[k] # 0}
  /\ scrape' = "print"
  /\ UNCHANGED <<total, perRule, count, recording, page>>

\* One line: the counter is looked up again and its value loaded.
ScrapeLine ==
  /\ scrape = "print"
  /\ \E k \in keys :
       /\ page' = [page EXCEPT ![k] = count[perRule[k]]]
       /\ keys' = keys \ {k}
  /\ UNCHANGED <<total, perRule, count, recording, scrape>>

ScrapeEnd ==
  /\ scrape = "print" /\ keys = {}
  /\ scrape' = "idle"
  /\ UNCHANGED <<total, perRule, count, recording, keys, page>>

-----------------------------------------------------------------------------
record(r) == AddTotal(r) \/ Lookup(r) \/ Create(r) \/ Count(r)

MetricsNext == (\E r \in Recorders : record(r)) \/ ScrapeKeys \/ ScrapeLine \/ ScrapeEnd

MetricsSpec == MetricsInit /\ [][MetricsNext]_metrics

-----------------------------------------------------------------------------
ValueOf(k) == IF perRule[k] = 0 THEN 0 ELSE count[perRule[k]]

\* The decisions the rules' counters stand for, and the record() calls on their way
\* from the total to the rule's counter.
Counted(o) == UNION {{k} \X (1..ValueOf(k)) : k \in {l \in Keys : l[2] = o}}
OnTheWay(o) == {r \in Recorders : at[r] # "idle" /\ key[r][2] = o}

\* No decision is lost between the two series /metrics exposes: at every moment
\* each total is the sum of its rules' counters and of the calls on their way, even
\* when goroutines meet a new rule at the same time.
NothingLost ==
  \A o \in OutcomesOf : total[o] = Cardinality(Counted(o)) + Cardinality(OnTheWay(o))

\* What a scraper sees are counters: between two scrapes no rule's value goes down.
PagesForward == [][\A k \in Keys : page'[k] >= page[k]]_page
=============================================================================
