-------------------------- MODULE AggregateProofs ---------------------------
(***************************************************************************)
(* The loop of aggregate returns Health!aggregate of its argument, for     *)
(* every map and every order in which Go visits it.                        *)
(***************************************************************************)
EXTENDS Aggregate, TLAPS

USE DEF StatusPass, StatusWarn, StatusFail

LEMMA LoopInit == Init => LoopInv
  BY MapsAssumption
  DEF Init, LoopInv, AggregateTypeOK, OrderIrrelevant, SeenReports, Seen

\* Taking up a key shows no entry of it yet.
LEMMA NextKeyKeeps == ASSUME LoopInv, NextKey PROVE LoopInv'
<1>1. PICK k \in DOMAIN checks \ visited :
        /\ pc = "outer" /\ pc' = "inner" /\ key' = k /\ pos' = 0
        /\ visited' = visited \cup {k} /\ UNCHANGED <<checks, overall>>
  BY DEF NextKey
<1>2. checks \in Maps /\ \A x \in DOMAIN checks : Len(checks[x]) \in Nat
  BY MapsAssumption DEF LoopInv, AggregateTypeOK, IsChecksMap
<1>3. AggregateTypeOK'
  BY <1>1, <1>2 DEF LoopInv, AggregateTypeOK
<1>4. \A x \in DOMAIN checks : \A j \in 1..Len(checks[x]) : Seen(x, j)' <=> Seen(x, j)
  BY <1>1, <1>2 DEF Seen
<1>5. \A s : SeenReports(s)' <=> SeenReports(s)
  BY <1>1, <1>4 DEF SeenReports
<1> QED
  BY <1>1, <1>3, <1>5 DEF LoopInv, OrderIrrelevant

LEMMA EndOfListKeeps == ASSUME LoopInv, EndOfList PROVE LoopInv'
<1>1. /\ pc = "inner" /\ pc' = "outer" /\ pos = Len(checks[key])
      /\ UNCHANGED <<checks, visited, key, pos, overall>>
  BY DEF EndOfList
<1>2. AggregateTypeOK'
  BY <1>1 DEF LoopInv, AggregateTypeOK
<1>3. \A x \in DOMAIN checks : \A j \in 1..Len(checks[x]) : Seen(x, j)' <=> Seen(x, j)
  BY <1>1 DEF Seen
<1>4. \A s : SeenReports(s)' <=> SeenReports(s)
  BY <1>1, <1>3 DEF SeenReports
<1> QED
  BY <1>1, <1>2, <1>4 DEF LoopInv, OrderIrrelevant

\* The fail that makes the loop return is in the map; any other entry becomes
\* the one entry more that has been seen.
LEMMA EntryKeeps == ASSUME LoopInv, Entry PROVE LoopInv'
<1> DEFINE e == checks[key][pos + 1]
<1>1. /\ pc = "inner" /\ key \in DOMAIN checks /\ key \in visited
      /\ pos \in Nat /\ Len(checks[key]) \in Nat /\ pos + 1 \in 1..Len(checks[key])
      /\ UNCHANGED <<checks, visited, key>>
  BY MapsAssumption DEF Entry, LoopInv, AggregateTypeOK, IsChecksMap
<1>2. CASE e.status = StatusFail
  <2>1. overall' = StatusFail /\ pc' = "returned"
    BY <1>2 DEF Entry
  <2>2. Reports(checks, StatusFail)
    BY <1>1, <1>2 DEF Reports
  <2> QED
    BY <1>1, <2>1, <2>2 DEF LoopInv, AggregateTypeOK, OrderIrrelevant, aggregate
<1>3. CASE e.status # StatusFail
  <2>1. /\ pc' = "inner" /\ pos' = pos + 1
        /\ overall' = IF e.status = StatusWarn THEN StatusWarn ELSE overall
    BY <1>1, <1>3 DEF Entry, Worse
  <2>2. AggregateTypeOK'
    BY <1>1, <2>1 DEF LoopInv, AggregateTypeOK
  <2>3. ASSUME NEW x \in DOMAIN checks, NEW j \in 1..Len(checks[x])
        PROVE  Seen(x, j)' <=> Seen(x, j) \/ (x = key /\ j = pos + 1)
    BY <1>1, <2>1 DEF Seen
  <2>4. ASSUME NEW s PROVE SeenReports(s)' <=> SeenReports(s) \/ e.status = s
    BY <1>1, <2>3 DEF SeenReports
  <2> QED
    BY <1>1, <1>3, <2>1, <2>2, <2>4 DEF LoopInv, OrderIrrelevant
<1> QED
  BY <1>2, <1>3

\* When every key has been visited, every entry has been seen.
LEMMA ReturnKeeps == ASSUME LoopInv, Return PROVE LoopInv'
<1>1. /\ pc = "outer" /\ pc' = "returned" /\ visited = DOMAIN checks
      /\ UNCHANGED <<checks, visited, key, pos, overall>>
  BY DEF Return, Exhausted
<1>2. \A s : SeenReports(s) <=> Reports(checks, s)
  BY <1>1 DEF SeenReports, Seen, Reports
<1>3. overall = aggregate(checks)
  BY <1>1, <1>2 DEF LoopInv, aggregate
<1> QED
  BY <1>1, <1>3 DEF LoopInv, AggregateTypeOK, OrderIrrelevant

LEMMA AggregateStutter == ASSUME LoopInv, UNCHANGED vars PROVE LoopInv'
  BY DEF vars, LoopInv, AggregateTypeOK, OrderIrrelevant, SeenReports, Seen

\* aggregate's loop maintains its invariant.
THEOREM LoopInvariant == Spec => []LoopInv
<1>1. Init => LoopInv
  BY LoopInit
<1>2. LoopInv /\ [Next]_vars => LoopInv'
  BY NextKeyKeeps, EntryKeeps, EndOfListKeeps, ReturnKeeps, AggregateStutter
  DEF Next, Terminated
<1> QED
  BY <1>1, <1>2, PTL DEF Spec

\* What aggregate returns does not depend on Go's map iteration order: it is
\* always the strict verdict of the whole map.
THEOREM AnyOrder == Spec => []OrderIrrelevant
<1>1. LoopInv => OrderIrrelevant
  BY DEF LoopInv
<1> QED
  BY <1>1, LoopInvariant, PTL
=============================================================================
