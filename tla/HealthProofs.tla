---------------------------- MODULE HealthProofs ----------------------------
(***************************************************************************)
(* Facts about the functions of module Health, for every set of names,     *)
(* component types and component ids.                                      *)
(***************************************************************************)
EXTENDS Health, TLAPS

\* runOne's conversion keeps the number of observations and their statuses,
\* and its output is well typed.
LEMMA ConvertFacts ==
  ASSUME NEW c \in Check, NEW rs \in Seq(Result)
  PROVE  /\ convert(c, rs) \in Seq(ComponentStatus)
         /\ Len(convert(c, rs)) = Len(rs)
         /\ \A k \in 1..Len(rs) : convert(c, rs)[k].status = rs[k].status
<1>1. \A k \in 1..Len(rs) : rs[k] \in Result
  OBVIOUS
<1>2. \A k \in 1..Len(rs) : /\ toComponentStatus(c, rs[k]) \in ComponentStatus
                            /\ toComponentStatus(c, rs[k]).status = rs[k].status
  BY <1>1 DEF toComponentStatus, affectedOf, ComponentStatus, Result, Check, Status, StatusPass
<1>3. Len(rs) \in Nat
  OBVIOUS
<1>4. QED
  BY <1>2, <1>3 DEF convert

\* One iteration of the merge loop, for a non-empty list: the list is appended
\* under its key and every other key keeps its entries.
LEMMA AssignFacts ==
  ASSUME NEW m, IsChecksMap(m), NEW n \in Key, NEW list \in Seq(ComponentStatus)
  PROVE  /\ IsChecksMap(Assign(m, n, Lookup(m, n) \o list))
         /\ DOMAIN Assign(m, n, Lookup(m, n) \o list) = DOMAIN m \cup {n}
         /\ Assign(m, n, Lookup(m, n) \o list)[n] = Lookup(m, n) \o list
         /\ \A x \in DOMAIN m \ {n} : Assign(m, n, Lookup(m, n) \o list)[x] = m[x]
         /\ Lookup(m, n) \in Seq(ComponentStatus)
<1>1. Lookup(m, n) \in Seq(ComponentStatus)
  BY DEF Lookup, IsChecksMap
<1>2. Lookup(m, n) \o list \in Seq(ComponentStatus)
  BY <1>1
<1>3. QED
  BY <1>1, <1>2 DEF Assign, IsChecksMap

\* The merge loop loses no entry and invents none, whatever the key held.
THEOREM MergeFacts ==
  ASSUME NEW m, IsChecksMap(m), NEW n \in Key, NEW list \in Seq(ComponentStatus)
  PROVE  /\ IsChecksMap(merge(m, n, list))
         /\ DOMAIN m \subseteq DOMAIN merge(m, n, list)
         /\ \A x \in DOMAIN m \ {n} : merge(m, n, list)[x] = m[x]
         /\ \A x \in DOMAIN merge(m, n, list) :
              merge(m, n, list)[x] = <<>> => x \in DOMAIN m /\ m[x] = <<>>
         /\ \A x \in DOMAIN m : \A j \in 1..Len(m[x]) :
              /\ j \in 1..Len(merge(m, n, list)[x])
              /\ merge(m, n, list)[x][j] = m[x][j]
         /\ \A l \in 1..Len(list) :
              /\ n \in DOMAIN merge(m, n, list)
              /\ \E j \in 1..Len(merge(m, n, list)[n]) :
                   merge(m, n, list)[n][j] = list[l]
         /\ \A x \in DOMAIN merge(m, n, list) : \A j \in 1..Len(merge(m, n, list)[x]) :
              \/ /\ x \in DOMAIN m
                 /\ j \in 1..Len(m[x])
                 /\ merge(m, n, list)[x][j] = m[x][j]
              \/ x = n /\ \E l \in 1..Len(list) : merge(m, n, list)[x][j] = list[l]
<1>1. CASE list = <<>>
  BY <1>1 DEF merge
<1>2. CASE list # <<>>
  <2> DEFINE old == Lookup(m, n)
             new == Assign(m, n, old \o list)
  <2>1. merge(m, n, list) = new
    BY <1>2 DEF merge
  <2>2. /\ IsChecksMap(new) /\ DOMAIN new = DOMAIN m \cup {n}
        /\ new[n] = old \o list
        /\ \A x \in DOMAIN m \ {n} : new[x] = m[x]
        /\ old \in Seq(ComponentStatus)
    BY AssignFacts
  <2> HIDE DEF new
  <2>3. /\ n \in DOMAIN m => old = m[n]
        /\ n \notin DOMAIN m => old = <<>>
    BY DEF Lookup
  <2>4. /\ Len(old \o list) = Len(old) + Len(list)
        /\ \A j \in 1..Len(old) : (old \o list)[j] = old[j]
        /\ \A l \in 1..Len(list) : (old \o list)[Len(old) + l] = list[l]
    BY <2>2
  <2>5. Len(old) \in Nat /\ Len(list) \in Nat
    BY <2>2
  <2> HIDE DEF old
  <2>6. \A x \in DOMAIN m : \A j \in 1..Len(m[x]) :
          j \in 1..Len(new[x]) /\ new[x][j] = m[x][j]
    BY <2>2, <2>3, <2>4, <2>5
  <2>7. \A l \in 1..Len(list) : \E j \in 1..Len(new[n]) : new[n][j] = list[l]
    <3> SUFFICES ASSUME NEW l \in 1..Len(list)
                 PROVE  \E j \in 1..Len(new[n]) : new[n][j] = list[l]
      OBVIOUS
    <3>1. Len(old) + l \in 1..Len(new[n])
      BY <2>2, <2>4, <2>5
    <3> QED
      BY <3>1, <2>2, <2>4
  <2>8. ASSUME NEW x \in DOMAIN new, NEW j \in 1..Len(new[x])
        PROVE  \/ x \in DOMAIN m /\ j \in 1..Len(m[x]) /\ new[x][j] = m[x][j]
               \/ x = n /\ \E l \in 1..Len(list) : new[x][j] = list[l]
    <3>1. CASE x # n
      BY <3>1, <2>2
    <3>2. CASE x = n /\ j <= Len(old)
      <4>1. n \in DOMAIN m
        BY <3>2, <2>3, <2>5
      <4>2. j \in 1..Len(old)
        BY <3>2, <2>2, <2>4, <2>5
      <4> QED
        BY <4>1, <4>2, <3>2, <2>2, <2>3, <2>4
    <3>3. CASE x = n /\ j > Len(old)
      <4>1. j - Len(old) \in 1..Len(list) /\ j = Len(old) + (j - Len(old))
        BY <3>3, <2>2, <2>4, <2>5
      <4> QED
        BY <4>1, <3>3, <2>2, <2>4
    <3> QED
      BY <3>1, <3>2, <3>3, <2>2, <2>4, <2>5
  <2>9. ASSUME NEW x \in DOMAIN new, new[x] = <<>>
        PROVE  x \in DOMAIN m /\ m[x] = <<>>
    <3>1. Len(list) > 0
      BY <1>2, <2>5
    <3>2. new[n] # <<>>
      BY <3>1, <2>2, <2>4, <2>5
    <3> QED
      BY <3>2, <2>2, <2>9
  <2> QED
    BY <2>1, <2>2, <2>6, <2>7, <2>8, <2>9
<1> QED
  BY <1>1, <1>2
=============================================================================
