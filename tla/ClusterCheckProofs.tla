------------------------- MODULE ClusterCheckProofs -------------------------
(***************************************************************************)
(* For clusters of any size: the concurrent callbacks of NewCluster lose   *)
(* no Result and duplicate none, and a cluster that cannot be reached is   *)
(* told from one that has no nodes.                                        *)
(***************************************************************************)
EXTENDS ClusterCheck, TLAPS

USE DEF StatusPass, StatusFail

LEMMA NodeResultFacts ==
  /\ \A n \in Node \cup {""}, s \in {StatusPass, StatusFail} : NodeResult(n, s) \in Result
  /\ \A n, s : NodeResult(n, s).componentId = n /\ NodeResult(n, s).status = s
  BY NodeAssumption DEF NodeResult, Result, Status

LEMMA EmptySeq ==
  ASSUME NEW S, NEW s \in Seq(S), \A j \in 1..Len(s) : FALSE
  PROVE  s = <<>>
<1>1. Len(s) \in Nat /\ ~(1 <= Len(s))
  OBVIOUS
<1> QED
  BY <1>1

LEMMA NonEmptySeq ==
  ASSUME NEW S, NEW s \in Seq(S), NEW j \in 1..Len(s)
  PROVE  s # <<>>
<1>1. Len(s) \in Nat /\ Len(s) # 0
  OBVIOUS
<1>2. ASSUME s = <<>> PROVE FALSE
  <2>1. Len(s) = 0
    BY <1>2
  <2> QED
    BY <1>1, <2>1
<1> QED
  BY <1>2

LEMMA SingletonSeq ==
  ASSUME NEW S, NEW e \in S
  PROVE  /\ <<e>> \in Seq(S) /\ Len(<<e>>) = 1
         /\ \A j \in 1..Len(<<e>>) : j = 1 /\ <<e>>[j] = e
  OBVIOUS

\* Append to an empty slice.
LEMMA AppendToEmpty ==
  ASSUME NEW s, s = <<>>, NEW e
  PROVE  Append(s, e) = <<e>>
  OBVIOUS

LEMMA ClusterInit == Init => ClusterInv
<1> SUFFICES ASSUME Init PROVE ClusterInv
  OBVIOUS
<1>1. ClusterTypeOK
  BY DEF Init, ClusterTypeOK, Cb
<1>2. MutexInv /\ PhaseInv
  BY NodeAssumption DEF Init, MutexInv, PhaseInv, Locked
<1>3. SliceInv
  BY DEF Init, SliceInv, Appended
<1> QED
  BY <1>1, <1>2, <1>3 DEF Init, ClusterInv

\* Steps that leave the slice and the set of callbacks past their append alone
\* keep SliceInv.
LEMMA SliceFrame ==
  ASSUME SliceInv, out' = out,
         \A n \in Node : Appended(n)' <=> Appended(n),
         \A n \in Node : Appended(n) => ping'[n] = ping[n]
  PROVE  SliceInv'
<1>1. \A n \in Node : Appended(n)' => \E j \in 1..Len(out') : out'[j] = NodeResult(n, ping'[n])
  BY DEF SliceInv
<1>2. \A j \in 1..Len(out') : \E n \in Node : Appended(n)' /\ out'[j] = NodeResult(n, ping'[n])
  BY DEF SliceInv
<1>3. \A i, j \in 1..Len(out') : out'[i].componentId = out'[j].componentId => i = j
  BY DEF SliceInv
<1> QED
  BY <1>1, <1>2, <1>3 DEF SliceInv

\* append under the mutex: the header is current, so the slice grows by the one
\* Result of this node and keeps all others.
LEMMA WriteKeepsSlice ==
  ASSUME ClusterInv, NEW n \in Node, WriteSlice(n)
  PROVE  SliceInv' /\ out' \in Seq(Result)
<1> DEFINE e == NodeResult(n, ping[n])
<1>1. /\ cb[n] = "writing" /\ header[n] = out /\ out \in Seq(Result)
      /\ ping[n] \in {StatusPass, StatusFail} /\ SliceInv
  <2>1. cb[n] = "writing" /\ n \in cluster /\ ping[n] # "none" /\ header[n] = out
    BY DEF WriteSlice, ClusterInv, MutexInv, PhaseInv
  <2>2. pc \notin {"joined", "returned"}
    BY <2>1 DEF ClusterInv, PhaseInv
  <2> QED
    BY <2>1, <2>2 DEF ClusterInv, ClusterTypeOK
<1>2. /\ out' = Append(out, e) /\ ping' = ping
      /\ cb' = [cb EXCEPT ![n] = "unlocking"] /\ cb \in [Node -> Cb]
  BY <1>1 DEF WriteSlice, ClusterInv, ClusterTypeOK
<1>3. e \in Result /\ e.componentId = n
  BY <1>1, NodeResultFacts
<1> HIDE DEF e
<1>4. /\ out' \in Seq(Result) /\ Len(out') = Len(out) + 1 /\ Len(out) \in Nat
      /\ \A j \in 1..Len(out) : out'[j] = out[j]
      /\ out'[Len(out) + 1] = e
  BY <1>1, <1>2, <1>3
<1>5. \A m \in Node : Appended(m)' <=> Appended(m) \/ m = n
  BY <1>2 DEF Appended
<1>6. ~Appended(n)
  BY <1>1 DEF Appended
<1>7. \A j \in 1..Len(out) : out[j].componentId # n
  <2> SUFFICES ASSUME NEW j \in 1..Len(out) PROVE out[j].componentId # n
    OBVIOUS
  <2>1. PICK m \in Node : Appended(m) /\ out[j] = NodeResult(m, ping[m])
    BY <1>1 DEF SliceInv
  <2>2. out[j].componentId = m
    BY <2>1, NodeResultFacts
  <2> QED
    BY <2>1, <2>2, <1>6
<1>8. \A m \in Node : Appended(m)' =>
        \E j \in 1..Len(out') : out'[j] = NodeResult(m, ping'[m])
  <2> SUFFICES ASSUME NEW m \in Node, Appended(m)'
               PROVE  \E j \in 1..Len(out') : out'[j] = NodeResult(m, ping'[m])
    OBVIOUS
  <2>1. CASE m = n
    BY <2>1, <1>2, <1>4 DEF e
  <2>2. CASE Appended(m)
    BY <2>2, <1>1, <1>2, <1>4 DEF SliceInv
  <2> QED
    BY <2>1, <2>2, <1>5
<1>9. \A j \in 1..Len(out') :
        \E m \in Node : Appended(m)' /\ out'[j] = NodeResult(m, ping'[m])
  <2> SUFFICES ASSUME NEW j \in 1..Len(out')
               PROVE  \E m \in Node : Appended(m)' /\ out'[j] = NodeResult(m, ping'[m])
    OBVIOUS
  <2>1. CASE j = Len(out) + 1
    BY <2>1, <1>2, <1>4, <1>5 DEF e
  <2>2. CASE j \in 1..Len(out)
    BY <2>2, <1>1, <1>2, <1>4, <1>5 DEF SliceInv
  <2> QED
    BY <2>1, <2>2, <1>4
<1>10. \A i, j \in 1..Len(out') : out'[i].componentId = out'[j].componentId => i = j
  <2>1. \A j \in 1..Len(out') : j = Len(out) + 1 \/ j \in 1..Len(out)
    BY <1>4
  <2>2. out'[Len(out) + 1].componentId = n
    BY <1>3, <1>4
  <2>3. \A j \in 1..Len(out) : out'[j].componentId # n
    BY <1>4, <1>7
  <2>4. \A i, j \in 1..Len(out) : out'[i].componentId = out'[j].componentId => i = j
    BY <1>1, <1>4 DEF SliceInv
  <2> QED
    BY <2>1, <2>2, <2>3, <2>4
<1> QED
  BY <1>4, <1>8, <1>9, <1>10 DEF SliceInv

LEMMA ClusterNext == ClusterInv /\ [Next]_vars => ClusterInv'
<1> SUFFICES ASSUME ClusterInv, [Next]_vars PROVE ClusterInv'
  OBVIOUS
<1> USE NodeAssumption
<1>1. CASE ContextDone
  <2>1. UNCHANGED <<cb, ping, mu, header, out>>
    BY <1>1 DEF ContextDone
  <2>2. ClusterTypeOK'
    BY <1>1 DEF ContextDone, ClusterInv, ClusterTypeOK
  <2>3. MutexInv' /\ PhaseInv'
    BY <1>1 DEF ContextDone, ClusterInv, MutexInv, PhaseInv
  <2>4. SliceInv => SliceInv'
    BY <2>1, SliceFrame DEF Appended
  <2> QED
    BY <1>1, <2>1, <2>2, <2>3, <2>4 DEF ContextDone, ClusterInv, Observable
<1>2. CASE Discover
  <2>1. PICK ns \in SUBSET Node :
          /\ pc = "discover" /\ pc' = "iterate" /\ cluster' = ns
          /\ cb' = [n \in Node |-> IF n \in ns THEN "pinging" ELSE "none"]
          /\ UNCHANGED <<ctx, err, ping, mu, header, out>>
    BY <1>2 DEF Discover
  <2>2. \A n \in Node : cb[n] = "none"
    BY <2>1 DEF ClusterInv, PhaseInv
  <2>3. ClusterTypeOK'
    BY <2>1 DEF ClusterInv, ClusterTypeOK, Cb
  <2>4. MutexInv' /\ PhaseInv'
    BY <2>1, <2>2 DEF ClusterInv, MutexInv, PhaseInv, Locked
  <2>5. SliceInv'
    BY <2>1, <2>2, SliceFrame DEF ClusterInv, Appended
  <2> QED
    BY <2>1, <2>3, <2>4, <2>5 DEF ClusterInv
<1>3. CASE DiscoveryFails
  <2>1. UNCHANGED <<cb, ping, mu, header, out>>
    BY <1>3 DEF DiscoveryFails
  <2>2. ClusterTypeOK'
    BY <1>3 DEF DiscoveryFails, ClusterInv, ClusterTypeOK
  <2>3. MutexInv' /\ PhaseInv'
    BY <1>3 DEF DiscoveryFails, ClusterInv, MutexInv, PhaseInv
  <2>4. SliceInv => SliceInv'
    BY <2>1, SliceFrame DEF Appended
  <2> QED
    BY <1>3, <2>1, <2>2, <2>3, <2>4 DEF DiscoveryFails, ClusterInv, Observable
<1>4. ASSUME NEW n \in Node, pingNode(n) PROVE ClusterInv'
  <2>1. /\ cb[n] = "pinging" /\ cb' = [cb EXCEPT ![n] = "locking"]
        /\ ping' \in [Node -> {"none", StatusPass, StatusFail}] /\ ping'[n] # "none"
        /\ \A m \in Node \ {n} : ping'[m] = ping[m]
        /\ UNCHANGED <<pc, ctx, cluster, err, mu, header, out>>
    BY <1>4 DEF pingNode, ClusterInv, ClusterTypeOK
  <2>2. n \in cluster /\ pc \notin {"joined", "returned"} /\ SliceInv
    BY <2>1 DEF ClusterInv, PhaseInv
  <2>3. ClusterTypeOK'
    BY <2>1 DEF ClusterInv, ClusterTypeOK, Cb
  <2>4. MutexInv' /\ PhaseInv'
    BY <2>1, <2>2 DEF ClusterInv, ClusterTypeOK, MutexInv, PhaseInv, Locked
  <2>5. SliceInv'
    BY <2>1, <2>2, SliceFrame DEF ClusterInv, ClusterTypeOK, Appended
  <2> QED
    BY <2>1, <2>2, <2>3, <2>4, <2>5 DEF ClusterInv
<1>5. ASSUME NEW n \in Node, Lock(n) \/ ReadSlice(n) \/ Unlock(n) PROVE ClusterInv'
  <2>1. /\ cb[n] \in {"locking", "reading", "unlocking"}
        /\ UNCHANGED <<pc, ctx, cluster, err, ping, out>>
    BY <1>5 DEF Lock, Granted, ReadSlice, Unlock, Unlocked
  <2>2. n \in cluster /\ pc \notin {"joined", "returned"} /\ SliceInv
    BY <2>1 DEF ClusterInv, PhaseInv
  <2>3. ClusterTypeOK'
    BY <1>5 DEF Lock, Granted, ReadSlice, Unlock, Unlocked, ClusterInv, ClusterTypeOK, Cb, Locked
  <2>4. PhaseInv'
    BY <1>5, <2>2 DEF Lock, Granted, ReadSlice, Unlock, Unlocked, ClusterInv, ClusterTypeOK, PhaseInv
  <2>5. MutexInv'
    BY <1>5, <2>2 DEF Lock, Granted, ReadSlice, Unlock, Unlocked, ClusterInv, ClusterTypeOK, MutexInv, Locked
  <2>6. SliceInv'
    BY <1>5, <2>1, <2>2, SliceFrame
    DEF Lock, Granted, ReadSlice, Unlock, Unlocked, ClusterInv, ClusterTypeOK, Appended
  <2> QED
    BY <2>1, <2>2, <2>3, <2>4, <2>5, <2>6 DEF ClusterInv
<1>6. ASSUME NEW n \in Node, WriteSlice(n) PROVE ClusterInv'
  <2>1. SliceInv' /\ out' \in Seq(Result)
    BY <1>6, WriteKeepsSlice
  <2>2. /\ cb[n] = "writing" /\ cb' = [cb EXCEPT ![n] = "unlocking"]
        /\ UNCHANGED <<pc, ctx, cluster, err, ping, mu, header>>
    BY <1>6 DEF WriteSlice
  <2>3. n \in cluster /\ pc \notin {"joined", "returned"}
    BY <2>2 DEF ClusterInv, PhaseInv
  <2>4. ClusterTypeOK'
    BY <2>1, <2>2 DEF ClusterInv, ClusterTypeOK, Cb, Locked
  <2>5. PhaseInv' /\ MutexInv'
    BY <2>2, <2>3 DEF ClusterInv, ClusterTypeOK, PhaseInv, MutexInv, Locked
  <2> QED
    BY <2>1, <2>2, <2>3, <2>4, <2>5 DEF ClusterInv
<1>7. CASE Join
  <2>1. UNCHANGED <<cb, ping, mu, header, out>>
    BY <1>7 DEF Join
  <2>2. ClusterTypeOK'
    BY <1>7 DEF Join, ClusterInv, ClusterTypeOK
  <2>3. MutexInv' /\ PhaseInv'
    BY <1>7 DEF Join, ClusterInv, MutexInv, PhaseInv
  <2>4. SliceInv'
    BY <1>7, <2>1, SliceFrame DEF Join, ClusterInv, Appended
  <2> QED
    BY <1>7, <2>2, <2>3, <2>4 DEF Join, ClusterInv
<1>8. CASE Return
  <2>1. /\ pc = "joined" /\ pc' = "returned" /\ SliceInv
        /\ UNCHANGED <<ctx, cluster, err, cb, ping, mu, header>>
    BY <1>8 DEF Return, ClusterInv
  <2>2. \A n \in Node : cb[n] # "writing"
    BY <2>1 DEF ClusterInv, PhaseInv
  <2>3. PhaseInv' /\ MutexInv'
    BY <2>1, <2>2 DEF ClusterInv, PhaseInv, MutexInv
  <2>4. CASE ~Observable
    <3>1. \A n \in Node : ~Appended(n)
      BY <2>1, <2>4 DEF Observable, ClusterInv, PhaseInv, Appended
    <3>2. out \in Seq(Result) /\ \A j \in 1..Len(out) : FALSE
      BY <2>1, <3>1 DEF ClusterInv, ClusterTypeOK, SliceInv
    <3>3. out = <<>>
      BY <3>2, EmptySeq
    <3>4. out' = <<NodeResult("", StatusFail)>>
      BY <1>8, <2>4, <3>3, AppendToEmpty DEF Return, Unreachable, Observable
    <3>5. out' \in Seq(Result)
      <4>1. NodeResult("", StatusFail) \in Result
        BY NodeResultFacts
      <4> QED
        BY <3>4, <4>1, SingletonSeq
    <3> QED
      BY <2>1, <2>3, <2>4, <3>4, <3>5 DEF ClusterInv, ClusterTypeOK, Observable
  <2>5. CASE Observable
    <3>1. err = "nil" \/ out # <<>>
      <4>1. ASSUME NEW n \in cluster PROVE out # <<>>
        <5>1. n \in Node /\ Appended(n)
          BY <2>1, <4>1 DEF ClusterInv, ClusterTypeOK, PhaseInv, Appended
        <5>2. PICK j \in 1..Len(out) : TRUE
          BY <2>1, <5>1 DEF SliceInv
        <5>3. out \in Seq(Result)
          BY DEF ClusterInv, ClusterTypeOK
        <5> QED
          BY <5>2, <5>3, NonEmptySeq
      <4> QED
        BY <2>5, <4>1 DEF Observable
    <3>2. out' = out
      BY <1>8, <3>1 DEF Return, Unreachable
    <3>3. SliceInv'
      BY <2>1, <3>2, SliceFrame DEF Appended
    <3> QED
      BY <2>1, <2>3, <2>5, <3>2, <3>3 DEF ClusterInv, ClusterTypeOK, Observable
  <2> QED
    BY <2>4, <2>5
<1>9. CASE Terminated \/ UNCHANGED vars
  <2>1. UNCHANGED <<cb, ping, mu, header, out>>
    BY <1>9 DEF Terminated, vars
  <2>2. ClusterTypeOK'
    BY <1>9 DEF Terminated, vars, ClusterInv, ClusterTypeOK
  <2>3. MutexInv' /\ PhaseInv'
    BY <1>9 DEF Terminated, vars, ClusterInv, MutexInv, PhaseInv
  <2>4. SliceInv => SliceInv'
    BY <2>1, SliceFrame DEF Appended
  <2> QED
    BY <1>9, <2>1, <2>2, <2>3, <2>4 DEF Terminated, vars, ClusterInv, Observable
<1> QED
  BY <1>1, <1>2, <1>3, <1>4, <1>5, <1>6, <1>7, <1>8, <1>9 DEF Next, Callback

-----------------------------------------------------------------------------
\* The shared slice holds one Result per callback past its append, always.
THEOREM ClusterInvariant == Spec => []ClusterInv
<1>1. Init => ClusterInv
  BY ClusterInit
<1>2. ClusterInv /\ [Next]_vars => ClusterInv'
  BY ClusterNext
<1> QED
  BY <1>1, <1>2, PTL DEF Spec

\* However many nodes answer at once, and whether or not the iterator ends with
\* an error, each has exactly one Result (newWithIterator).
THEOREM NoNodeLost == Spec => []EveryNodeOnce
<1>1. ClusterInv => EveryNodeOnce
  <2> SUFFICES ASSUME ClusterInv, pc = "returned", Observable
               PROVE  /\ \A n \in cluster :
                           \E j \in 1..Len(out) : out[j] = NodeResult(n, ping[n])
                      /\ \A j \in 1..Len(out) : out[j].componentId \in cluster
                      /\ \A i, j \in 1..Len(out) :
                           out[i].componentId = out[j].componentId => i = j
    BY DEF EveryNodeOnce
  <2>1. SliceInv /\ cluster \subseteq Node
    BY DEF ClusterInv, ClusterTypeOK
  <2>2. \A n \in Node : Appended(n) <=> n \in cluster
    BY DEF ClusterInv, PhaseInv, Appended
  <2>3. \A n \in cluster : \E j \in 1..Len(out) : out[j] = NodeResult(n, ping[n])
    BY <2>1, <2>2 DEF SliceInv
  <2>4. \A j \in 1..Len(out) : out[j].componentId \in cluster
    <3> SUFFICES ASSUME NEW j \in 1..Len(out) PROVE out[j].componentId \in cluster
      OBVIOUS
    <3>1. PICK n \in Node : Appended(n) /\ out[j] = NodeResult(n, ping[n])
      BY <2>1 DEF SliceInv
    <3>2. out[j].componentId = n
      BY <3>1, NodeResultFacts
    <3> QED
      BY <2>2, <3>1, <3>2
  <2> QED
    BY <2>1, <2>3, <2>4 DEF SliceInv
<1> QED
  BY <1>1, ClusterInvariant, PTL

\* An error without any node is the one failure that names no node, an error
\* after a node was observed shows nowhere, and only a cluster that yielded
\* neither reports nothing (newWithIterator).
THEOREM UnreachableIsVisible == Spec => []UnreachableVisible
<1>1. ClusterInv => UnreachableVisible
  <2> SUFFICES ASSUME ClusterInv, pc = "returned" PROVE UnreachableVisible
    BY DEF UnreachableVisible
  <2>1. CASE ~Observable
    <3> DEFINE e == NodeResult("", StatusFail)
    <3>1. out = <<e>> /\ out \in Seq(Result)
      BY <2>1 DEF ClusterInv, ClusterTypeOK
    <3>2. e.status = StatusFail /\ e.componentId = ""
      BY NodeResultFacts
    <3> HIDE DEF e
    <3>3. 1 \in 1..Len(out) /\ out[1] = e
      BY <3>1
    <3>4. out # <<>>
      BY <3>1, <3>3, NonEmptySeq
    <3>5. /\ \E j \in 1..Len(out) : out[j].status = StatusFail
          /\ \E j \in 1..Len(out) : out[j].componentId = ""
      BY <3>2, <3>3, Zenon
    <3> QED
      BY <2>1, <3>4, <3>5, Zenon DEF UnreachableVisible, Observable
  <2>2. CASE Observable
    <3>1. \A n \in Node : Appended(n) <=> n \in cluster
      BY DEF ClusterInv, PhaseInv, Appended
    <3>2. SliceInv /\ cluster \subseteq Node /\ out \in Seq(Result)
      BY <2>2 DEF ClusterInv, ClusterTypeOK
    <3>3. \A n \in cluster : \E j \in 1..Len(out) : out[j] = NodeResult(n, ping[n])
      BY <3>1, <3>2 DEF SliceInv
    <3>4. \A j \in 1..Len(out) : \E n \in cluster : out[j] = NodeResult(n, ping[n])
      BY <3>1, <3>2 DEF SliceInv
    <3>5. out = <<>> <=> cluster = {}
      <4>1. ASSUME cluster = {} PROVE out = <<>>
        BY <3>2, <3>4, <4>1, EmptySeq
      <4> QED
        BY <3>3, <4>1
    <3>6. (\E j \in 1..Len(out) : out[j].status = StatusFail) <=>
            \E n \in cluster : ping[n] = StatusFail
      <4>1. \A n : NodeResult(n, ping[n]).status = ping[n]
        BY NodeResultFacts
      <4>2. ASSUME NEW j \in 1..Len(out), out[j].status = StatusFail
            PROVE  \E n \in cluster : ping[n] = StatusFail
        <5>1. PICK n \in cluster : out[j] = NodeResult(n, ping[n])
          BY <3>4
        <5> QED
          BY <4>1, <4>2, <5>1
      <4>3. ASSUME NEW n \in cluster, ping[n] = StatusFail
            PROVE  \E j \in 1..Len(out) : out[j].status = StatusFail
        <5>1. PICK j \in 1..Len(out) : out[j] = NodeResult(n, ping[n])
          BY <3>3
        <5> QED
          BY <4>1, <4>3, <5>1
      <4> QED
        BY <4>2, <4>3
    <3>7. \A j \in 1..Len(out) : out[j].componentId # ""
      <4> SUFFICES ASSUME NEW j \in 1..Len(out) PROVE out[j].componentId # ""
        OBVIOUS
      <4>1. PICK n \in cluster : out[j] = NodeResult(n, ping[n])
        BY <3>4
      <4>2. out[j].componentId = n /\ n \in Node
        BY <3>2, <4>1, NodeResultFacts
      <4> QED
        BY <4>2, NodeAssumption
    <3> QED
      BY <2>2, <3>5, <3>6, <3>7, Zenon DEF UnreachableVisible, Observable
  <2> QED
    BY <2>1, <2>2
<1> QED
  BY <1>1, ClusterInvariant, PTL

\* No callback overwrites the Result of another (the closure passed to forEach).
THEOREM AppendsAreAtomic == Spec => AppendsOne
<1> DEFINE One == \/ out' = out
                  \/ \E n \in cluster : out' = Append(out, NodeResult(n, ping[n]))
                  \/ out = <<>> /\ out' = <<NodeResult("", StatusFail)>> /\ err # "nil"
<1>1. ClusterInv /\ [Next]_vars => [One]_vars
  <2> SUFFICES ASSUME ClusterInv, Next PROVE One
    OBVIOUS
  <2>1. ASSUME NEW n \in Node, WriteSlice(n) PROVE One
    <3>1. n \in cluster /\ header[n] = out
      BY <2>1 DEF WriteSlice, ClusterInv, MutexInv, PhaseInv
    <3> QED
      BY <2>1, <3>1 DEF WriteSlice
  <2>2. CASE Return
    BY <2>2, AppendToEmpty DEF Return, Unreachable
  <2> QED
    BY <2>1, <2>2 DEF Next, ContextDone, Discover, DiscoveryFails, pingNode, Callback,
      Lock, ReadSlice, Unlock, Join, Terminated, vars
<1> QED
  BY <1>1, ClusterInvariant, PTL DEF Spec, AppendsOne

\* The mutex is only ever held by a callback that will unlock it.
THEOREM MutexIsNotAbandoned == Spec => []MutexNotAbandoned
<1>1. ClusterInv => MutexNotAbandoned
  <2> SUFFICES ASSUME ClusterInv, mu # free
               PROVE  pc = "iterate" /\ mu \in cluster /\ cb[mu] \in Locked
    BY DEF MutexNotAbandoned
  <2>1. mu \in Node /\ cb[mu] \in Locked
    BY DEF ClusterInv, ClusterTypeOK, MutexInv
  <2>2. mu \in cluster
    BY <2>1 DEF ClusterInv, PhaseInv, Locked
  <2> QED
    BY <2>1, <2>2 DEF ClusterInv, ClusterTypeOK, PhaseInv, Locked
<1> QED
  BY <1>1, ClusterInvariant, PTL

\* The contract's vocabulary is that of module Health.
LEMMA ContractVocabulary ==
  /\ CR!Result = Result /\ CR!StatusPass = StatusPass
  /\ \A rs : CR!Known(rs) <=> Known(rs)
  BY DEF CR!Result, Result, CR!Status, Status, CR!Known, Known, CR!StatusPass, CR!StatusWarn,
    CR!StatusFail, CR!StatusOther, StatusWarn, StatusOther

\* What Run returns is a slice that the contract of Check.Run allows.
LEMMA ReturnsReported == ClusterInv /\ pc = "returned" => out \in CR!Reported
<1> SUFFICES ASSUME ClusterInv, pc = "returned" PROVE out \in CR!Reported
  OBVIOUS
<1>1. out \in Seq(Result) /\ \A n \in Node : Appended(n) => ping[n] \in {StatusPass, StatusFail}
  BY DEF ClusterInv, ClusterTypeOK, PhaseInv, Appended
<1> DEFINE Fair(e) == /\ e.status \in {StatusPass, StatusFail}
                      /\ e.output <=> e.status # StatusPass
<1>2. \A id : \A x \in {StatusPass, StatusFail} : Fair(NodeResult(id, x))
  BY DEF NodeResult
<1>3. CASE ~Observable
  <2> DEFINE e == NodeResult("", StatusFail)
  <2>1. e \in Result /\ Fair(e)
    BY <1>2, NodeResultFacts
  <2>2. out = <<e>>
    BY <1>3 DEF ClusterInv
  <2> HIDE DEF e
  <2>3. \A j \in 1..Len(out) : j = 1 /\ Fair(out[j])
    BY <2>1, <2>2, SingletonSeq
  <2>4. Known(out)
    BY <2>3 DEF Known
  <2>5. \A i, j \in 1..Len(out) : i = j
    BY <2>3
  <2>6. \A k \in 1..Len(out) : out[k].output <=> out[k].status # StatusPass
    BY <2>3, Zenon
  <2> QED
    BY <1>1, <2>4, <2>5, <2>6, ContractVocabulary, Zenon DEF CR!Reported
<1>4. CASE Observable
  <2>1. SliceInv
    BY <1>4 DEF ClusterInv
  <2>2. \A j \in 1..Len(out) : Fair(out[j])
    <3> HIDE DEF Fair
    <3> QED
      BY <1>1, <1>2, <2>1 DEF SliceInv
  <2>3. \A i, j \in 1..Len(out) : out[i].componentId = out[j].componentId => i = j
    BY <2>1 DEF SliceInv
  <2>4. Known(out)
    BY <2>2 DEF Known
  <2>5. \A k \in 1..Len(out) : out[k].output <=> out[k].status # StatusPass
    BY <2>2, Zenon
  <2> QED
    BY <1>1, <2>3, <2>4, <2>5, ContractVocabulary, Zenon DEF CR!Reported
<1> QED
  BY <1>3, <1>4

\* redischeck.NewCluster keeps the contract of Check.Run, for clusters of any
\* size and any interleaving of the callbacks (newWithIterator).
THEOREM ClusterImplements == Spec => ClusterImplementsRun
<1> DEFINE call     == IF pc = "returned" THEN "returned" ELSE "running"
           reported == IF pc = "returned" THEN out ELSE <<>>
<1>1. Init => CR!Init
  BY DEF Init, CR!Init
<1>2. ClusterInv /\ ClusterInv' /\ [Next]_vars => [CR!Call \/ CR!Return]_<<call, reported, "named">>
  <2> SUFFICES ASSUME ClusterInv, ClusterInv', [Next]_vars
               PROVE  CR!Return \/ UNCHANGED <<call, reported, "named">>
    OBVIOUS
  <2>1. CASE Return
    <3>1. out' \in CR!Reported
      <4>1. (ClusterInv /\ pc = "returned")' => (out \in CR!Reported)'
        BY ReturnsReported, PTL
      <4> QED
        BY <2>1, <4>1 DEF Return, CR!Reported
    <3> QED
      BY <2>1, <3>1 DEF Return, CR!Return
  <2>2. CASE pc # "returned" /\ pc' # "returned"
    BY <2>2
  <2>3. CASE pc = "returned" /\ UNCHANGED <<pc, out>>
    BY <2>3
  <2>4. pc = "returned" => \A n \in Node : cb[n] \in {"none", "finished"}
    BY DEF ClusterInv, PhaseInv
  <2> QED
    BY <2>1, <2>2, <2>3, <2>4 DEF Next, ContextDone, Discover, DiscoveryFails, pingNode,
      Callback, Lock, Granted, ReadSlice, WriteSlice, Unlock, Join, Terminated, vars
<1> QED
  BY <1>1, <1>2, ClusterInvariant, PTL DEF Spec, ClusterImplementsRun, CR!Spec
=============================================================================
