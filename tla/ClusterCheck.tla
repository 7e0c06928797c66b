---------------------------- MODULE ClusterCheck ----------------------------
(***************************************************************************)
(* The Run function of redischeck.NewCluster (newWithIterator): go-redis   *)
(* discovers the nodes of the cluster and calls the callback for each of   *)
(* them in a goroutine of its own; each callback pings its node and        *)
(* appends one Result to a shared slice under a mutex.                     *)
(*                                                                         *)
(* append(out, r) reads the slice header and writes it back; the two       *)
(* steps are apart here, so that the mutex is what keeps them together.    *)
(* The iterator (ForEachShard of go-redis) is external: it fails before    *)
(* any callback, or runs one for each node it yields, waits for them, and  *)
(* then returns nil or, as newWithIterator provides for, an error all the  *)
(* same.                                                                   *)
(***************************************************************************)
EXTENDS Health

CONSTANT Node   \* addresses of the nodes a cluster may consist of

VARIABLES
  pc,       \* Run: "discover", "iterate", "joined", "returned"
  ctx,      \* the context of Run: "live" or "done"
  cluster,  \* the nodes the iterator yielded
  err,      \* the error forEach returned: "nil" or "error"
  cb,       \* state of the callback for each node
  ping,     \* status of the node's Result, "none" before the ping
  mu,       \* holder of the mutex, or "free"
  header,   \* the slice a callback read before it appends
  out       \* the shared slice of Results

vars == <<pc, ctx, cluster, err, cb, ping, mu, header, out>>

free == "free"

ASSUME NodeAssumption ==
  Node \subseteq ComponentId /\ free \notin Node /\ "" \notin Node

Init ==
  /\ pc = "discover" /\ ctx = "live"
  /\ cluster = {} /\ err = "nil"
  /\ cb = [n \in Node |-> "none"]
  /\ ping = [n \in Node |-> "none"]
  /\ mu = free
  /\ header = [n \in Node |-> <<>>]
  /\ out = <<>>

\* The check's Timeout passes or the caller gives up (external).
ContextDone ==
  /\ ctx = "live" /\ pc # "returned"
  /\ ctx' = "done"
  /\ UNCHANGED <<pc, cluster, err, cb, ping, mu, header, out>>

\* ForEachShard learns the topology and starts a callback per node (external).
Discover ==
  /\ pc = "discover"
  /\ \E ns \in SUBSET Node :
       /\ cluster' = ns
       /\ cb' = [n \in Node |-> IF n \in ns THEN "pinging" ELSE "none"]
  /\ pc' = "iterate"
  /\ UNCHANGED <<ctx, err, ping, mu, header, out>>

\* No seed node answers: ForEachShard returns the error (external).
DiscoveryFails ==
  /\ pc = "discover"
  /\ err' = "error" /\ pc' = "joined"
  /\ UNCHANGED <<ctx, cluster, cb, ping, mu, header, out>>

\* Mutation: the Results do not say which node they are about.
NodeResultAnonymous(id, s) ==
  [componentId |-> "", status |-> s, output |-> s = StatusFail, affected |-> FALSE]

NodeResult(id, s) ==
  [componentId |-> id, status |-> s, output |-> s = StatusFail, affected |-> FALSE]

\* pingNode, with a node that answers or one that does not.
pingNode(n) ==
  /\ cb[n] = "pinging"
  /\ \E s \in {StatusPass, StatusFail} : ping' = [ping EXCEPT ![n] = s]
  /\ cb' = [cb EXCEPT ![n] = "locking"]
  /\ UNCHANGED <<pc, ctx, cluster, err, mu, header, out>>

\* pingNode gives up because its context is done.
pingGivesUp(n) == ctx = "done" /\ pingNode(n)

\* Mutation: the callback does not wait for the mutex.
GrantedAlways(n) == cb[n] = "locking"

\* mu.Lock() returns.
Granted(n) == cb[n] = "locking" /\ mu = free

Lock(n) ==
  /\ Granted(n)
  /\ mu' = n
  /\ cb' = [cb EXCEPT ![n] = "reading"]
  /\ UNCHANGED <<pc, ctx, cluster, err, ping, header, out>>

ReadSlice(n) ==
  /\ cb[n] = "reading"
  /\ header' = [header EXCEPT ![n] = out]
  /\ cb' = [cb EXCEPT ![n] = "writing"]
  /\ UNCHANGED <<pc, ctx, cluster, err, ping, mu, out>>

WriteSlice(n) ==
  /\ cb[n] = "writing"
  /\ out' = Append(header[n], NodeResult(n, ping[n]))
  /\ cb' = [cb EXCEPT ![n] = "unlocking"]
  /\ UNCHANGED <<pc, ctx, cluster, err, ping, mu, header>>

\* Mutation: a callback whose ping failed leaves without mu.Unlock().
UnlockedOnPass(n) == IF ping[n] = StatusPass THEN free ELSE mu

\* mu.Unlock().
Unlocked(n) == free

Unlock(n) ==
  /\ cb[n] = "unlocking"
  /\ mu' = Unlocked(n)
  /\ cb' = [cb EXCEPT ![n] = "finished"]
  /\ UNCHANGED <<pc, ctx, cluster, err, ping, header, out>>

\* forEach has waited for every callback, and returns nil or an error.
Join ==
  /\ pc = "iterate" /\ \A n \in cluster : cb[n] = "finished"
  /\ err' \in {"nil", "error"} /\ pc' = "joined"
  /\ UNCHANGED <<ctx, cluster, cb, ping, mu, header, out>>

\* Mutation: the error of forEach is reported whatever the nodes said.
UnreachableAlways == err # "nil"

Unreachable == err # "nil" /\ out = <<>>

\* An error without any node becomes a failing Result of its own; an error after
\* a node was observed is dropped.
Return ==
  /\ pc = "joined" /\ pc' = "returned"
  /\ out' = IF Unreachable THEN Append(out, NodeResult("", StatusFail)) ELSE out
  /\ UNCHANGED <<ctx, cluster, err, cb, ping, mu, header>>

Terminated == pc = "returned" /\ UNCHANGED vars

Callback(n) == Lock(n) \/ ReadSlice(n) \/ WriteSlice(n) \/ Unlock(n)

Next ==
  \/ ContextDone \/ Discover \/ DiscoveryFails
  \/ \E n \in Node : pingNode(n) \/ Callback(n)
  \/ Join \/ Return
  \/ Terminated

Spec == Init /\ [][Next]_vars

(***************************************************************************)
(* The scheduler runs the callbacks, the mutex is granted to a waiter in   *)
(* the end, and go-redis honours its context.  A node need not ever        *)
(* answer, and the context need not ever be done.                          *)
(***************************************************************************)
FairSpec ==
  /\ Spec
  /\ WF_vars(ctx = "done" /\ (Discover \/ DiscoveryFails))
  /\ WF_vars(Join \/ Return)
  /\ \A n \in Node : WF_vars(pingGivesUp(n)) /\ WF_vars(Callback(n))

-----------------------------------------------------------------------------
Locked == {"reading", "writing", "unlocking"}
Cb     == Locked \cup {"none", "pinging", "locking", "finished"}

ClusterTypeOK ==
  /\ pc \in {"discover", "iterate", "joined", "returned"}
  /\ ctx \in {"live", "done"}
  /\ cluster \subseteq Node /\ err \in {"nil", "error"}
  /\ cb \in [Node -> Cb]
  /\ ping \in [Node -> {"none", StatusPass, StatusFail}]
  /\ mu \in Node \cup {free}
  /\ header \in [Node -> Seq(Result)]
  /\ out \in Seq(Result)

\* No error came, or some node was observed all the same.
Observable == err = "nil" \/ cluster # {}

\* Every node the iterator yielded has exactly one Result, with the outcome of
\* its own ping, and nothing else has one: concurrent callbacks lose none of
\* them and duplicate none, and an error of the iterator does not bleed into
\* them (newWithIterator).
EveryNodeOnce ==
  pc = "returned" /\ Observable =>
    /\ \A n \in cluster : \E j \in 1..Len(out) : out[j] = NodeResult(n, ping[n])
    /\ \A j \in 1..Len(out) : out[j].componentId \in cluster
    /\ \A i, j \in 1..Len(out) : out[i].componentId = out[j].componentId => i = j

\* A cluster that cannot be reached is told from one without nodes and from one
\* whose nodes answered: Run reports nothing only if the iterator yielded no
\* node and no error; it reports a failure exactly if a ping failed or an error
\* came without any node, and only this last failure names no node.  An error
\* after a node was observed shows nowhere (newWithIterator).
UnreachableVisible ==
  pc = "returned" =>
    /\ out = <<>> <=> err = "nil" /\ cluster = {}
    /\ (\E j \in 1..Len(out) : out[j].status = StatusFail) <=>
         ~Observable \/ \E n \in cluster : ping[n] = StatusFail
    /\ (\E j \in 1..Len(out) : out[j].componentId = "") <=> ~Observable

\* A callback only ever adds its own Result behind those of the others: none
\* overwrites a sibling's with a header that is no longer current.
AppendsOne ==
  [][\/ out' = out
     \/ \E n \in cluster : out' = Append(out, NodeResult(n, ping[n]))
     \/ out = <<>> /\ out' = <<NodeResult("", StatusFail)>> /\ err # "nil"]_vars

\* Whoever waits for the mutex waits for a callback that holds it and is on its
\* way to mu.Unlock(): no early return leaves it locked, and it is free when
\* Run returns.
MutexNotAbandoned ==
  mu # free => pc = "iterate" /\ mu \in cluster /\ cb[mu] \in Locked

CR == INSTANCE CheckRun
        WITH call <- IF pc = "returned" THEN "returned" ELSE "running",
             reported <- IF pc = "returned" THEN out ELSE <<>>,
             instances <- "named"

\* NewCluster keeps the contract of Check.Run: what it returns names each node
\* once, explains every failure, and is not written by a late callback.
ClusterImplementsRun == CR!Spec

\* Run returns once its context is done, whatever the nodes do: the Timeout
\* bounds the whole fan-out, and no callback is left waiting for the mutex.
RunReturnsInTime == ctx = "done" ~> pc = "returned"

-----------------------------------------------------------------------------
\* The inductive invariant.  The mutex is held exactly by the callback between
\* Lock and Unlock, so the header it read is still the shared slice.
MutexInv ==
  /\ \A n \in Node : cb[n] \in Locked <=> mu = n
  /\ \A n \in Node : cb[n] = "writing" => header[n] = out

PhaseInv ==
  /\ pc = "discover" => cluster = {} /\ err = "nil"
  /\ err # "nil" => pc \in {"joined", "returned"}
  /\ \A n \in Node : cb[n] = "none" <=> n \notin cluster
  /\ \A n \in Node : cb[n] \notin {"none", "pinging"} => ping[n] # "none"
  /\ pc \in {"joined", "returned"} => \A n \in cluster : cb[n] = "finished"

Appended(n) == cb[n] \in {"unlocking", "finished"}

\* The slice holds one Result for each callback past its append, no other.
SliceInv ==
  /\ \A n \in Node : Appended(n) =>
       \E j \in 1..Len(out) : out[j] = NodeResult(n, ping[n])
  /\ \A j \in 1..Len(out) :
       \E n \in Node : Appended(n) /\ out[j] = NodeResult(n, ping[n])
  /\ \A i, j \in 1..Len(out) : out[i].componentId = out[j].componentId => i = j

\* At every point of the fan-out, the shared slice holds exactly one Result for
\* each callback past its append (the closure passed to forEach).
ClusterInv ==
  /\ ClusterTypeOK /\ MutexInv /\ PhaseInv
  /\ IF pc = "returned" /\ ~Observable THEN out = <<NodeResult("", StatusFail)>>
     ELSE SliceInv
=============================================================================
