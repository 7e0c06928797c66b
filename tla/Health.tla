------------------------------- MODULE Health -------------------------------
(***************************************************************************)
(* The data of the health framework (core/check.go, core/status.go) and    *)
(* the pure functions of core/engine.go that the Engine applies to it.     *)
(*                                                                         *)
(* Fields the framework only copies (ObservedValue, ObservedUnit, Links,   *)
(* Time, ServiceId, Description) are left out.  Output and                 *)
(* AffectedEndpoints are kept as "is it non-empty?", which is all the      *)
(* suppression rule looks at.  A time.Duration is an integer.              *)
(***************************************************************************)
EXTENDS Integers, Sequences

CONSTANTS
  Name,           \* names the service gives to its checks
  ComponentType,  \* values of Check.ComponentType
  ComponentId     \* values of Result.ComponentId other than ""

(***************************************************************************)
(* Status.  StatusOther stands for every string that is none of the three  *)
(* constants: a typo in a custom check, or the zero value of a Result whose *)
(* Status was never set.                                                   *)
(***************************************************************************)
StatusPass  == "pass"
StatusWarn  == "warn"
StatusFail  == "fail"
StatusOther == "other"
Status      == {StatusPass, StatusWarn, StatusFail, StatusOther}

\* Mutation: every response is a 200, as the comment on LivezHandler has it.
HTTPStatusCodeOK(s) == 200

HTTPStatusCode(s) == IF s = StatusFail THEN 503 ELSE 200

systemTimeCheckName == "system:time"

Key == Name \cup {systemTimeCheckName}

Result == [componentId : ComponentId \cup {""},
           status      : Status,
           output      : BOOLEAN,
           affected    : BOOLEAN]

\* run = FALSE is a Check whose Run function is nil.
Check == [name          : Key,
          componentType : ComponentType,
          timeout       : Int,
          run           : BOOLEAN]

ComponentStatus == [componentId   : ComponentId \cup {""},
                    componentType : ComponentType \cup {"system"},
                    status        : Status,
                    output        : BOOLEAN,
                    affected      : BOOLEAN]

-----------------------------------------------------------------------------
(***************************************************************************)
(* map[string][]ComponentStatus: a function whose domain is the set of     *)
(* keys present.  Reading an absent key yields the nil slice.              *)
(***************************************************************************)
IsChecksMap(m) ==
  /\ m = [k \in DOMAIN m |-> m[k]]
  /\ DOMAIN m \subseteq Key
  /\ \A k \in DOMAIN m : m[k] \in Seq(ComponentStatus)

Lookup(m, k) == IF k \in DOMAIN m THEN m[k] ELSE <<>>

Assign(m, k, list) ==
  [x \in DOMAIN m \cup {k} |-> IF x = k THEN list ELSE m[x]]

systemTimeStatus ==
  [componentId |-> "", componentType |-> "system", status |-> StatusPass,
   output |-> FALSE, affected |-> FALSE]

-----------------------------------------------------------------------------
(***************************************************************************)
(* runOne, after the Run function is done: what a nil Run reports, and the *)
(* conversion of Results to ComponentStatus values, which clears Output    *)
(* and AffectedEndpoints of a passing observation.                         *)
(***************************************************************************)
nilRunResults ==
  << [componentId |-> "", status |-> StatusFail,
      output |-> TRUE, affected |-> FALSE] >>

\* Mutation: the suppression forgets AffectedEndpoints.
affectedOfAlways(r) == r.affected

affectedOf(r) == r.affected /\ r.status # StatusPass

toComponentStatus(c, r) ==
  [componentId   |-> r.componentId,
   componentType |-> c.componentType,
   status        |-> r.status,
   output        |-> r.output /\ r.status # StatusPass,
   affected      |-> affectedOf(r)]

convert(c, rs) == [k \in 1..Len(rs) |-> toComponentStatus(c, rs[k])]

-----------------------------------------------------------------------------
(***************************************************************************)
(* One iteration of the merge loop of runChecks: the results of one check  *)
(* are appended under its name; a check without results leaves no key.     *)
(***************************************************************************)
\* Mutation: the results of a check replace those of an earlier namesake.
mergeReplaces(m, k, list) == IF list = <<>> THEN m ELSE Assign(m, k, list)

\* Mutation: a check with nothing to report leaves its key behind.
mergeKeepsEmpty(m, k, list) == Assign(m, k, Lookup(m, k) \o list)

merge(m, k, list) ==
  IF list = <<>> THEN m ELSE Assign(m, k, Lookup(m, k) \o list)

(***************************************************************************)
(* aggregate: any fail fails, else any warn warns, else pass.  The loop    *)
(* over the map, whose order Go leaves open, is module Aggregate; what the *)
(* loop returns is this operator (AggregateProofs).                        *)
(***************************************************************************)
Reports(m, s) == \E k \in DOMAIN m : \E j \in 1..Len(m[k]) : m[k][j].status = s

\* Mutation: a warning does not show in the status.
aggregateNoWarn(m) == IF Reports(m, StatusFail) THEN StatusFail ELSE StatusPass

aggregate(m) ==
  IF Reports(m, StatusFail) THEN StatusFail
  ELSE IF Reports(m, StatusWarn) THEN StatusWarn
  ELSE StatusPass

-----------------------------------------------------------------------------
(***************************************************************************)
(* What a client is owed, said without the loops of the code.              *)
(***************************************************************************)
\* The statuses of the observations are the ones Result.Status allows.
Known(rs) == \A k \in 1..Len(rs) : rs[k].status \in {StatusPass, StatusWarn, StatusFail}

\* The observations of a check as a client should see them.
Shown(c, rs) ==
  [k \in 1..Len(rs) |->
     LET diagnose == rs[k].status # StatusPass IN
     [componentId   |-> rs[k].componentId,
      componentType |-> c.componentType,
      status        |-> rs[k].status,
      output        |-> IF diagnose THEN rs[k].output ELSE FALSE,
      affected      |-> IF diagnose THEN rs[k].affected ELSE FALSE]]

\* list is what the first m checks of cs have under the name n, one after the
\* other: the entries of check i end at off[i].
Concatenates(list, n, cs, rs, m) ==
  \E off \in [0..m -> 0..Len(list)] :
    /\ off[0] = 0 /\ off[m] = Len(list)
    /\ \A i \in 1..m :
         IF cs[i].name = n
         THEN /\ off[i] = off[i - 1] + Len(rs[i])
              /\ \A k \in 1..Len(rs[i]) : list[off[i - 1] + k] = rs[i][k]
         ELSE off[i] = off[i - 1]
=============================================================================
