---------------------------- MODULE ModelRollout ----------------------------
(***************************************************************************)
(* The model configurations of one purpose: their evaluation reports,      *)
(* their rollout and the choice a provider call makes among them           *)
(* (create_model_configuration, create_model_evaluation_report and         *)
(* activate_model_configuration of ProductAdminOpsService,                 *)
(* runtime_model_configuration).                                           *)
(*                                                                         *)
(* An activation locks its record, then finds the deployed ones and waits  *)
(* for their locks.  A found row that has been retired meanwhile drops     *)
(* out; one that has been deployed meanwhile is not found.  Two partial    *)
(* unique indexes, checked with every row as it is written, allow one      *)
(* active and one canary row.                                              *)
(***************************************************************************)
EXTENDS Naturals, FiniteSets

CONSTANTS
  Configurations,    \* by primary key, a random UUID: the order of the writes
  Admins             \* calls of administrators

ASSUME RolloutAssumption == Configurations \subseteq Nat \ {0} /\ IsFiniteSet(Configurations)

Shares == {50, 100}          \* rollout percentages: of a canary, of a full rollout
Environment == 0             \* the settings of the process instead of a row

VARIABLES
  model,      \* the rows: status and rollout percentage
  reports,    \* the evaluation reports: configuration and verdict
  rollout     \* what each call has read

rolloutVars == <<model, reports, rollout>>

NotCalling == [at |-> "none", id |-> 0, share |-> 0, found |-> {}]

Deployed == {c \in Configurations : model[c].status \in {"active", "canary"}}
With(rows, status) == {c \in Configurations : rows[c].status = status}

RolloutTypeOK ==
  /\ \A c \in Configurations :
       /\ model[c].status \in {"none", "draft", "active", "canary", "retired"}
       /\ model[c].share \in Shares \union {0}
       /\ model[c].share # 0 <=> c \in Deployed
  /\ reports \subseteq Configurations \X {"passed", "failed"}
  /\ \A a \in Admins : rollout[a].at \in {"none", "locked", "found"}

RolloutInit ==
  /\ model = [c \in Configurations |-> [status |-> "none", share |-> 0]]
  /\ reports = {}
  /\ rollout = [a \in Admins |-> NotCalling]
-----------------------------------------------------------------------------
CreateConfiguration(c) ==
  /\ model[c].status = "none"
  /\ model' = [model EXCEPT ![c].status = "draft"]
  /\ UNCHANGED <<reports, rollout>>

\* The quality gate has judged the metrics of a sample.
CreateReport(c, verdict) ==
  /\ model[c].status # "none"
  /\ reports' = reports \union {<<c, verdict>>}
  /\ UNCHANGED <<model, rollout>>

\* The record is locked; its report must have passed.
LockRecord(a, c, share) ==
  /\ rollout[a].at = "none"
  /\ model[c].status # "none"
  /\ <<c, "passed">> \in reports
  /\ \A b \in Admins : rollout[b].at # "none" => rollout[b].id # c
  /\ rollout' = [rollout EXCEPT ![a] =
       [NotCalling EXCEPT !.at = "locked", !.id = c, !.share = share]]
  /\ UNCHANGED <<model, reports>>

FindDeployed(a) ==
  /\ rollout[a].at = "locked"
  /\ rollout' = [rollout EXCEPT ![a].at = "found", ![a].found = Deployed]
  /\ UNCHANGED <<model, reports>>

\* The found rows, when the last of their locks has been granted.
StillDeployed(a) == rollout[a].found \intersect Deployed

\* Fault: a canary may stand in for its own baseline.
AnyActive(a) == \E b \in StillDeployed(a) : model[b].status = "active"

HasBaseline(a) == \E b \in StillDeployed(a) \ {rollout[a].id} : model[b].status = "active"

\* A full rollout retires every other deployed row, a canary the other canary.
Retired(a) ==
  LET call == rollout[a] IN
  {c \in StillDeployed(a) \ {call.id} : call.share = 100 \/ model[c].status = "canary"}

RetiredShare(c) == 0

RolledOut(a) ==
  LET call == rollout[a]
      status == IF call.share = 100 THEN "active" ELSE "canary"
  IN
  [c \in Configurations |->
     CASE c = call.id      -> [status |-> status, share |-> call.share]
       [] c \in Retired(a) -> [status |-> "retired", share |-> RetiredShare(c)]
       [] OTHER            -> model[c]]

\* The rows are written in the order of their keys; after one of the writes two
\* rows are active, or two are canaries.
HitsIndex(a) ==
  \E last \in Configurations :
    LET rows == [c \in Configurations |-> IF c <= last THEN RolledOut(a)[c] ELSE model[c]] IN
    \/ Cardinality(With(rows, "active")) > 1
    \/ Cardinality(With(rows, "canary")) > 1

Activate(a) ==
  LET call == rollout[a] IN
  /\ call.at = "found"
  /\ \A b \in Admins \ {a} : rollout[b].at # "none" => rollout[b].id \notin call.found
  /\ IF (call.share < 100 /\ ~HasBaseline(a)) \/ HitsIndex(a)
       THEN UNCHANGED model
       ELSE model' = RolledOut(a)
  /\ rollout' = [rollout EXCEPT ![a] = NotCalling]
  /\ UNCHANGED reports

\* Two calls that wait for each other, or a lost connection: nothing is written.
AbortRollout(a) ==
  /\ rollout[a].at # "none"
  /\ rollout' = [rollout EXCEPT ![a] = NotCalling]
  /\ UNCHANGED <<model, reports>>

RolloutNext ==
  \/ \E c \in Configurations :
       CreateConfiguration(c) \/ \E verdict \in {"passed", "failed"} : CreateReport(c, verdict)
  \/ \E a \in Admins :
       \/ \E c \in Configurations, share \in Shares : LockRecord(a, c, share)
       \/ FindDeployed(a) \/ Activate(a) \/ AbortRollout(a)
-----------------------------------------------------------------------------
(* Properties.                                                             *)

\* Whom a call with this bucket of a hundred is sent to.
Served(bucket) ==
  LET canaries == {c \in With(model, "canary") : bucket < model[c].share} IN
  CASE With(model, "active") = {} -> {Environment}
    [] canaries # {} -> canaries
    [] OTHER -> With(model, "active")

\* FR-ADMIN-002: in whatever order activations run, every call is sent to one
\* configuration, one that has passed its evaluation; once a configuration is in
\* use the environment is not used again, and a canary leaves calls to a baseline.
CanaryHasBaseline ==
  /\ \A bucket \in {0, 99} : Cardinality(Served(bucket)) = 1
  /\ \A bucket \in {0, 99} : \A c \in Served(bucket) \ {Environment} : <<c, "passed">> \in reports
  /\ Deployed # {} => /\ With(model, "active") # {}
                      /\ Served(99) = With(model, "active")
=============================================================================
