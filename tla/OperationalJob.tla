--------------------------- MODULE OperationalJob ---------------------------
(***************************************************************************)
(* The record of one background task and of its manual retries (the        *)
(* signals of core/celery_app.py; retry_job, publish_retry and             *)
(* publish_pending_retries of ProductAdminOpsService).                     *)
(*                                                                         *)
(* The signals write the status of a job in transactions of their own; an  *)
(* error of theirs is logged and the status stays.  A retry commits a new  *)
(* job, its dispatch, the completed command and an audit event; the        *)
(* request and the beat then send the dispatch, each from the row it has   *)
(* in memory: the lock it takes does not refresh it.                       *)
(***************************************************************************)
EXTENDS Naturals, Sequences, FiniteSets

CONSTANTS
  Operators,     \* the administrators
  RetryKeys,     \* their idempotency keys
  JobWorkers,    \* worker processes
  MaxAttempts,   \* max_attempts of a job
  MaxJobs,       \* bound: rows of OperationalJob
  MaxSends       \* bound: messages sent for one job

ASSUME OperationalJobAssumption ==
  MaxAttempts \in Nat /\ MaxJobs \in Nat \ {0} /\ MaxSends \in Nat \ {0}

Ids == 1 .. MaxJobs
Publishers == {"request", "beat"}
Unsent == 0

VARIABLES
  jobs,        \* the rows: status, attempt, parent
  dispatches,  \* the status of the dispatch of each job
  sent,        \* messages sent for each job
  broker,      \* messages of each job no worker has taken
  publisher,   \* the dispatch each publisher has read as pending
  runner,      \* the job each worker executes
  commands,    \* the completed retry commands
  trail        \* the jobs whose retry has an audit event, in their order

operationalJobVars == <<jobs, dispatches, sent, broker, publisher, runner, commands, trail>>

OperationalJobTypeOK ==
  /\ \A i \in DOMAIN jobs :
       /\ jobs[i].status \in {"queued", "running", "succeeded", "failed", "dead_letter"}
       /\ jobs[i].attempt \in Nat
       /\ jobs[i].parent \in 0 .. i - 1
  /\ dispatches \in [Ids -> {"none", "pending", "published"}]
  /\ sent \in [Ids -> 0 .. MaxSends] /\ broker \in [Ids -> 0 .. MaxSends]
  /\ publisher \in [Publishers -> Ids \union {Unsent}]
  /\ runner \in [JobWorkers -> Ids \union {0}]
  /\ commands \subseteq [by : Operators, of : Ids, key : RetryKeys, child : Ids]
  /\ trail \in Seq(Ids)

\* The first job is registered before its message is sent.
OperationalJobInit ==
  /\ jobs = <<[status |-> "queued", attempt |-> 0, parent |-> 0]>>
  /\ dispatches = [i \in Ids |-> "none"]
  /\ sent = [i \in Ids |-> IF i = 1 THEN 1 ELSE 0]
  /\ broker = sent
  /\ publisher = [p \in Publishers |-> Unsent]
  /\ runner = [w \in JobWorkers |-> 0]
  /\ commands = {} /\ trail = <<>>
-----------------------------------------------------------------------------
(* The signals of an execution.                                            *)

Marked(i, status) == jobs' \in {jobs, [jobs EXCEPT ![i].status = status]}

Prerun(w) ==
  \E i \in Ids :
    /\ runner[w] = 0 /\ broker[i] > 0
    /\ broker' = [broker EXCEPT ![i] = @ - 1]
    /\ runner' = [runner EXCEPT ![w] = i]
    /\ Marked(i, "running")
    /\ UNCHANGED <<dispatches, sent, publisher, commands, trail>>

FailedStatus(i) == IF jobs[i].attempt >= MaxAttempts THEN "dead_letter" ELSE "failed"

\* task_failure, then task_postrun, which leaves "dead_letter" alone.
Postrun(w) ==
  LET i == runner[w] IN
  /\ i # 0
  /\ \E status \in {"succeeded", FailedStatus(i)} : Marked(i, status)
  /\ runner' = [runner EXCEPT ![w] = 0]
  /\ UNCHANGED <<dispatches, sent, broker, publisher, commands, trail>>

\* The process dies; the message is delivered to another one.
JobWorkerDies(w) ==
  LET i == runner[w] IN
  /\ i # 0
  /\ runner' = [runner EXCEPT ![w] = 0]
  /\ broker' = [broker EXCEPT ![i] = @ + 1]
  /\ UNCHANGED <<jobs, dispatches, sent, publisher, commands, trail>>
-----------------------------------------------------------------------------
(* Retries.                                                                *)

NewKey(a, i, k) == ~\E c \in commands : c.by = a /\ c.of = i /\ c.key = k

Retryable(i) == jobs[i].status \in {"failed", "dead_letter"} /\ jobs[i].attempt < MaxAttempts

\* The row of the operator and the row of the job are locked to the end.
RetryJob(a, i, k) ==
  LET child == Len(jobs) + 1 IN
  /\ i \in DOMAIN jobs /\ child \in Ids
  /\ NewKey(a, i, k)
  /\ Retryable(i)
  /\ jobs' = Append(jobs, [status |-> "queued", attempt |-> jobs[i].attempt + 1, parent |-> i])
  /\ dispatches' = [dispatches EXCEPT ![child] = "pending"]
  /\ commands' = commands \union {[by |-> a, of |-> i, key |-> k, child |-> child]}
  /\ trail' = Append(trail, child)
  /\ UNCHANGED <<sent, broker, publisher, runner>>

\* The request goes on with the row it has just written, the beat with its list.
ReadDispatch(p) ==
  /\ publisher[p] = Unsent
  /\ \E i \in Ids : dispatches[i] = "pending" /\ publisher' = [publisher EXCEPT ![p] = i]
  /\ UNCHANGED <<jobs, dispatches, sent, broker, runner, commands, trail>>

\* Fault: "published" although the broker has refused the message.
PublishedAnyway(i) == {"published"}

StatusAfterFailure(i) == {dispatches[i]}

\* The message is sent whatever the row has become; then the commit, which may be
\* lost, or the error is recorded.
PublishRetry(p) ==
  LET i == publisher[p] IN
  /\ i # Unsent
  /\ \/ /\ sent[i] < MaxSends
        /\ sent' = [sent EXCEPT ![i] = @ + 1]
        /\ broker' = [broker EXCEPT ![i] = @ + 1]
        /\ dispatches' \in {dispatches, [dispatches EXCEPT ![i] = "published"]}
     \/ /\ \E status \in StatusAfterFailure(i) : dispatches' = [dispatches EXCEPT ![i] = status]
        /\ UNCHANGED <<sent, broker>>
  /\ publisher' = [publisher EXCEPT ![p] = Unsent]
  /\ UNCHANGED <<jobs, runner, commands, trail>>

OperationalJobNext ==
  \/ \E w \in JobWorkers : Prerun(w) \/ Postrun(w) \/ JobWorkerDies(w)
  \/ \E a \in Operators, i \in Ids, k \in RetryKeys : RetryJob(a, i, k)
  \/ \E p \in Publishers : ReadDispatch(p) \/ PublishRetry(p)
-----------------------------------------------------------------------------
(* Properties.                                                             *)

\* FR-ADMIN-003 ("Retry idempotent, có reason/audit"): every retry is one command
\* of one operator with one audit event, and its message is on its way: it has
\* been sent, or the beat still finds the dispatch; retries of retries end.
RetriesAccounted ==
  LET children == DOMAIN jobs \ {1} IN
  /\ trail = [n \in 1 .. Len(jobs) - 1 |-> n + 1]
  /\ \A i \in children : \E c \in commands : c.child = i /\ c.of = jobs[i].parent
  /\ \A c, d \in commands : [c EXCEPT !.child = 0] = [d EXCEPT !.child = 0] => c = d
  /\ \A i \in children : dispatches[i] = "pending" \/ sent[i] > 0
  /\ \A i \in DOMAIN jobs : jobs[i].attempt <= MaxAttempts
  /\ \A i \in DOMAIN jobs : jobs[i].status # "queued" => sent[i] > 0
=============================================================================
