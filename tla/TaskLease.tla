----------------------------- MODULE TaskLease ------------------------------
(***************************************************************************)
(* The background processing of one resource: a CV scan, a CV analysis or  *)
(* an interview report (services/task_dispatch.py, task_leases.py and the  *)
(* three tasks of workers/tasks.py).                                       *)
(*                                                                         *)
(* A request inserts the resource and its outbox event in one transaction. *)
(* Publishers send events to the broker; workers take the resource under a *)
(* lease of fifteen minutes, call the provider without a transaction, and  *)
(* write the outcome only if the lease is still theirs.  A beat task puts  *)
(* resources with a lapsed lease back.  Every action is one transaction on *)
(* the locked row, or one event of the broker or of a worker process.      *)
(*                                                                         *)
(* Any time may pass between two steps: the clock is the flag "aged", set  *)
(* when fifteen minutes have passed since the row was last written.        *)
(*                                                                         *)
(* An analysis is paid by a credit reservation; "charge" is its status,    *)
(* and stays "none" for a scan or a report.  Reconcile is the transaction  *)
(* of reconcile_expired_reservations for that reservation.  It reads the   *)
(* analysis without a lock, but it holds the reservation, which a worker   *)
(* needs to commit an outcome: one of the two waits or is aborted.         *)
(***************************************************************************)
EXTENDS FiniteSets, Integers

CONSTANTS
  Worker,      \* worker processes
  TaskId,      \* Celery task ids; an id out of use stands for a fresh one
  NoTask,      \* no task, and no lease
  Waiting,     \* status of a resource that waits for a worker
  Active,      \* status of a resource that a worker has taken
  Done,        \* status of a resource with a result
  Failed,      \* status of a resource whose processing failed
  Startable,   \* statuses in which the task takes the resource
  Billed,      \* whether a reservation pays for the resource
  MaxFaults    \* bound of crashes, lost messages and database failures

VARIABLES
  status,      \* status of the resource
  lease,       \* processing_lease_id
  aged,        \* fifteen minutes have passed since the row was written
  charge,      \* status of the credit reservation
  event,       \* the outbox event
  queued,      \* messages in the broker
  exec,        \* what each worker is doing
  faults       \* faults so far

vars == <<status, lease, aged, charge, event, queued, exec, faults>>

ASSUME TaskAssumption ==
  /\ NoTask \notin TaskId
  /\ Done \notin {Waiting, Active, Failed} /\ Failed \notin {Waiting, Active}
  /\ Done \notin Startable
  /\ Billed \in BOOLEAN /\ MaxFaults \in Nat

Idle == [task |-> NoTask, phase |-> "idle"]
Busy == [task: TaskId, phase: {"received", "calling"}]

-----------------------------------------------------------------------------

\* Ids no message, execution or lease refers to.
FreshIds == {id \in TaskId : id \notin queued /\ id # lease /\ \A w \in Worker : exec[w].task # id}

Fault == faults < MaxFaults /\ faults' = faults + 1

\* claim: the lease is free, lapsed, or already this task's.
Claimable(id) == lease \in {NoTask, id} \/ aged

\* Fault: whoever still runs may write.
OwnsAnyway(w) == TRUE

\* owns
Owns(w) == lease = exec[w].task

\* Fault: a result is written although its reservation cannot be captured.
CapturableAnyway == TRUE

\* A capture raises 409 unless the reservation is open or already captured.
Capturable == charge # "released"

Captured(c) == IF c = "held" THEN "captured" ELSE c
Released(c) == IF c = "held" THEN "released" ELSE c

\* Fault: the event of a recovered resource counts as published.
KeptEvent == event

\* recover_stalled publishes the event of a recovered resource again.
RecoveredEvent == "due"

\* Fault: only what a worker has taken is timed out.
TimedOutActive == {Active}

\* Statuses that the reconciler turns into a failure.
TimedOut == {Waiting, Active}

Init ==
  /\ status = Waiting
  /\ lease = NoTask
  /\ aged = FALSE
  /\ charge = IF Billed THEN "held" ELSE "none"
  /\ event \in {"missing", "due"}     \* "missing": the row is older than the outbox
  /\ queued = {}
  /\ exec = [w \in Worker |-> Idle]
  /\ faults = 0

-----------------------------------------------------------------------------
(* The publisher, which locks the event. *)

Sent ==
  /\ event = "due"
  /\ \E id \in FreshIds : queued' = queued \cup {id}
  /\ event' = "published"
  /\ UNCHANGED <<status, lease, aged, charge, exec, faults>>

\* The publisher dies after the broker took the message, before its commit.
SentUncommitted ==
  /\ event = "due" /\ Fault
  /\ \E id \in FreshIds : queued' = queued \cup {id}
  /\ UNCHANGED <<status, lease, aged, charge, event, exec>>

\* The broker refuses: the event is available again after a backoff.
Refused ==
  /\ event = "due"
  /\ event' = "backoff"
  /\ UNCHANGED <<status, lease, aged, charge, queued, exec, faults>>

BackoffEnds ==
  /\ event = "backoff"
  /\ event' = "due"
  /\ UNCHANGED <<status, lease, aged, charge, queued, exec, faults>>

-----------------------------------------------------------------------------
(* The broker. *)

Deliver(w) ==
  /\ exec[w] = Idle
  /\ \E id \in queued :
       /\ queued' = queued \ {id}
       /\ exec' = [exec EXCEPT ![w] = [task |-> id, phase |-> "received"]]
  /\ UNCHANGED <<status, lease, aged, charge, event, faults>>

\* A message not acknowledged within the visibility timeout is sent again.
Redeliver(w) ==
  /\ exec[w] # Idle /\ exec[w].task \notin queued
  /\ queued' = queued \cup {exec[w].task}
  /\ UNCHANGED <<status, lease, aged, charge, event, exec, faults>>

-----------------------------------------------------------------------------
(* The worker. *)

Stop(w) == exec' = [exec EXCEPT ![w] = Idle]

Claim(w) ==
  LET id == exec[w].task
  IN  /\ exec[w].phase = "received"
      /\ IF status \in Startable /\ Claimable(id)
         THEN /\ status' = Active /\ lease' = id /\ aged' = FALSE
              /\ exec' = [exec EXCEPT ![w].phase = "calling"]
         ELSE Stop(w) /\ UNCHANGED <<status, lease, aged>>
      /\ UNCHANGED <<charge, event, queued, faults>>

\* The task is superseded: it writes nothing.
Discard(w) ==
  /\ exec[w].phase = "calling" /\ ~Owns(w)
  /\ Stop(w)
  /\ UNCHANGED <<status, lease, aged, charge, event, queued, faults>>

Complete(w) ==
  /\ exec[w].phase = "calling" /\ Owns(w) /\ Capturable
  /\ status' = Done /\ lease' = NoTask /\ aged' = FALSE
  /\ charge' = Captured(charge)
  /\ Stop(w)
  /\ UNCHANGED <<event, queued, faults>>

\* The provider, or the capture, raised.
Fail(w) ==
  /\ exec[w].phase = "calling" /\ Owns(w)
  /\ status' = Failed /\ lease' = NoTask /\ aged' = FALSE
  /\ charge' = Released(charge)
  /\ Stop(w)
  /\ UNCHANGED <<event, queued, faults>>

\* The database failed before the claim was committed.  The task ends and its
\* message is acknowledged.
FailUnclaimed(w) ==
  /\ exec[w].phase = "received" /\ Fault
  /\ IF Owns(w)
     THEN status' = Failed /\ lease' = NoTask /\ aged' = FALSE /\ charge' = Released(charge)
     ELSE UNCHANGED <<status, lease, aged, charge>>
  /\ Stop(w)
  /\ UNCHANGED <<event, queued>>

\* The process dies; its message is delivered again or was acknowledged.
Crash(w) ==
  /\ exec[w] # Idle /\ Fault
  /\ Stop(w)
  /\ queued' \in {queued, queued \cup {exec[w].task}}
  /\ UNCHANGED <<status, lease, aged, charge, event>>

-----------------------------------------------------------------------------
(* Time and the beat tasks. *)

Age ==
  /\ ~aged /\ status \in {Waiting, Active}
  /\ aged' = TRUE
  /\ UNCHANGED <<status, lease, charge, event, queued, exec, faults>>

RecoverStalled ==
  /\ status \in {Waiting, Active}
  /\ \/ /\ event = "missing"
        /\ event' = "due"
        /\ UNCHANGED <<status, lease, aged>>
     \/ /\ event # "missing"
        /\ status = Active /\ aged
        /\ status' = Waiting /\ lease' = NoTask /\ aged' = FALSE
        /\ event' = RecoveredEvent
  /\ UNCHANGED <<charge, queued, exec, faults>>

Reconcile ==
  /\ charge = "held"
  /\ status \in TimedOut \cup {Done, Failed}
  /\ status' = IF status \in TimedOut THEN Failed ELSE status
  /\ charge' = IF status = Done THEN "captured" ELSE "released"
  /\ UNCHANGED <<lease, aged, event, queued, exec, faults>>

Next ==
  \/ Sent \/ SentUncommitted \/ Refused \/ BackoffEnds
  \/ \E w \in Worker : \/ Deliver(w) \/ Redeliver(w)
                       \/ Claim(w) \/ Discard(w) \/ Complete(w) \/ Fail(w)
                       \/ FailUnclaimed(w) \/ Crash(w)
  \/ Age \/ RecoverStalled \/ Reconcile

Spec == Init /\ [][Next]_vars

\* The beat runs the publisher, recovery and reconciliation for ever; workers
\* take messages and end their transactions; the broker does not refuse for
\* ever; and a provider call, whose timeout is far below fifteen minutes, does
\* not outlast the lease every time.
Fairness ==
  /\ SF_vars(Sent) /\ WF_vars(BackoffEnds)
  /\ WF_vars(Age) /\ WF_vars(RecoverStalled) /\ WF_vars(Reconcile)
  /\ \A w \in Worker : /\ WF_vars(Deliver(w)) /\ WF_vars(Claim(w)) /\ WF_vars(Discard(w))
                       /\ SF_vars(Complete(w) \/ Fail(w))

FairSpec == Spec /\ Fairness

-----------------------------------------------------------------------------
(* Properties. *)

\* Every row, message and worker has its type.
TypeOK ==
  /\ status \in {Waiting, Active, Done, Failed}
  /\ lease \in TaskId \cup {NoTask}
  /\ aged \in BOOLEAN
  /\ charge \in IF Billed THEN {"held", "captured", "released"} ELSE {"none"}
  /\ event \in {"missing", "due", "backoff", "published"}
  /\ queued \in SUBSET TaskId
  /\ exec \in [Worker -> {Idle} \cup Busy]
  /\ faults \in 0 .. MaxFaults

\* A CV analysis is charged exactly when it has a result, whichever of worker,
\* second delivery, recovery or reconciliation ended it.
ChargedIffDone == Billed => (charge = "captured" <=> status = Done)

\* Processing implements a leased task: the result comes from the execution
\* that took the resource last, once, and is never replaced.
State == IF status = Done THEN "done"
         ELSE IF status = Failed THEN "failed"
         ELSE IF lease = NoTask THEN "waiting" ELSE "running"

Abstract == INSTANCE LeasedTask WITH Holder <- TaskId, NoHolder <- NoTask,
                                     state <- State, holder <- lease

IsLeasedTask == Abstract!Spec

\* The reservation of an analysis does not stay open, whatever becomes of the
\* messages that should have brought the analysis on.
ReservationSettles == charge = "held" ~> charge # "held"

\* A report that waits or is taken is eventually ready or failed, although a
\* message may be lost on the way (NFR-AVL-003).  A scan need not be.
Settles == status \in {Waiting, Active} ~> status \in {Done, Failed}
=============================================================================
