---------------------------- MODULE PaymentInbox ----------------------------
(***************************************************************************)
(* Payment events on their way into the credit account (process_webhook    *)
(* and reconcile_payment_provider of services/product_billing.py).         *)
(*                                                                         *)
(* The provider sells one subscription by a checkout, renews it, refunds   *)
(* payments in parts and cancels it.  It sends a webhook for each of these *)
(* until one is acknowledged; the reconciliation beat retries events that  *)
(* failed or were left unfinished, and asks the provider for cancellations *)
(* and renewals, which it reports under event ids of their own.            *)
(*                                                                         *)
(* Every event has a row in the inbox, which is read without a lock and    *)
(* written blindly; each action is one transaction.  The effect of an      *)
(* event is the commit of _apply_payment_event, whose rows are locked.     *)
(* CreditLedger says what a grant and a reversal do to the buckets; here   *)
(* they are counted, credits are unspent, and a refund is one unit.        *)
(***************************************************************************)
EXTENDS FiniteSets, Integers

CONSTANTS
  Handler,     \* concurrent webhook requests
  Reconciler,  \* the beat task; one pass at a time
  First,       \* the payment of the checkout
  Renewal,     \* later payments of the subscription
  Refund,      \* refunds and chargebacks, each of one unit
  Cancellation, \* the cancellation of the subscription
  RefundOf,    \* the payment that a refund gives back
  Units,       \* the amount of a payment, in units
  MaxFaults    \* bound of crashes and database failures

Payment == {First} \cup Renewal
Object == Payment \cup Refund \cup Cancellation
Process == Handler \cup {Reconciler}

ASSUME PaymentAssumption ==
  /\ Reconciler \notin Handler
  /\ Refund \cap Payment = {} /\ Cancellation \cap (Payment \cup Refund) = {}
  /\ RefundOf \in [Refund -> Payment]
  /\ Units \in Nat \ {0} /\ MaxFaults \in Nat

\* The event ids of one object: the provider's, and the digest of the poll.
Event == [via: {"webhook", "poll"}, of: Object]
Webhook(o) == [via |-> "webhook", of |-> o]
Polled(o) == [via |-> "poll", of |-> o]

VARIABLES
  happened,     \* what the provider has done
  owed,         \* webhooks that no answer of 2xx has ended
  inbox,        \* status of each event's row; "overdue": processing for five minutes
  granted,      \* buckets that a payment has been granted
  reversed,     \* units of a payment that were reversed
  subscription, \* status of the subscription's row
  checkout,     \* status of the checkout's row
  work,         \* the event each process is at, and its next transaction
  pass,         \* stage of the reconciliation
  todo,         \* events left in that stage
  faults        \* faults so far

vars == <<happened, owed, inbox, granted, reversed, subscription, checkout, work, pass, todo, faults>>

Status == {"none", "received", "processing", "overdue", "processed", "failed"}
Idle == [step |-> "idle"]
Storing == [step: {"store"}, event: Event, saw: {"none", "received", "failed"}]
Busy == Storing \cup [step: {"start", "restart", "apply", "fail"}, event: Event]

At(p, step) == work[p].step = step
Of(p) == work[p].event.of
GoTo(p, step) == work' = [work EXCEPT ![p] = [step |-> step, event |-> work[p].event]]
Stop(p) == work' = [work EXCEPT ![p] = Idle]

Fault == faults < MaxFaults /\ faults' = faults + 1

Init ==
  /\ happened = {} /\ owed = {}
  /\ inbox = [e \in Event |-> "none"]
  /\ granted = [p \in Payment |-> 0]
  /\ reversed = [p \in Payment |-> 0]
  /\ subscription = "none" /\ checkout = "created"
  /\ work = [p \in Process |-> Idle]
  /\ pass = "idle" /\ todo = {}
  /\ faults = 0

-----------------------------------------------------------------------------
(* The provider. *)

Possible(o) ==
  \/ o = First
  \/ o \in Renewal \cup Cancellation /\ First \in happened /\ Cancellation \cap happened = {}
  \/ o \in Refund /\ RefundOf[o] \in happened

Happen(o) ==
  /\ o \notin happened /\ Possible(o)
  /\ happened' = happened \cup {o}
  /\ owed' = owed \cup {o}
  /\ UNCHANGED <<inbox, granted, reversed, subscription, checkout, work, pass, todo, faults>>

-----------------------------------------------------------------------------
(* What an event does: _apply_payment_event. *)

\* Fault: the bucket is looked up by the event and not by the period.
GrantPerEvent(n) == n + 1

\* _grant_bucket returns the bucket that the period already has.
Grant(n) == IF n = 0 THEN 1 ELSE n

\* _cumulative_reversal raises 422 beyond the original amount.
WithinPayment(n) == n < Units

\* The rows an event is about are there; 422 otherwise.
Known(o) ==
  /\ o \in Renewal => subscription # "none"
  /\ o \in Refund => granted[RefundOf[o]] > 0

Applicable(o) == Known(o) /\ (o \in Refund => WithinPayment(reversed[RefundOf[o]]))

Effect(o) ==
  /\ granted' = IF o \in Payment THEN [granted EXCEPT ![o] = Grant(@)] ELSE granted
  /\ reversed' = IF o \in Refund THEN [reversed EXCEPT ![RefundOf[o]] = @ + 1] ELSE reversed
  /\ subscription' = IF o \in Payment THEN "active"
                     ELSE IF o \in Cancellation /\ subscription # "none" THEN "cancelled"
                     ELSE subscription
  /\ checkout' = IF o = First THEN "completed" ELSE checkout

-----------------------------------------------------------------------------
(* A webhook request: process_webhook. *)

Receive(h, o) ==
  LET saw == inbox[Webhook(o)]
  IN  /\ o \in owed /\ work[h] = Idle
      /\ IF saw \in {"processing", "overdue", "processed"}
         THEN owed' = owed \ {o} /\ UNCHANGED work
         ELSE /\ work' = [work EXCEPT ![h] = [step |-> "store", event |-> Webhook(o), saw |-> saw]]
              /\ UNCHANGED owed
      /\ UNCHANGED <<happened, inbox, granted, reversed, subscription, checkout, pass, todo, faults>>

\* A new row; or a failed one is received again.  Of two requests that found no
\* row, the unique constraint lets one insert it.
Store(h) ==
  LET e == work[h].event saw == work[h].saw
  IN  /\ At(h, "store")
      /\ IF saw = "none" /\ inbox[e] # "none"
         THEN Stop(h) /\ UNCHANGED inbox
         ELSE /\ inbox' = IF saw = "received" THEN inbox ELSE [inbox EXCEPT ![e] = "received"]
              /\ GoTo(h, "start")
      /\ UNCHANGED <<happened, owed, granted, reversed, subscription, checkout, pass, todo, faults>>

-----------------------------------------------------------------------------
(* Both kinds of process. *)

\* Fault: an event counts as processed as soon as it is taken.
TakenAsProcessed == "processed"

\* Status of an event that a process has taken.
Taken == "processing"

\* Status of an event that raised.
Failed == "failed"

Start(p) ==
  /\ At(p, "start")
  /\ inbox' = [inbox EXCEPT ![work[p].event] = Taken]
  /\ GoTo(p, "apply")
  /\ UNCHANGED <<happened, owed, granted, reversed, subscription, checkout, pass, todo, faults>>

\* Reconciliation takes a row that it read as processing: it writes the time
\* alone, and a status that has changed since stays.
Restart(p) ==
  /\ At(p, "restart")
  /\ inbox' = [inbox EXCEPT ![work[p].event] = IF @ = "overdue" THEN "processing" ELSE @]
  /\ GoTo(p, "apply")
  /\ UNCHANGED <<happened, owed, granted, reversed, subscription, checkout, pass, todo, faults>>

\* The effect and the status are one commit.
Apply(p) ==
  /\ At(p, "apply") /\ Applicable(Of(p))
  /\ Effect(Of(p))
  /\ inbox' = [inbox EXCEPT ![work[p].event] = "processed"]
  /\ owed' = IF p \in Handler THEN owed \ {Of(p)} ELSE owed
  /\ Stop(p)
  /\ UNCHANGED <<happened, pass, todo, faults>>

Refuse(p) ==
  /\ At(p, "apply")
  /\ \/ ~Applicable(Of(p)) /\ UNCHANGED faults
     \/ Fault
  /\ GoTo(p, "fail")
  /\ UNCHANGED <<happened, owed, inbox, granted, reversed, subscription, checkout, pass, todo>>

\* The row is failed, whatever another process has made of it.  The request
\* answers with the error; reconciliation gives up this subscription's poll.
Fail(p) ==
  /\ At(p, "fail")
  /\ inbox' = [inbox EXCEPT ![work[p].event] = Failed]
  /\ Stop(p)
  /\ todo' = IF p = Reconciler /\ pass = "poll" THEN {} ELSE todo
  /\ UNCHANGED <<happened, owed, granted, reversed, subscription, checkout, pass, faults>>

\* The process dies between two transactions.
Crash(p) ==
  /\ work[p] # Idle /\ Fault
  /\ Stop(p)
  /\ IF p = Reconciler THEN pass' = "idle" /\ todo' = {} ELSE UNCHANGED <<pass, todo>>
  /\ UNCHANGED <<happened, owed, inbox, granted, reversed, subscription, checkout>>

\* Five minutes have passed since the event was taken.
Overdue(e) ==
  /\ inbox[e] = "processing"
  /\ inbox' = [inbox EXCEPT ![e] = "overdue"]
  /\ UNCHANGED <<happened, owed, granted, reversed, subscription, checkout, work, pass, todo, faults>>

-----------------------------------------------------------------------------
(* The beat task: reconcile_payment_provider. *)

\* Fault: only what failed is retried.
RetriedFailed == {"failed"}

\* Statuses that reconciliation takes up again.
Retried == {"failed", "overdue"}

BeginPass ==
  /\ pass = "idle"
  /\ pass' = "retry"
  /\ todo' = {e \in Event : inbox[e] \in Retried}
  /\ UNCHANGED <<happened, owed, inbox, granted, reversed, subscription, checkout, work, faults>>

\* Checkouts are asked for while they are "pending", subscriptions while they
\* are active: then first for the cancellation, and for every renewal.
Answers ==
  {Polled(o) : o \in {First} \cap (IF checkout = "pending" THEN happened ELSE {})} \cup
  {Polled(o) : o \in (Renewal \cup Cancellation) \cap (IF subscription = "active" THEN happened ELSE {})}

AskProvider ==
  /\ pass = "retry" /\ todo = {} /\ work[Reconciler] = Idle
  /\ pass' = "poll"
  /\ todo' = Answers
  /\ UNCHANGED <<happened, owed, inbox, granted, reversed, subscription, checkout, work, faults>>

ReportsCancellation == {e \in todo : e.of \in Cancellation}

\* The next event, unless it has been processed: _process_reconciled_event.
TakeNext ==
  /\ work[Reconciler] = Idle
  /\ \E e \in todo :
       /\ pass = "poll" /\ ReportsCancellation # {} => e \in ReportsCancellation
       /\ todo' = todo \ {e}
       /\ work' = IF inbox[e] = "processed" THEN work
                  ELSE [work EXCEPT ![Reconciler] =
                          [step |-> IF inbox[e] \in {"processing", "overdue"} THEN "restart" ELSE "start", event |-> e]]
  /\ UNCHANGED <<happened, owed, inbox, granted, reversed, subscription, checkout, pass, faults>>

EndPass ==
  /\ pass = "poll" /\ todo = {} /\ work[Reconciler] = Idle
  /\ pass' = "idle"
  /\ UNCHANGED <<happened, owed, inbox, granted, reversed, subscription, checkout, work, todo, faults>>

Next ==
  \/ \E o \in Object : Happen(o)
  \/ \E h \in Handler : (\E o \in Object : Receive(h, o)) \/ Store(h)
  \/ \E p \in Process : Start(p) \/ Restart(p) \/ Apply(p) \/ Refuse(p) \/ Fail(p) \/ Crash(p)
  \/ \E e \in Event : Overdue(e)
  \/ BeginPass \/ AskProvider \/ TakeNext \/ EndPass

Spec == Init /\ [][Next]_vars

\* The provider repeats a webhook until it is acknowledged, a process that does
\* not crash goes on, time passes, and the beat starts pass after pass.
Fairness ==
  /\ \A o \in Object : SF_vars(\E h \in Handler : Receive(h, o))
  /\ \A h \in Handler : WF_vars(Store(h))
  /\ \A p \in Process : WF_vars(Start(p)) /\ WF_vars(Restart(p)) /\ WF_vars(Apply(p) \/ Refuse(p)) /\ WF_vars(Fail(p))
  /\ \A e \in Event : WF_vars(Overdue(e))
  /\ WF_vars(BeginPass) /\ WF_vars(AskProvider) /\ WF_vars(TakeNext) /\ WF_vars(EndPass)

FairSpec == Spec /\ Fairness

-----------------------------------------------------------------------------
(* Properties. *)

\* Every row and every process has its type.
TypeOK ==
  /\ happened \subseteq Object /\ owed \subseteq happened
  /\ inbox \in [Event -> Status]
  /\ granted \in [Payment -> Nat] /\ reversed \in [Payment -> Nat]
  /\ subscription \in {"none", "active", "cancelled"}
  /\ checkout \in {"created", "completed"}
  /\ work \in [Process -> {Idle} \cup Busy]
  /\ pass \in {"idle", "retry", "poll"} /\ todo \subseteq Event
  /\ faults \in 0 .. MaxFaults

\* FR-BILL-008: a payment is granted at most once, although its webhook is
\* repeated and the poll reports it under another event id.
GrantedOnce == \A p \in Payment : granted[p] <= 1

\* However often refunds are applied, no more is reversed than was paid.
NeverOverReversed == \A p \in Payment : reversed[p] <= Units

\* The trace an object's event leaves in the account.
TookEffect(o) ==
  /\ o \in Payment => granted[o] > 0
  /\ o \in Refund => reversed[RefundOf[o]] > 0

\* The inbox calls an event processed only when its effect is in the account,
\* whatever the process that wrote the row had read.
ProcessedTookEffect == \A e \in Event : inbox[e] = "processed" => TookEffect(e.of)

\* Each payment and each refund reaches the account, although its events
\* arrive late, twice or in the wrong order and processes die.
AllTakeEffect == \A o \in Payment \cup Refund : o \in happened ~> TookEffect(o)

\* "A duplicate webhook does not repeat the business effect": no more is
\* reversed than the provider gave back.
ReversedOnce ==
  \A p \in Payment : reversed[p] <= Cardinality({r \in Refund \cap happened : RefundOf[r] = p})

\* Reconciliation checks the cancellation of a subscription: what is cancelled
\* at the provider is in the end cancelled here, and stays so.
CancellationSticks == <>[](Cancellation \cap happened # {} => subscription = "cancelled")
=============================================================================
