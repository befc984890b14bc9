------------------------- MODULE PaymentInboxProofs -------------------------
(***************************************************************************)
(* What TLAPS proves about PaymentInbox for any number of concurrent       *)
(* webhook requests, renewals, refunds and faults.                         *)
(***************************************************************************)
EXTENDS PaymentInbox, TLAPS

\* Every process that is not idle is at an event.
LEMMA BusyEvent ==
  ASSUME TypeOK, NEW p \in Process, work[p] # Idle
  PROVE  work[p].event \in Event /\ Of(p) \in Object
<1>1. work[p] \in Busy
  BY DEF TypeOK
<1>2. work[p].event \in Event
  BY <1>1 DEF Busy, Storing
<1>. QED BY <1>2 DEF Event, Of

\* A process at a step other than "idle" is not idle.
LEMMA NotIdle ==
  ASSUME NEW p \in Process, NEW step \in {"store", "start", "restart", "apply", "fail"}, At(p, step)
  PROVE  work[p] # Idle
BY DEF At, Idle

\* The next transaction of a process is one its type allows.
LEMMA WorkTyped ==
  ASSUME TypeOK, NEW p \in Process, NEW w \in {Idle} \cup Busy, work' = [work EXCEPT ![p] = w]
  PROVE  work' \in [Process -> {Idle} \cup Busy]
BY DEF TypeOK

\* A process that goes on stays typed.
LEMMA GoesOn ==
  ASSUME TypeOK, NEW p \in Process, NEW step \in {"start", "apply", "fail"},
         work[p] # Idle, GoTo(p, step)
  PROVE  work' \in [Process -> {Idle} \cup Busy]
<1>1. work[p].event \in Event
  BY BusyEvent
<1>2. [step |-> step, event |-> work[p].event] \in {Idle} \cup Busy
  BY <1>1 DEF Busy
<1>. QED BY <1>2, WorkTyped DEF GoTo

\* A process that stops stays typed.
LEMMA Stops ==
  ASSUME TypeOK, NEW p \in Process, Stop(p)
  PROVE  work' \in [Process -> {Idle} \cup Busy]
BY WorkTyped DEF Stop

\* An event does to the counters what its object says, and nothing else.
LEMMA EffectOnCounters ==
  ASSUME TypeOK, NEW o \in Object, Applicable(o), Effect(o)
  PROVE  /\ granted' \in [Payment -> Nat] /\ reversed' \in [Payment -> Nat]
         /\ \A p \in Payment : granted'[p] >= granted[p] /\ reversed'[p] >= reversed[p]
         /\ GrantedOnce => GrantedOnce'
         /\ NeverOverReversed => NeverOverReversed'
         /\ o \in Payment => granted'[o] > 0
         /\ o \in Refund => reversed'[RefundOf[o]] > 0
<1>1. granted \in [Payment -> Nat] /\ reversed \in [Payment -> Nat] /\ Units \in Nat
  BY PaymentAssumption DEF TypeOK
<1>2. CASE o \in Payment
  <2>1. o \notin Refund
    BY <1>2, PaymentAssumption
  <2>2. granted' = [granted EXCEPT ![o] = IF granted[o] = 0 THEN 1 ELSE granted[o]] /\ reversed' = reversed
    BY <1>2, <2>1 DEF Effect, Grant
  <2>. QED BY <1>1, <1>2, <2>1, <2>2 DEF GrantedOnce, NeverOverReversed
<1>3. CASE o \in Refund
  <2>1. o \notin Payment /\ RefundOf[o] \in Payment
    BY <1>3, PaymentAssumption
  <2>2. granted' = granted /\ reversed' = [reversed EXCEPT ![RefundOf[o]] = reversed[RefundOf[o]] + 1]
    BY <1>3, <2>1 DEF Effect
  <2>3. reversed[RefundOf[o]] < Units
    BY <1>3 DEF Applicable, WithinPayment
  <2>. QED BY <1>1, <1>3, <2>1, <2>2, <2>3 DEF GrantedOnce, NeverOverReversed
<1>4. CASE o \notin Payment \cup Refund
  BY <1>1, <1>4 DEF Effect, GrantedOnce, NeverOverReversed
<1>. QED BY <1>2, <1>3, <1>4

\* The inductive invariant: the four safety properties together.  That an
\* event is called processed only with its effect needs no more, because a row
\* is set to "processed" in the commit of the effect, and counters only grow.
IInv == TypeOK /\ GrantedOnce /\ NeverOverReversed /\ ProcessedTookEffect

\* Rows that become or stay processed keep their effect when the counters and
\* what is processed are as before.
LEMMA SameAccount ==
  ASSUME IInv, TypeOK', UNCHANGED <<granted, reversed>>,
         \A e \in Event : inbox'[e] = "processed" => inbox[e] = "processed"
  PROVE  IInv'
BY DEF IInv, GrantedOnce, NeverOverReversed, ProcessedTookEffect, TookEffect

\* The first state has nothing in the inbox and nothing in the account.
LEMMA InitIInv == Init => IInv
<1>. SUFFICES ASSUME Init PROVE IInv
  OBVIOUS
<1>1. TypeOK
  BY PaymentAssumption DEF Init, TypeOK, Status
<1>. QED BY <1>1, PaymentAssumption DEF Init, IInv, GrantedOnce, NeverOverReversed, ProcessedTookEffect

\* Every step keeps the inductive invariant.
LEMMA StepIInv == IInv /\ [Next]_vars => IInv'
<1>. SUFFICES ASSUME IInv, [Next]_vars PROVE IInv'
  OBVIOUS
<1>. USE PaymentAssumption
<1>t. TypeOK
  BY DEF IInv
<1>p. Handler \subseteq Process /\ Reconciler \in Process
  BY DEF Process
<1>1. ASSUME NEW o \in Object, Happen(o) PROVE IInv'
  <2>1. TypeOK'
    BY <1>t, <1>1 DEF TypeOK, Happen
  <2>. QED BY <1>1, <2>1, SameAccount DEF Happen
<1>2. ASSUME NEW h \in Handler, NEW o \in Object, Receive(h, o) PROVE IInv'
  <2>1. Webhook(o) \in Event
    BY DEF Webhook, Event
  <2>2. inbox[Webhook(o)] \in Status
    BY <1>t, <2>1 DEF TypeOK
  <2>3. CASE inbox[Webhook(o)] \in {"processing", "overdue", "processed"}
    <3>1. TypeOK'
      BY <1>t, <1>2, <2>3 DEF TypeOK, Receive
    <3>. QED BY <1>2, <3>1, SameAccount DEF Receive
  <2>4. CASE inbox[Webhook(o)] \notin {"processing", "overdue", "processed"}
    <3>1. [step |-> "store", event |-> Webhook(o), saw |-> inbox[Webhook(o)]] \in {Idle} \cup Busy
      BY <2>1, <2>2, <2>4 DEF Busy, Storing, Status
    <3>2. work' \in [Process -> {Idle} \cup Busy]
      BY <1>t, <1>p, <1>2, <2>4, <3>1, WorkTyped DEF Receive
    <3>3. TypeOK'
      BY <1>t, <1>2, <2>4, <3>2 DEF TypeOK, Receive
    <3>. QED BY <1>2, <3>3, SameAccount DEF Receive
  <2>. QED BY <2>3, <2>4
<1>3. ASSUME NEW h \in Handler, Store(h) PROVE IInv'
  <2>1. h \in Process /\ work[h] # Idle /\ work[h].event \in Event
    BY <1>t, <1>p, <1>3, NotIdle, BusyEvent DEF Store
  <2>2. work' \in [Process -> {Idle} \cup Busy]
    BY <1>t, <1>3, <2>1, GoesOn, Stops DEF Store
  <2>3. inbox' = inbox \/ inbox' = [inbox EXCEPT ![work[h].event] = "received"]
    BY <1>3 DEF Store
  <2>4. TypeOK'
    BY <1>t, <1>3, <2>1, <2>2, <2>3 DEF TypeOK, Store, Status
  <2>5. \A e \in Event : inbox'[e] = "processed" => inbox[e] = "processed"
    BY <1>t, <2>1, <2>3 DEF TypeOK
  <2>. QED BY <1>3, <2>4, <2>5, SameAccount DEF Store
<1>4. ASSUME NEW p \in Process, Start(p) PROVE IInv'
  <2>1. work[p] # Idle /\ work[p].event \in Event
    BY <1>t, <1>4, NotIdle, BusyEvent DEF Start
  <2>2. work' \in [Process -> {Idle} \cup Busy]
    BY <1>t, <1>4, <2>1, GoesOn DEF Start
  <2>3. TypeOK'
    BY <1>t, <1>4, <2>1, <2>2 DEF TypeOK, Start, Taken, Status
  <2>4. \A e \in Event : inbox'[e] = "processed" => inbox[e] = "processed"
    BY <1>t, <1>4, <2>1 DEF TypeOK, Start, Taken
  <2>. QED BY <1>4, <2>3, <2>4, SameAccount DEF Start
<1>5. ASSUME NEW p \in Process, Restart(p) PROVE IInv'
  <2>1. work[p] # Idle /\ work[p].event \in Event
    BY <1>t, <1>5, NotIdle, BusyEvent DEF Restart
  <2>2. work' \in [Process -> {Idle} \cup Busy]
    BY <1>t, <1>5, <2>1, GoesOn DEF Restart
  <2>3. TypeOK'
    BY <1>t, <1>5, <2>1, <2>2 DEF TypeOK, Restart, Status
  <2>4. \A e \in Event : inbox'[e] = "processed" => inbox[e] = "processed"
    BY <1>t, <1>5, <2>1 DEF TypeOK, Restart
  <2>. QED BY <1>5, <2>3, <2>4, SameAccount DEF Restart
<1>6. ASSUME NEW p \in Process, Apply(p) PROVE IInv'
  <2>1. work[p] # Idle /\ work[p].event \in Event /\ Of(p) \in Object
    BY <1>t, <1>6, NotIdle, BusyEvent DEF Apply
  <2>2. work' \in [Process -> {Idle} \cup Busy]
    BY <1>t, <1>6, Stops DEF Apply
  <2>. DEFINE o == work[p].event.of
  <2>3. /\ granted' \in [Payment -> Nat] /\ reversed' \in [Payment -> Nat]
        /\ \A q \in Payment : granted'[q] >= granted[q] /\ reversed'[q] >= reversed[q]
        /\ GrantedOnce' /\ NeverOverReversed'
        /\ o \in Payment => granted'[o] > 0
        /\ o \in Refund => reversed'[RefundOf[o]] > 0
    BY <1>t, <1>6, <2>1, EffectOnCounters DEF Apply, IInv, Of
  <2>4. subscription' \in {"none", "active", "cancelled"} /\ checkout' \in {"created", "completed"}
    BY <1>t, <1>6 DEF TypeOK, Apply, Effect
  <2>5. TypeOK'
    BY <1>t, <1>6, <2>1, <2>2, <2>3, <2>4 DEF TypeOK, Apply, Status
  <2>6. ASSUME NEW e \in Event, inbox'[e] = "processed" PROVE TookEffect(e.of)'
    <3>1. CASE e = work[p].event
      BY <2>3, <3>1 DEF TookEffect
    <3>2. CASE e # work[p].event
      <4>1. inbox[e] = "processed"
        BY <1>t, <1>6, <2>1, <2>6, <3>2 DEF TypeOK, Apply
      <4>2. TookEffect(e.of) /\ e.of \in Object
        BY <4>1 DEF IInv, ProcessedTookEffect, Event
      <4>3. \A q \in Payment : granted[q] \in Nat /\ granted'[q] \in Nat /\ reversed[q] \in Nat /\ reversed'[q] \in Nat
        BY <1>t, <2>3 DEF TypeOK
      <4>4. e.of \in Payment => granted'[e.of] > 0
        BY <2>3, <4>2, <4>3 DEF TookEffect
      <4>5. ASSUME e.of \in Refund PROVE reversed'[RefundOf[e.of]] > 0
        <5>1. RefundOf[e.of] \in Payment /\ reversed[RefundOf[e.of]] > 0
          BY <4>2, <4>5 DEF TookEffect
        <5>. QED BY <2>3, <4>3, <5>1
      <4>. QED BY <4>4, <4>5 DEF TookEffect
    <3>. QED BY <3>1, <3>2
  <2>. QED BY <2>3, <2>5, <2>6 DEF IInv, ProcessedTookEffect
<1>7. ASSUME NEW p \in Process, Refuse(p) PROVE IInv'
  <2>1. work[p] # Idle
    BY <1>7, NotIdle DEF Refuse
  <2>2. work' \in [Process -> {Idle} \cup Busy]
    BY <1>t, <1>7, <2>1, GoesOn DEF Refuse
  <2>3. faults' \in 0 .. MaxFaults
    BY <1>t, <1>7 DEF TypeOK, Refuse, Fault
  <2>4. TypeOK'
    BY <1>t, <1>7, <2>2, <2>3 DEF TypeOK, Refuse
  <2>. QED BY <1>7, <2>4, SameAccount DEF Refuse
<1>8. ASSUME NEW p \in Process, Fail(p) PROVE IInv'
  <2>1. work[p] # Idle /\ work[p].event \in Event
    BY <1>t, <1>8, NotIdle, BusyEvent DEF Fail
  <2>2. work' \in [Process -> {Idle} \cup Busy]
    BY <1>t, <1>8, Stops DEF Fail
  <2>3. TypeOK'
    BY <1>t, <1>8, <2>1, <2>2 DEF TypeOK, Fail, Failed, Status
  <2>4. \A e \in Event : inbox'[e] = "processed" => inbox[e] = "processed"
    BY <1>t, <1>8, <2>1 DEF TypeOK, Fail, Failed
  <2>. QED BY <1>8, <2>3, <2>4, SameAccount DEF Fail
<1>9. ASSUME NEW p \in Process, Crash(p) PROVE IInv'
  <2>1. work' \in [Process -> {Idle} \cup Busy]
    BY <1>t, <1>9, Stops DEF Crash
  <2>2. TypeOK'
    BY <1>t, <1>9, <2>1 DEF TypeOK, Crash, Fault
  <2>. QED BY <1>9, <2>2, SameAccount DEF Crash
<1>10. ASSUME NEW e \in Event, Overdue(e) PROVE IInv'
  <2>1. TypeOK'
    BY <1>t, <1>10 DEF TypeOK, Overdue, Status
  <2>2. \A f \in Event : inbox'[f] = "processed" => inbox[f] = "processed"
    BY <1>t, <1>10 DEF TypeOK, Overdue
  <2>. QED BY <1>10, <2>1, <2>2, SameAccount DEF Overdue
<1>11. ASSUME BeginPass PROVE IInv'
  <2>1. TypeOK'
    BY <1>t, <1>11 DEF TypeOK, BeginPass
  <2>. QED BY <1>11, <2>1, SameAccount DEF BeginPass
<1>12. ASSUME AskProvider PROVE IInv'
  <2>1. Answers \subseteq Event
    BY DEF Answers, Polled, Event, Object, Payment
  <2>2. TypeOK'
    BY <1>t, <1>12, <2>1 DEF TypeOK, AskProvider
  <2>. QED BY <1>12, <2>2, SameAccount DEF AskProvider
<1>13. ASSUME TakeNext PROVE IInv'
  <2>1. PICK e \in todo :
          /\ todo' = todo \ {e}
          /\ work' = IF inbox[e] = "processed" THEN work
                     ELSE [work EXCEPT ![Reconciler] =
                             [step |-> IF inbox[e] \in {"processing", "overdue"} THEN "restart" ELSE "start", event |-> e]]
    BY <1>13 DEF TakeNext
  <2>2. e \in Event
    BY <1>t DEF TypeOK
  <2>3. \A step \in {"start", "restart"} : [step |-> step, event |-> e] \in {Idle} \cup Busy
    BY <2>2 DEF Busy
  <2>4. work' \in [Process -> {Idle} \cup Busy]
    BY <1>t, <1>p, <2>1, <2>3, WorkTyped DEF TypeOK
  <2>5. TypeOK'
    BY <1>t, <1>13, <2>1, <2>4 DEF TypeOK, TakeNext
  <2>. QED BY <1>13, <2>5, SameAccount DEF TakeNext
<1>14. ASSUME EndPass PROVE IInv'
  <2>1. TypeOK'
    BY <1>t, <1>14 DEF TypeOK, EndPass
  <2>. QED BY <1>14, <2>1, SameAccount DEF EndPass
<1>15. CASE UNCHANGED vars
  <2>1. TypeOK'
    BY <1>t, <1>15 DEF TypeOK, vars
  <2>. QED BY <1>15, <2>1, SameAccount DEF vars
<1>. QED BY <1>1, <1>2, <1>3, <1>4, <1>5, <1>6, <1>7, <1>8, <1>9, <1>10, <1>11, <1>12, <1>13, <1>14, <1>15 DEF Next

\* The inductive invariant holds in every reachable state.
LEMMA AlwaysIInv == Spec => []IInv
BY InitIInv, StepIInv, PTL DEF Spec

\* Every row and every process keeps its type.
THEOREM TypeCorrect == Spec => []TypeOK
<1>1. IInv => TypeOK
  BY DEF IInv
<1>. QED BY <1>1, AlwaysIInv, PTL

\* A payment is granted at most once, although its webhook is repeated, taken
\* up by reconciliation at the same time and reported by the poll as well.
THEOREM GrantsAreIdempotent == Spec => []GrantedOnce
<1>1. IInv => GrantedOnce
  BY DEF IInv
<1>. QED BY <1>1, AlwaysIInv, PTL

\* However often refunds are applied, no more is reversed than was paid.
THEOREM ReversedWithinPayment == Spec => []NeverOverReversed
<1>1. IInv => NeverOverReversed
  BY DEF IInv
<1>. QED BY <1>1, AlwaysIInv, PTL

\* An event is called processed only when its effect is in the account.
THEOREM ProcessedMeansApplied == Spec => []ProcessedTookEffect
<1>1. IInv => ProcessedTookEffect
  BY DEF IInv
<1>. QED BY <1>1, AlwaysIInv, PTL
=============================================================================
