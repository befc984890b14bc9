-------------------------- MODULE CreditAdjustment --------------------------
(***************************************************************************)
(* Administrators adjust the credits of a user (request_credit_adjustment, *)
(* approve_credit_adjustment, reject_credit_adjustment, _command and       *)
(* _apply_credit_adjustment of ProductBillingService).                     *)
(*                                                                         *)
(* Each call is one transaction: it locks the row of its actor, looks its  *)
(* key up among the commands, for a decision locks the adjustment, and     *)
(* commits the effect with the completed command, or nothing.  An          *)
(* adjustment of the threshold or more waits for another administrator.    *)
(***************************************************************************)
EXTENDS Integers, Sequences, FiniteSets

CONSTANTS
  Deciders,         \* the administrators
  Calls,            \* calls in progress at once
  Keys,             \* idempotency keys
  Amounts,          \* the amounts asked for
  Threshold,        \* from this amount on two administrators are needed
  MaxAdjustments,   \* bound: adjustments
  MaxBalance        \* bound: the credits the user has available

ASSUME AdjustmentAssumption ==
  /\ Amounts \subseteq Int \ {0} /\ Threshold \in Nat
  /\ MaxAdjustments \in Nat /\ MaxBalance \in Nat

VARIABLES
  adjustment,   \* the rows of CreditAdjustmentApproval, in the order of creation
  command,      \* the completed rows of BillingCommand
  posted,       \* the adjustments whose ledger entry exists
  balance,      \* the available credits of the user
  call          \* what each call has locked and read

adjustmentVars == <<adjustment, command, posted, balance, call>>

Decisions == {"approve", "reject"}
NotCalled == [at |-> "none", actor |-> "none", type |-> "none", id |-> 0, key |-> "none", amount |-> 0]

AdjustmentTypeOK ==
  /\ \A i \in DOMAIN adjustment :
       adjustment[i].status \in {"pending", "executed", "rejected"}
  /\ command \subseteq [actor : Deciders, type : Decisions \union {"request"},
                        id : 0 .. MaxAdjustments, key : Keys]
  /\ posted \subseteq DOMAIN adjustment
  /\ balance \in 0 .. MaxBalance
  /\ \A c \in Calls : call[c].at \in {"none", "started", "found"}

AdjustmentInit ==
  /\ adjustment = <<>> /\ command = {} /\ posted = {}
  /\ balance \in 0 .. MaxBalance
  /\ call = [c \in Calls |-> NotCalled]
-----------------------------------------------------------------------------
\* SELECT ... FOR UPDATE of the row of the actor, held to the end of the call.
ActorFree(a) == \A c \in Calls : call[c].at # "none" => call[c].actor # a

Known(a, type, id, k) == [actor |-> a, type |-> type, id |-> id, key |-> k] \in command

\* The command is inserted; one that is completed already answers from its row,
\* and one with another payload is refused: neither writes anything.
Start(c, a, type, id, k, amount) ==
  /\ call[c].at = "none"
  /\ ActorFree(a)
  /\ ~Known(a, type, id, k)
  /\ call' = [call EXCEPT ![c] =
       [at |-> "started", actor |-> a, type |-> type, id |-> id, key |-> k, amount |-> amount]]
  /\ UNCHANGED <<adjustment, command, posted, balance>>

StartRequest(c) ==
  \E a \in Deciders, k \in Keys, n \in Amounts : Start(c, a, "request", 0, k, n)

StartDecision(c) ==
  \E a \in Deciders, k \in Keys, type \in Decisions, i \in DOMAIN adjustment :
    Start(c, a, type, i, k, 0)

\* Fault: the row is read without FOR UPDATE.
AlwaysFree(i) == TRUE

RowFree(i) == \A c \in Calls : call[c].at = "found" => call[c].id # i

\* Pending, and requested by somebody else.
Decidable(a, i) == adjustment[i].status = "pending" /\ adjustment[i].by # a

Ended(c) == call' = [call EXCEPT ![c] = NotCalled]

Find(c) ==
  /\ call[c].at = "started" /\ call[c].type \in Decisions
  /\ RowFree(call[c].id)
  /\ IF Decidable(call[c].actor, call[c].id)
       THEN call' = [call EXCEPT ![c].at = "found"]
       ELSE Ended(c)
  /\ UNCHANGED <<adjustment, command, posted, balance>>

Complete(c) ==
  LET r == call[c] IN
  command' = command \union {[actor |-> r.actor, type |-> r.type, id |-> r.id, key |-> r.key]}

\* _apply_credit_adjustment: an entry with the key of the adjustment is not made
\* twice; credits that are not there cannot be taken.
Applicable(amount) == balance + amount >= 0 /\ balance + amount <= MaxBalance

Apply(i, amount) ==
  /\ posted' = posted \union {i}
  /\ balance' = IF i \in posted THEN balance ELSE balance + amount

Magnitude(n) == IF n < 0 THEN -n ELSE n

Request(c) ==
  LET r == call[c]
      i == Len(adjustment) + 1
      dual == Magnitude(r.amount) >= Threshold
      row == [by |-> r.actor, key |-> r.key, amount |-> r.amount, dual |-> dual,
              status |-> IF dual THEN "pending" ELSE "executed", decider |-> "none"]
  IN
  /\ r.at = "started" /\ r.type = "request"
  /\ i <= MaxAdjustments
  /\ dual \/ Applicable(r.amount)
  /\ adjustment' = Append(adjustment, row)
  /\ IF dual THEN UNCHANGED <<posted, balance>> ELSE Apply(i, r.amount)
  /\ Complete(c) /\ Ended(c)

Approve(c) ==
  LET r == call[c] IN
  /\ r.at = "found" /\ r.type = "approve"
  /\ Applicable(adjustment[r.id].amount)
  /\ Apply(r.id, adjustment[r.id].amount)
  /\ adjustment' = [adjustment EXCEPT ![r.id].status = "executed", ![r.id].decider = r.actor]
  /\ Complete(c) /\ Ended(c)

Reject(c) ==
  LET r == call[c] IN
  /\ r.at = "found" /\ r.type = "reject"
  /\ adjustment' = [adjustment EXCEPT ![r.id].status = "rejected", ![r.id].decider = r.actor]
  /\ Complete(c) /\ Ended(c)
  /\ UNCHANGED <<posted, balance>>

\* An error, or a lost connection: rolled back, and the key is unused again.
RollBack(c) ==
  /\ call[c].at # "none"
  /\ Ended(c)
  /\ UNCHANGED <<adjustment, command, posted, balance>>

\* The user spends a credit.
Spend ==
  /\ balance > 0
  /\ balance' = balance - 1
  /\ UNCHANGED <<adjustment, command, posted, call>>

AdjustmentNext ==
  \/ \E c \in Calls : \/ StartRequest(c) \/ StartDecision(c) \/ Find(c)
                      \/ Request(c) \/ Approve(c) \/ Reject(c) \/ RollBack(c)
  \/ Spend
-----------------------------------------------------------------------------
(* Properties.                                                             *)

DecidedBy(i, type) == {c \in command : c.id = i /\ c.type = type}

\* FR-ADMIN-005 (large adjustments need an approval when the policy is on), under
\* concurrent and repeated calls: credits are posted for exactly the executed
\* adjustments; from the threshold on, for those that one other administrator has
\* approved and nobody has rejected; and a request makes one adjustment.
EffectsAuthorised ==
  /\ posted = {i \in DOMAIN adjustment : adjustment[i].status = "executed"}
  /\ \A i \in DOMAIN adjustment :
       LET row == adjustment[i]
           decision == CASE row.status = "executed" /\ row.dual -> {"approve"}
                         [] row.status = "rejected" -> {"reject"}
                         [] OTHER -> {}
       IN
       /\ \A type \in Decisions :
            Cardinality(DecidedBy(i, type)) = IF type \in decision THEN 1 ELSE 0
       /\ row.status # "pending" /\ row.dual => row.decider \in Deciders \ {row.by}
  /\ \A i, k \in DOMAIN adjustment :
       adjustment[i].by = adjustment[k].by /\ adjustment[i].key = adjustment[k].key => i = k
=============================================================================
