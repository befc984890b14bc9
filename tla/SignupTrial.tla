----------------------------- MODULE SignupTrial -----------------------------
(***************************************************************************)
(* The credit account of a user and the trial credit that comes with a     *)
(* verified address (ensure_signup_trial, _account and publish_trial_policy *)
(* of ProductBillingService).                                              *)
(*                                                                         *)
(* Every operation on credit begins with the account, which the first of   *)
(* them creates; those that the user starts give the trial on the way.     *)
(* They run at the same time in transactions that take turns at the row of *)
(* the account, or, before it exists, at the row of the user.              *)
(***************************************************************************)
EXTENDS Naturals, FiniteSets

CONSTANTS
  Transactions,   \* of one user: requests of the user, payments, adjustments
  MaxPolicies,    \* bound: policies published
  MaxTurns,       \* bound: transactions begun
  NoTransaction

ASSUME TrialAssumption ==
  /\ MaxPolicies \in Nat \ {0} /\ MaxTurns \in Nat
  /\ Transactions \intersect {"absent", "free", NoTransaction} = {}

VARIABLES
  policies,     \* SignupTrialPolicy, by number: published for now or for later
  current,      \* the policy with the latest effective_from that is not in the future
  creditRow,    \* CreditAccount: absent, free, or the transaction that holds it
  userLock,     \* the transaction that holds the row of the user
  grants,       \* SignupTrialGrant: the policies that have been granted
  buckets,      \* the trial buckets, named by the policy of their source_reference
  turn,         \* what each transaction is doing
  turns,        \* transactions begun so far
  collided      \* history: a unique index has refused a row

trialVars == <<policies, current, creditRow, userLock, grants, buckets, turn, turns, collided>>

NoTurn == [step |-> "rest", trial |-> FALSE, policy |-> 0, made |-> FALSE, given |-> FALSE]
TurnSteps == {"rest", "asked", "looking", "unseen", "user", "holding", "granted"}

TrialTypeOK ==
  /\ policies \in [1 .. MaxPolicies -> {"none", "on", "off"}]
  /\ current \in 0 .. MaxPolicies
  /\ creditRow \in {"absent", "free"} \union Transactions
  /\ userLock \in Transactions \union {NoTransaction}
  /\ grants \subseteq 1 .. MaxPolicies /\ buckets \subseteq 1 .. MaxPolicies
  /\ \A t \in Transactions : turn[t].step \in TurnSteps
  /\ turns \in 0 .. MaxTurns /\ collided \in BOOLEAN

\* The migrations have published the first policy.
TrialInit ==
  /\ policies = [p \in 1 .. MaxPolicies |-> IF p = 1 THEN "on" ELSE "none"]
  /\ current = 1
  /\ creditRow = "absent" /\ userLock = NoTransaction
  /\ grants = {} /\ buckets = {}
  /\ turn = [t \in Transactions |-> NoTurn] /\ turns = 0
  /\ collided = FALSE

Step(t, step) == turn' = [turn EXCEPT ![t].step = step]
rows == <<creditRow, userLock, grants, buckets>>
-----------------------------------------------------------------------------
\* publish_trial_policy appends; what was published stays.
PublishPolicy(p, state) ==
  /\ policies[p] = "none" /\ \A q \in 1 .. p - 1 : policies[q] # "none"
  /\ policies' = [policies EXCEPT ![p] = state]
  /\ UNCHANGED <<current, rows, turn, turns, collided>>

\* The time at which a policy takes effect comes.
PolicyBegins(p) ==
  /\ policies[p] # "none" /\ p > current
  /\ current' = p
  /\ UNCHANGED <<policies, rows, turn, turns, collided>>

\* A payment or an adjustment goes to the account at once; a request of the user reads
\* the policy first, and looks whether it has been granted, without a lock.
BeginTurn(t) ==
  /\ turn[t] = NoTurn /\ turns < MaxTurns
  /\ turns' = turns + 1
  /\ turn' \in {[turn EXCEPT ![t].step = "looking"],
                [turn EXCEPT ![t].step = "asked", ![t].policy = current]}
  /\ UNCHANGED <<policies, current, rows, collided>>

\* Every policy has the policy_key of the column's default, SIGNUP_VERIFIED_EMAIL.
Granted == grants # {}

LookForGrant(t) ==
  /\ turn[t].step = "asked"
  /\ turn' = [turn EXCEPT ![t].step = "looking",
                          ![t].trial = policies[turn[t].policy] = "on" /\ ~Granted]
  /\ UNCHANGED <<policies, current, rows, turns, collided>>

\* _account: the row is there, is locked, and is waited for; or it is not.
FindAccount(t) ==
  /\ turn[t].step = "looking"
  /\ \/ /\ creditRow = "free"
        /\ creditRow' = t
        /\ Step(t, "holding")
     \/ /\ creditRow = "absent"
        /\ Step(t, "unseen")
        /\ UNCHANGED creditRow
  /\ UNCHANGED <<policies, current, userLock, grants, buckets, turns, collided>>

\* Fault: the row is inserted without the lock of the user.
AlwaysMine(t) == TRUE

UserFree(t) == userLock = NoTransaction

\* The row of the user is locked ...
LockUser(t) ==
  /\ turn[t].step = "unseen" /\ UserFree(t)
  /\ userLock' = t
  /\ Step(t, "user")
  /\ UNCHANGED <<policies, current, creditRow, grants, buckets, turns, collided>>

\* ... and the account is looked for again, and created if it is still not there.  The
\* others see the row when it is committed.
FindOrCreate(t) ==
  /\ turn[t].step = "user"
  /\ \/ /\ creditRow = "free" /\ creditRow' = t
        /\ Step(t, "holding")
     \/ /\ creditRow = "absent"
        /\ turn' = [turn EXCEPT ![t].step = "holding", ![t].made = TRUE]
        /\ UNCHANGED creditRow
  /\ UNCHANGED <<policies, current, userLock, grants, buckets, turns, collided>>

\* The second look, under the lock of the account, and the bucket with its grant.
GiveTrial(t) ==
  /\ turn[t].step = "holding"
  /\ turn' = [turn EXCEPT ![t].step = "granted", ![t].given = turn[t].trial /\ ~Granted]
  /\ UNCHANGED <<policies, current, rows, turns, collided>>

Leaving(t) ==
  /\ userLock' = IF userLock = t THEN NoTransaction ELSE userLock
  /\ turn' = [turn EXCEPT ![t] = NoTurn]

\* A second row with the same unique columns is refused, and undoes the transaction.
Collides(t) ==
  \/ turn[t].made /\ creditRow # "absent"
  \/ turn[t].given /\ Granted

EndTurn(t) ==
  /\ turn[t].step = "granted"
  /\ IF Collides(t)
       THEN /\ collided' = TRUE
            /\ creditRow' = IF creditRow = t THEN "free" ELSE creditRow
            /\ UNCHANGED <<grants, buckets>>
       ELSE /\ creditRow' = "free"
            /\ grants' = IF turn[t].given THEN grants \union {turn[t].policy} ELSE grants
            /\ buckets' = IF turn[t].given THEN buckets \union {turn[t].policy} ELSE buckets
            /\ UNCHANGED collided
  /\ Leaving(t)
  /\ UNCHANGED <<policies, current, turns>>

\* Credit is missing, the request fails, or the process dies.
AbandonTurn(t) ==
  /\ turn[t].step # "rest"
  /\ creditRow' = IF creditRow = t THEN "free" ELSE creditRow
  /\ Leaving(t)
  /\ UNCHANGED <<policies, current, grants, buckets, turns, collided>>

TrialNext ==
  \/ \E t \in Transactions :
       \/ BeginTurn(t) \/ LookForGrant(t) \/ FindAccount(t) \/ LockUser(t) \/ FindOrCreate(t)
       \/ GiveTrial(t) \/ EndTurn(t) \/ AbandonTurn(t)
  \/ \E p \in 1 .. MaxPolicies :
       \/ PolicyBegins(p)
       \/ \E state \in {"on", "off"} : PublishPolicy(p, state)
-----------------------------------------------------------------------------
(* Properties.                                                             *)

\* FR-BILL-009: a user gets the trial once, though a new policy begins between two
\* requests or in the middle of one, and requests and payments that meet at a new user
\* neither make two accounts nor fail on each other's rows.
TrialOnce ==
  /\ Cardinality(grants) <= 1
  /\ buckets = grants
  /\ ~collided
=============================================================================
