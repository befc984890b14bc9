------------------------------ MODULE Checkout ------------------------------
(***************************************************************************)
(* Checkout and portal sessions of one candidate (create_checkout and      *)
(* create_portal of ProductBillingService, PaddlePaymentAdapter).          *)
(*                                                                         *)
(* A request reads the checkout its key already made, inserts a new one,   *)
(* which holds the unique (user, key) until its transaction ends, has the  *)
(* provider create a transaction, and commits before it answers.  The      *)
(* provider may have created a transaction whose answer is lost.  A        *)
(* payment is found again by the provider's id of its transaction.  Portal *)
(* requests run one after the other: each locks the row of the user.       *)
(***************************************************************************)
EXTENDS Naturals, FiniteSets

CONSTANTS
  CheckoutRequests,         \* calls in flight at once
  CheckoutKeys,     \* idempotency keys
  Offers,           \* an offer of each catalog version, in the order they come in force
  MaxTransactions,  \* bound: transactions the provider creates
  MaxPortals,       \* bound: portal sessions the provider creates
  NoSession

ASSUME CheckoutAssumption ==
  /\ Offers \subseteq Nat /\ IsFiniteSet(Offers) /\ 1 \in Offers
  /\ MaxTransactions \in Nat /\ MaxPortals \in Nat
  /\ NoSession \notin Nat \union CheckoutRequests
  /\ NoSession \notin [offer : Offers, transaction : Nat]

VARIABLES
  inForce,      \* the offer of the active catalog
  asking,      \* what each call is doing
  holder,       \* the call whose uncommitted insert holds each key
  checkout,     \* BillingCheckoutSession by key
  transactions, \* the provider's transactions, each for an offer
  pages,        \* the payment pages shown: the key and the transaction
  paid,         \* transactions paid for
  credited,     \* transactions whose payment was processed
  portal,       \* the portal session each key got
  portals       \* portal sessions created so far

checkoutVars ==
  <<inForce, asking, holder, checkout, transactions, pages, paid, credited, portal, portals>>

Quiet == [at |-> "idle", key |-> NoSession, offer |-> NoSession, session |-> NoSession]

CheckoutTypeOK ==
  /\ inForce \in Offers
  /\ \A r \in CheckoutRequests :
       /\ asking[r].at \in {"idle", "insert", "provider", "commit", "respond", "portal"}
       /\ asking[r].key \in CheckoutKeys \union {NoSession}
       /\ asking[r].offer \in Offers \union {NoSession}
       /\ asking[r].session \in Nat \union {NoSession}
  /\ holder \in [CheckoutKeys -> CheckoutRequests \union {NoSession}]
  /\ \A k \in CheckoutKeys : checkout[k] = NoSession \/ checkout[k].offer \in Offers
  /\ DOMAIN transactions = 1 .. Cardinality(DOMAIN transactions)
  /\ \A p \in pages : p.key \in CheckoutKeys /\ p.transaction \in DOMAIN transactions
  /\ credited \subseteq paid /\ paid \subseteq DOMAIN transactions
  /\ portal \in [CheckoutKeys -> 1 .. MaxPortals \union {NoSession}]
  /\ portals \in 0 .. MaxPortals

CheckoutInit ==
  /\ inForce = 1
  /\ asking = [r \in CheckoutRequests |-> Quiet]
  /\ holder = [k \in CheckoutKeys |-> NoSession]
  /\ checkout = [k \in CheckoutKeys |-> NoSession]
  /\ transactions = <<>> /\ pages = {} /\ paid = {} /\ credited = {}
  /\ portal = [k \in CheckoutKeys |-> NoSession] /\ portals = 0

CheckoutAt(r, step) == asking[r].at = step
Becomes(r, q) == asking' = [asking EXCEPT ![r] = q]
Freed(r) == [k \in CheckoutKeys |-> IF holder[k] = r THEN NoSession ELSE holder[k]]
Page(k, t) == [key |-> k, transaction |-> t]

\* Offers are replaced when another catalog comes in force.
NextCatalog ==
  /\ inForce + 1 \in Offers
  /\ inForce' = inForce + 1
  /\ UNCHANGED <<asking, holder, checkout, transactions, pages, paid, credited, portal, portals>>
-----------------------------------------------------------------------------
\* A key that has a checkout shows its page again, for the same request only; an
\* offer that is not in force is refused.
BeginCheckout(r, k, o) ==
  /\ CheckoutAt(r, "idle")
  /\ IF checkout[k] # NoSession
       THEN /\ checkout[k].offer = o
            /\ pages' = pages \union {Page(k, checkout[k].transaction)}
            /\ UNCHANGED asking
       ELSE /\ o = inForce
            /\ Becomes(r, [Quiet EXCEPT !.at = "insert", !.key = k, !.offer = o])
            /\ UNCHANGED pages
  /\ UNCHANGED <<inForce, holder, checkout, transactions, paid, credited, portal, portals>>

\* Fault: no unique constraint on the user and the key.
NeverTaken(k) == FALSE

\* Another call has inserted the key and committed.
KeyTaken(k) == checkout[k] # NoSession

\* Another call has inserted the key and its transaction is open.
KeyHeld(k) == holder[k] # NoSession

\* A held key is waited for; a taken one breaks the insert.
InsertCheckout(r) ==
  LET k == asking[r].key IN
  /\ CheckoutAt(r, "insert")
  /\ ~KeyHeld(k)
  /\ IF KeyTaken(k)
       THEN Becomes(r, Quiet) /\ UNCHANGED holder
       ELSE /\ Becomes(r, [asking[r] EXCEPT !.at = "provider"])
            /\ holder' = [holder EXCEPT ![k] = r]
  /\ UNCHANGED <<inForce, checkout, transactions, pages, paid, credited, portal, portals>>

\* POST /transactions.  The answer of a transaction may be lost, which rolls back.
CreateTransaction(r) == \E answered \in BOOLEAN :
  LET t == Cardinality(DOMAIN transactions) + 1 IN
  /\ CheckoutAt(r, "provider") /\ t <= MaxTransactions
  /\ transactions' = [u \in 1 .. t |-> IF u = t THEN asking[r].offer ELSE transactions[u]]
  /\ IF answered
       THEN Becomes(r, [asking[r] EXCEPT !.at = "commit", !.session = t]) /\ UNCHANGED holder
       ELSE Becomes(r, Quiet) /\ holder' = Freed(r)
  /\ UNCHANGED <<inForce, checkout, pages, paid, credited, portal, portals>>

CommitCheckout(r) ==
  LET q == asking[r] IN
  /\ CheckoutAt(r, "commit")
  /\ checkout' = [checkout EXCEPT ![q.key] = [offer |-> q.offer, transaction |-> q.session]]
  /\ holder' = Freed(r)
  /\ Becomes(r, [q EXCEPT !.at = "respond"])
  /\ UNCHANGED <<inForce, transactions, pages, paid, credited, portal, portals>>

Respond(r) ==
  /\ CheckoutAt(r, "respond")
  /\ pages' = pages \union {Page(asking[r].key, asking[r].session)}
  /\ Becomes(r, Quiet)
  /\ UNCHANGED <<inForce, holder, checkout, transactions, paid, credited, portal, portals>>

\* A call that fails, or whose process dies, is rolled back.
Abort(r) ==
  /\ ~CheckoutAt(r, "idle")
  /\ Becomes(r, Quiet) /\ holder' = Freed(r)
  /\ UNCHANGED <<inForce, checkout, transactions, pages, paid, credited, portal, portals>>
-----------------------------------------------------------------------------
\* The candidate pays on a page that was shown.
Pay == \E p \in pages :
  /\ p.transaction \notin paid
  /\ paid' = paid \union {p.transaction}
  /\ UNCHANGED <<inForce, asking, holder, checkout, transactions, pages, credited, portal, portals>>

\* _payment_succeeded looks the checkout up by the provider's id.
ProcessPayment(t) ==
  /\ t \in paid \ credited
  /\ \E k \in CheckoutKeys : checkout[k] # NoSession /\ checkout[k].transaction = t
  /\ credited' = credited \union {t}
  /\ UNCHANGED <<inForce, asking, holder, checkout, transactions, pages, paid, portal, portals>>

Customer == credited # {}
LockedUser == \E r \in CheckoutRequests : CheckoutAt(r, "portal")

\* _command locks the user; without a customer at the provider there is no portal.
BeginPortal(r, k) ==
  /\ CheckoutAt(r, "idle") /\ ~LockedUser
  /\ portal[k] = NoSession /\ Customer
  /\ Becomes(r, [Quiet EXCEPT !.at = "portal", !.key = k])
  /\ UNCHANGED <<inForce, holder, checkout, transactions, pages, paid, credited, portal, portals>>

\* The command is completed with the answer it will replay.
CreatePortal(r) ==
  /\ CheckoutAt(r, "portal") /\ portals < MaxPortals
  /\ portals' = portals + 1
  /\ portal' = [portal EXCEPT ![asking[r].key] = portals + 1]
  /\ Becomes(r, Quiet)
  /\ UNCHANGED <<inForce, holder, checkout, transactions, pages, paid, credited>>

CheckoutNext ==
  \/ NextCatalog \/ Pay
  \/ \E r \in CheckoutRequests :
       \/ InsertCheckout(r) \/ CreateTransaction(r) \/ CommitCheckout(r) \/ Respond(r)
       \/ Abort(r) \/ CreatePortal(r)
       \/ \E k \in CheckoutKeys : BeginPortal(r, k) \/ \E o \in Offers : BeginCheckout(r, k, o)
  \/ \E t \in paid : ProcessPayment(t)
-----------------------------------------------------------------------------
\* A candidate can only pay for a transaction that a checkout of the system is
\* about, at the offer the provider was asked to charge, and a key shows one
\* payment page only: whatever a retry, a lost answer or a crash does, a payment
\* finds the checkout it belongs to.
PaymentsFindTheirCheckout ==
  \A p \in pages :
    /\ checkout[p.key] # NoSession
    /\ checkout[p.key].transaction = p.transaction
    /\ checkout[p.key].offer = transactions[p.transaction]
=============================================================================
