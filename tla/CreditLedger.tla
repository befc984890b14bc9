---------------------------- MODULE CreditLedger ----------------------------
(***************************************************************************)
(* The credit account of one user (services/product_billing.py): buckets   *)
(* of credits, reservations that hold credits out of them, the append-only *)
(* ledger, and the debt left by reversed payments.                         *)
(*                                                                         *)
(* Every action is one database transaction of ProductBillingService.      *)
(* Reserving, granting, refunding, adjusting and reversing lock the        *)
(* account row; capturing and releasing lock the reservation row and each  *)
(* bucket row before they touch it, so the module takes a transaction as a *)
(* step.  CreditRows has their statements and locks, and says what that    *)
(* leaves out: a select may overlook what is released meanwhile.           *)
(*                                                                         *)
(* A row has the identity its unique key gives it: a bucket is its type    *)
(* and source_reference, a reservation its business reference, a ledger    *)
(* entry its idempotency key.  Rows not inserted yet are present as a      *)
(* bucket with granted = 0, or a reservation with status "none".           *)
(***************************************************************************)
EXTENDS Integers, FiniteSets

CONSTANTS
  Reference,       \* business references a reservation can be made for
  Period,          \* period references of provider payments
  Adjustment,      \* administrative adjustments
  Cost,            \* [Reference -> Nat]: credit_cost of the feature used
  TrialGrant,      \* credit_grant of the signup trial policy
  TrialDays,       \* valid_days of the signup trial policy
  PeriodKind,      \* [Period -> {"subscription", "topup"}]: type of offer
  PeriodGrant,     \* [Period -> Nat]: credit_grant of the offer
  PeriodPrice,     \* [Period -> Nat]: amount_minor of the offer
  PeriodDays,      \* length of a subscription period
  AdjustmentAmount,\* [Adjustment -> Int]: requested amount
  HoldTime,        \* time before a reservation expires
  DeferTime,       \* time added by a reconciliation without an outcome
  MaxCredit,       \* bound of every credit amount
  Horizon          \* bound of the clock

VARIABLES
  now,             \* the time, in units of one day
  bucket,          \* [BucketId -> row of product_credit_buckets]
  hold,            \* [Reference -> row of product_credit_reservations]
  ledger,          \* posted entries: a function from their key to their amount
  account,         \* status and debt of the row of product_credit_accounts
  reversal,        \* [Period -> row of product_payment_reversal_states]
  review           \* rows of product_credit_account_reviews

vars == <<now, bucket, hold, ledger, account, reversal, review>>

-----------------------------------------------------------------------------
(* Rows and their keys. *)

Trial == <<"trial", "signup">>
PaymentBucket(p) == <<"payment", p>>
AdjustmentBucket(a) == <<"adjustment", a>>
RefundBucket(r) == <<"refund", r>>

BucketId == {Trial} \cup ({"payment"} \X Period)
              \cup ({"adjustment"} \X Adjustment) \cup ({"refund"} \X Reference)

Never == Horizon + TrialDays + PeriodDays + 1       \* expires_at IS NULL

Credits == 0 .. MaxCredit

Bucket == [granted: Nat, available: Nat, reserved: Nat, expires: Nat, created: Nat]

Allocation == [BucketId -> Credits]

Hold == [status: {"none", "reserved", "captured", "released", "refunded"},
         allocated: Allocation, expires: Nat]

NoBucket == [granted |-> 0, available |-> 0, reserved |-> 0,
             expires |-> Never, created |-> 0]
NothingAllocated == [b \in BucketId |-> 0]
NoHold == [status |-> "none", allocated |-> NothingAllocated, expires |-> 0]

ASSUME ConstantsAssumption ==
  /\ IsFiniteSet(Reference) /\ IsFiniteSet(Period) /\ IsFiniteSet(Adjustment)
  /\ MaxCredit \in Nat /\ Horizon \in Nat /\ TrialDays \in Nat /\ PeriodDays \in Nat
  /\ HoldTime \in Nat /\ DeferTime \in Nat
  /\ TrialGrant \in 1 .. MaxCredit
  /\ Cost \in [Reference -> 1 .. MaxCredit]
  /\ PeriodKind \in [Period -> {"subscription", "topup"}]
  /\ PeriodGrant \in [Period -> 1 .. MaxCredit]
  /\ PeriodPrice \in [Period -> Nat \ {0}]
  /\ AdjustmentAmount \in [Adjustment -> (-MaxCredit .. MaxCredit) \ {0}]

-----------------------------------------------------------------------------
(* Sums.  A credit of x is the pair of x and its number, so that the sum   *)
(* of f over S is the number of credits of the elements of S.              *)

CreditsOf(f, S) == {u \in S \X (1 .. MaxCredit) : u[2] <= f[u[1]]}
Total(f, S) == Cardinality(CreditsOf(f, S))

\* The same of a function that also has negative values.
SignedTotal(f, S) == Total(f, S) - Total([x \in S |-> -f[x]], S)

Min2(x, y) == IF x <= y THEN x ELSE y
Max2(x, y) == IF x >= y THEN x ELSE y

Allocated(h, S, b) == Total([r \in Reference |-> h[r].allocated[b]], S)
Available(bk, S) == Total([b \in BucketId |-> bk[b].available], S)

WithStatus(h, s) == {r \in Reference : h[r].status = s}
Reserved(h) == WithStatus(h, "reserved")

-----------------------------------------------------------------------------
(* The helpers of the service, on the rows of a transaction in progress.   *)
(* A definition under "Fault:" is what the next one would be with a mistake *)
(* in it; no action uses it, and the run that checks the property it is    *)
(* named for fails with it.                                                *)

\* _ledger: an entry whose idempotency key is already posted is not posted again.
Post(lg, entries) ==
  [k \in DOMAIN lg \cup DOMAIN entries |-> IF k \in DOMAIN lg THEN lg[k] ELSE entries[k]]
Entry(key, amount) == [k \in {key} |-> amount]

\* _grant_bucket: the row is inserted only when its source is new.
Grant(bk, b, amount, expires) ==
  IF bk[b].granted # 0 THEN bk
  ELSE [bk EXCEPT ![b] =
          [granted |-> amount, available |-> amount, reserved |-> 0, expires |-> expires,
           created |-> 1 + Cardinality({c \in BucketId : bk[c].granted # 0})]]

\* ensure_signup_trial, for a user whose email is verified or not.
WithTrial(bk, verified) ==
  IF verified THEN Grant(bk, Trial, TrialGrant, now + TrialDays) ELSE bk
TrialEntry(verified) ==
  IF verified THEN Entry(<<"GRANT", Trial>>, TrialGrant) ELSE << >>

\* Fault: a bucket is still spendable at the instant it expires.
ExpirableTooLate(bk) == {b \in BucketId : bk[b].expires < now /\ bk[b].available > 0}

\* _expire_buckets: what is available in an expired bucket is lost.
Expirable(bk) == {b \in BucketId : bk[b].expires <= now /\ bk[b].available > 0}
\* Fault: an expiry takes the credits that are held as well.
ExpiredWithHolds(bk) ==
  [b \in BucketId |-> IF b \in Expirable(bk)
                      THEN [bk[b] EXCEPT !.available = 0, !.reserved = 0] ELSE bk[b]]
Expired(bk) ==
  [b \in BucketId |-> IF b \in Expirable(bk) THEN [bk[b] EXCEPT !.available = 0] ELSE bk[b]]
ExpireEntries(bk) ==
  LET E == Expirable(bk)
  IN  [k \in {"EXPIRE"} \X E |-> -bk[k[2]].available]

\* Fault: top-ups are spent before subscriptions.
RankTopupFirst(b) == CASE b[1] = "trial" -> 1
                       [] b[1] = "payment" -> IF PeriodKind[b[2]] = "topup" THEN 2 ELSE 3
                       [] OTHER -> 4

\* The order in which reserve spends buckets: by type, earliest expiry, age.
Rank(b) == CASE b[1] = "trial" -> 1
             [] b[1] = "payment" -> IF PeriodKind[b[2]] = "subscription" THEN 2 ELSE 3
             [] OTHER -> 4

SpentBefore(bk, b, c) ==
  \/ Rank(b) < Rank(c)
  \/ Rank(b) = Rank(c) /\ bk[b].expires < bk[c].expires
  \/ Rank(b) = Rank(c) /\ bk[b].expires = bk[c].expires /\ bk[b].created < bk[c].created

\* The order in which a negative adjustment drains buckets: by age only.
OlderThan(bk, b, c) == bk[b].created < bk[c].created

\* Fault: every bucket is asked for the whole amount.
TakeWhole(bk, b, earlier, amount) == Min2(bk[b].available, amount)

\* What a greedy pass over the buckets takes from b when it needs amount
\* and the buckets in earlier come first.
Take(bk, b, earlier, amount) ==
  Min2(bk[b].available, Max2(0, amount - Available(bk, earlier)))

Spend(bk, amount) ==
  [b \in BucketId |-> Take(bk, b, {c \in BucketId : SpentBefore(bk, c, b)}, amount)]
Drain(bk, amount) ==
  [b \in BucketId |-> Take(bk, b, {c \in BucketId : OlderThan(bk, c, b)}, amount)]

\* Fault: a capture does not give up what is held.
SettleKeepingHolds(bk, C, R) ==
  [b \in BucketId |->
     [bk[b] EXCEPT !.reserved = @ - Allocated(hold, R, b),
                   !.available = @ + Allocated(hold, R, b)]]

\* Fault: a capture returns the credits like a release.
SettleReturningCharges(bk, C, R) ==
  [b \in BucketId |->
     [bk[b] EXCEPT !.reserved = @ - Allocated(hold, C \cup R, b),
                   !.available = @ + Allocated(hold, C \cup R, b)]]

\* capture and release of the reservations in C and R, on buckets bk: both
\* give up what is held, and release makes it available again.
Settle(bk, C, R) ==
  [b \in BucketId |->
     [bk[b] EXCEPT !.reserved = @ - Allocated(hold, C \cup R, b),
                   !.available = @ + Allocated(hold, R, b)]]
Settled(C, R) ==
  [r \in Reference |->
     CASE r \in C -> [hold[r] EXCEPT !.status = "captured"]
       [] r \in R -> [hold[r] EXCEPT !.status = "released"]
       [] OTHER   -> hold[r]]
\* Fault: a capture posts nothing.
NoChargeEntries(C) == << >>
ChargeEntries(C) == [k \in {"CHARGE"} \X C |-> -Cost[k[2]]]

\* A capture fails with CREDIT_RESERVATION_CORRUPT unless the buckets hold it.
Capturable(C) == \A b \in BucketId : bucket[b].reserved >= Allocated(hold, C, b)

-----------------------------------------------------------------------------
(* The transactions. *)

Init ==
  /\ now = 0
  /\ bucket = [b \in BucketId |-> NoBucket]
  /\ hold = [r \in Reference |-> NoHold]
  /\ ledger = << >>
  /\ account = [status |-> "active", debt |-> 0]
  /\ reversal = [p \in Period |-> [amount |-> 0, credits |-> 0]]
  /\ review = {}

\* GET /billing/credits: grants the trial and settles what has expired.
CreditAccount(verified) ==
  LET bk == WithTrial(bucket, verified)
  IN  /\ bucket' = Expired(bk)
      /\ ledger' = Post(Post(ledger, TrialEntry(verified)), ExpireEntries(bk))
      /\ UNCHANGED <<now, hold, account, reversal, review>>

\* reserve: a reservation that exists is returned as it is; otherwise the
\* account must be active and hold enough credits that have not expired.
Reserve(r, verified) ==
  LET granted == WithTrial(bucket, verified)
      live == Expired(granted)
      spend == Spend(live, Cost[r])
  IN  \/ /\ hold[r].status # "none"
         /\ bucket' = granted
         /\ ledger' = Post(ledger, TrialEntry(verified))
         /\ UNCHANGED <<now, hold, account, reversal, review>>
      \/ /\ hold[r].status = "none"
         /\ account.status = "active"
         /\ Available(live, BucketId) >= Cost[r]
         /\ bucket' = [b \in BucketId |-> [live[b] EXCEPT !.available = @ - spend[b],
                                                          !.reserved = @ + spend[b]]]
         /\ hold' = [hold EXCEPT ![r] = [status |-> "reserved", allocated |-> spend,
                                         expires |-> now + HoldTime]]
         /\ ledger' = Post(Post(ledger, TrialEntry(verified)), ExpireEntries(granted))
         /\ UNCHANGED <<now, account, reversal, review>>

Capture(r) ==
  /\ hold[r].status = "reserved"
  /\ Capturable({r})
  /\ bucket' = Settle(bucket, {r}, {})
  /\ hold' = Settled({r}, {})
  /\ ledger' = Post(ledger, ChargeEntries({r}))
  /\ UNCHANGED <<now, account, reversal, review>>

Release(r) ==
  /\ hold[r].status = "reserved"
  /\ bucket' = Settle(bucket, {}, {r})
  /\ hold' = Settled({}, {r})
  /\ UNCHANGED <<now, ledger, account, reversal, review>>

\* refund: back to the source buckets that have not expired, and for the
\* rest into an adjustment bucket that does not expire.
Refund(r) ==
  LET lapsed == {b \in BucketId : bucket[b].expires <= now}
      returned == [b \in BucketId |->
                     IF b \in lapsed THEN bucket[b]
                     ELSE [bucket[b] EXCEPT !.available = @ + hold[r].allocated[b]]]
      rest == Total(hold[r].allocated, lapsed)
  IN  /\ hold[r].status = "captured"
      /\ bucket' = IF rest = 0 THEN returned ELSE Grant(returned, RefundBucket(r), rest, Never)
      /\ hold' = [hold EXCEPT ![r].status = "refunded"]
      /\ ledger' = Post(ledger, Entry(<<"REFUND", r>>, Cost[r]))
      /\ UNCHANGED <<now, account, reversal, review>>

\* reconcile_expired_reservations: overdue reservations, as many as a pass takes and
\* nobody has locked, are captured, released or given more time, as the state of the
\* feature each pays for says.
Overdue == {r \in Reserved(hold) : hold[r].expires <= now}

Reconciled(C, R, D) ==
  [r \in Reference |-> IF r \in D THEN [hold[r] EXCEPT !.expires = now + DeferTime]
                       ELSE Settled(C, R)[r]]

ReconcileExpiredReservations(C, R, D) ==
  /\ Capturable(C)
  /\ bucket' = Settle(bucket, C, R)
  /\ hold' = Reconciled(C, R, D)
  /\ ledger' = Post(ledger, ChargeEntries(C))
  /\ UNCHANGED <<now, account, reversal, review>>

\* _payment_succeeded, by any event of the period: the grant is made once.
PaymentSucceeded(p) ==
  LET b == PaymentBucket(p)
      expires == IF PeriodKind[p] = "subscription" THEN now + PeriodDays ELSE Never
  IN  /\ bucket' = Grant(bucket, b, PeriodGrant[p], expires)
      /\ ledger' = Post(ledger, Entry(<<"GRANT", b>>, PeriodGrant[p]))
      /\ UNCHANGED <<now, hold, account, reversal, review>>

\* Fault: the rounding is off by one.
CumulativeCreditsShort(granted, amount, price) ==
  Min2(granted, (granted * amount - 1) \div price)

\* _cumulative_reversal: credits reversed once amount of price is, rounded up.
CumulativeCredits(granted, amount, price) ==
  Min2(granted, (granted * amount + price - 1) \div price)

\* Fault: a reversal leaves the open reservations alone.
NoOpenHolds(b) == {}

\* The open reservations that hold credits of bucket b.
OpenHolds(b) == {r \in Reserved(hold) : hold[r].allocated[b] > 0}

\* _payment_reversed: holds on the bucket are released, what is available is
\* taken back, and what is missing becomes debt under review.
PaymentReversed(p, amount) ==
  LET b == PaymentBucket(p)
      cumulative == reversal[p].amount + amount
      credits == CumulativeCredits(bucket[b].granted, cumulative, PeriodPrice[p])
      due == credits - reversal[p].credits
      R == OpenHolds(b)
      freed == Settle(bucket, {}, R)
      unspent == Min2(freed[b].available, due)
      debt == due - unspent
      event == <<p, cumulative>>
  IN  /\ bucket[b].granted # 0
      /\ cumulative <= PeriodPrice[p]
      /\ credits >= reversal[p].credits
      /\ reversal' = [reversal EXCEPT ![p] = [amount |-> cumulative, credits |-> credits]]
      /\ bucket' = [freed EXCEPT ![b].available = @ - unspent]
      /\ hold' = Settled({}, R)
      /\ account' = IF debt = 0 THEN account
                    ELSE [status |-> "review", debt |-> account.debt + debt]
      /\ review' = IF debt = 0 THEN review ELSE review \cup {[event |-> event, debt |-> debt]}
      /\ ledger' = IF unspent = 0 THEN ledger
                   ELSE Post(ledger, Entry(<<"REVERSAL", event>>, -unspent))
      /\ UNCHANGED now

\* _apply_credit_adjustment: executed at most once.
Adjust(a) ==
  LET amount == AdjustmentAmount[a]
      drain == Drain(bucket, -amount)
  IN  /\ <<"ADJUSTMENT", a>> \notin DOMAIN ledger
      /\ \/ /\ amount > 0
            /\ bucket' = Grant(bucket, AdjustmentBucket(a), amount, Never)
         \/ /\ amount < 0
            /\ Available(bucket, BucketId) >= -amount
            /\ bucket' = [b \in BucketId |-> [bucket[b] EXCEPT !.available = @ - drain[b]]]
      /\ ledger' = Post(ledger, Entry(<<"ADJUSTMENT", a>>, amount))
      /\ UNCHANGED <<now, hold, account, reversal, review>>

Tick ==
  /\ now < Horizon
  /\ now' = now + 1
  /\ UNCHANGED <<bucket, hold, ledger, account, reversal, review>>

Next ==
  \/ \E verified \in BOOLEAN : CreditAccount(verified)
  \/ \E r \in Reference, verified \in BOOLEAN : Reserve(r, verified)
  \/ \E r \in Reference : Capture(r) \/ Release(r) \/ Refund(r)
  \/ \E C \in SUBSET Overdue : \E R \in SUBSET (Overdue \ C) :
       \E D \in SUBSET (Overdue \ (C \cup R)) : ReconcileExpiredReservations(C, R, D)
  \/ \E p \in Period : PaymentSucceeded(p)
  \/ \E p \in Period : \E amount \in 1 .. PeriodPrice[p] : PaymentReversed(p, amount)
  \/ \E a \in Adjustment : Adjust(a)
  \/ Tick

Spec == Init /\ [][Next]_vars

-----------------------------------------------------------------------------
(* What the account promises. *)

\* Every row has its type; in particular no balance is ever negative, and a
\* reservation never gives back more than the bucket holds for it.
TypeOK ==
  /\ now \in 0 .. Horizon
  /\ bucket \in [BucketId -> Bucket]
  /\ hold \in [Reference -> Hold]
  /\ account \in [status: {"active", "review"}, debt: Nat]
  /\ reversal \in [Period -> [amount: Nat, credits: Nat]]

\* What a bucket has reserved is what the open reservations hold of it: two
\* reservations never hold the same credit, and no credit stays held when its
\* reservation ended, whichever of capture, release, reconciliation or payment
\* reversal ended it.
HoldsBacked ==
  \A b \in BucketId : bucket[b].reserved = Allocated(hold, Reserved(hold), b)

\* No sequence of releases, refunds and reversals makes more of a bucket than
\* was granted to it: what is available, held and charged fits in the grant.
NoCreditMinted ==
  \A b \in BucketId :
    bucket[b].available + bucket[b].reserved + Allocated(hold, WithStatus(hold, "captured"), b)
      <= bucket[b].granted

\* A reservation holds the price of its feature, no more and no less, however
\* the price was split over the buckets.
HoldCoversCost ==
  \A r \in Reference : hold[r].status # "none" => Total(hold[r].allocated, BucketId) = Cost[r]

LedgerSum == SignedTotal(ledger, DOMAIN ledger)
Balance == Total([b \in BucketId |-> bucket[b].available + bucket[b].reserved], BucketId)

\* A bucket that expires again after a release put credits back into it: its
\* EXPIRE entry is already posted, so the second expiry posts none.
ExpiresAgain == \E b \in BucketId :
  /\ <<"EXPIRE", b>> \in DOMAIN ledger
  /\ bucket[b].available > 0 /\ bucket'[b].available = 0 /\ bucket[b].expires <= now

\* Every transaction posts to the ledger exactly what it does to the balance
\* of the buckets, except the second expiry of a bucket.
PostsWhatItDoes ==
  [][LedgerSum' - LedgerSum = Balance' - Balance \/ ExpiresAgain]_vars

\* FR-BILL-004: the balance matches the sum of the ledger.
LedgerMatchesBalance == LedgerSum = Balance

\* The charge of a reservation is in the ledger exactly when it was captured,
\* its refund exactly when it was refunded, each once and for its price.
ChargesMatchOutcomes ==
  \A r \in Reference :
    /\ hold[r].status \in {"captured", "refunded"} <=> <<"CHARGE", r>> \in DOMAIN ledger
    /\ hold[r].status = "refunded" <=> <<"REFUND", r>> \in DOMAIN ledger

\* The credits reversed of a payment are all accounted for, as credits taken
\* back or as debt under review; a payment reversed in full, in any number of
\* parts, has its whole grant reversed.
ReversalAccounted ==
  /\ \A p \in Period :
       LET taken == {k \in DOMAIN ledger : k[1] = "REVERSAL" /\ k[2][1] = p}
           owed == {v \in review : v.event[1] = p}
       IN  /\ reversal[p].credits = Total([v \in owed |-> v.debt], owed) - SignedTotal(ledger, taken)
           /\ reversal[p].amount = PeriodPrice[p] => reversal[p].credits = PeriodGrant[p]
  /\ account.debt = Total([v \in review |-> v.debt], review)
  /\ account.debt > 0 <=> account.status = "review"

\* A payment reversal makes debt only when nothing of the grant is left, held
\* by an open reservation included.
DebtOnlyForSpentCredits ==
  [][\A p \in Period :
       account'.debt > account.debt /\ reversal'[p] # reversal[p] =>
         bucket'[PaymentBucket(p)].available = 0 /\ bucket'[PaymentBucket(p)].reserved = 0]_vars

NewlyHeld(r) == hold[r].status = "none" /\ hold'[r].status = "reserved"

\* A reservation is never paid with credits that have expired.
NeverSpendsExpired ==
  [][\A r \in Reference, b \in BucketId :
       NewlyHeld(r) /\ hold'[r].allocated[b] > 0 => bucket'[b].expires > now]_vars

KindOf(b) == IF b[1] = "payment" THEN PeriodKind[b[2]] ELSE b[1]

\* The trial is spent before paid credits, a subscription before a top-up,
\* and of two subscriptions the one that expires first.
SpendsInOrder ==
  [][\A r \in Reference, b, c \in BucketId :
       /\ NewlyHeld(r) /\ hold'[r].allocated[c] > 0
       /\ \/ KindOf(b) = "trial" /\ KindOf(c) # "trial"
          \/ KindOf(b) = "subscription" /\ KindOf(c) \in {"topup", "adjustment", "refund"}
          \/ KindOf(b) = "subscription" /\ KindOf(c) = "subscription"
             /\ bucket'[b].expires < bucket'[c].expires
       => bucket'[b].available = 0]_vars
=============================================================================
