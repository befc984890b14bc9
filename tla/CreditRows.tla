----------------------------- MODULE CreditRows -----------------------------
(***************************************************************************)
(* The transactions of CreditLedger, statement by statement, in several    *)
(* sessions at READ COMMITTED (services/product_billing.py).               *)
(*                                                                         *)
(* A transaction locks the account row, reservation rows and bucket rows   *)
(* with SELECT ... FOR UPDATE, keeps them until it ends, and computes what *)
(* it writes from the copies it read with the locks.  A select that looks  *)
(* for buckets or reservations locks the rows that match when it starts,   *)
(* one after the other: a row that comes to match later is passed over.    *)
(* What a transaction has only one row to lock for is one step.  Abort is  *)
(* an error of the handler, a deadlock broken by the database or a crash.  *)
(* A row is first read with its lock, as the methods of the service do;    *)
(* create_realtime_token, which has a reservation from before, is in       *)
(* Interview.                                                              *)
(*                                                                         *)
(* The rows of one select are locked in any order.  A lock that is not     *)
(* free is waited for: the step that takes it is not enabled.  The clock   *)
(* stands while a transaction has the account, which is a few statements.  *)
(***************************************************************************)
EXTENDS CreditLedger

CONSTANTS
  Tx,              \* database sessions
  Nobody           \* who has a row that is not locked

ASSUME RowsAssumption == Nobody \notin Tx

VARIABLES
  accountLock,     \* the session that has the row of the account, or Nobody
  bucketLock,      \* [BucketId -> Tx \cup {Nobody}]
  holdLock,        \* [Reference -> Tx \cup {Nobody}]
  tx               \* [Tx -> the transaction of the session]

locks == <<accountLock, bucketLock, holdLock>>
rowVars == <<now, bucket, hold, ledger, account, reversal, review,
             accountLock, bucketLock, holdLock, tx>>

-----------------------------------------------------------------------------
(* The state of a transaction. *)

\* op: what is next.  "account" and "reserve" settle what has expired, "spend"
\* takes the price, "drain" a debit, "settle" captures and releases, "refund"
\* gives back, "reverse" has a bucket and waits for the account, and "free"
\* releases the reservations that hold it.
Op == {"idle", "account", "reserve", "spend", "drain", "settle", "refund", "reverse", "free"}

NoTx == [op |-> "idle",
         id |-> Nobody,        \* what is reserved, refunded, reversed or adjusted
         verified |-> FALSE,   \* whether the user may have the trial
         amount |-> 0,         \* the amount of a reversal
         C |-> {}, R |-> {}, D |-> {},  \* reservations locked to capture, release, defer
         holds |-> {},         \* reservations still to lock
         todo |-> {},          \* buckets still to lock
         expired |-> {},       \* buckets whose expiry was settled
         row |-> [b \in BucketId |-> NoBucket]]  \* copies of the locked buckets

Locked(t) == {b \in BucketId : bucketLock[b] = t}

\* What session t reads: the committed buckets and the trial it grants itself.
Base(t) == WithTrial(bucket, tx[t].verified)

Only(bk, S) == [b \in BucketId |-> IF b \in S THEN bk[b] ELSE NoBucket]
With(bk, E) == [b \in BucketId |-> IF b \in E THEN [bk[b] EXCEPT !.available = 0] ELSE bk[b]]
Stock(bk) == {b \in BucketId : bk[b].available > 0}

BucketsOf(H) == {b \in BucketId : \E r \in H : hold[r].allocated[b] > 0}

RowInit ==
  /\ Init
  /\ accountLock = Nobody
  /\ bucketLock = [b \in BucketId |-> Nobody]
  /\ holdLock = [r \in Reference |-> Nobody]
  /\ tx = [t \in Tx |-> NoTx]

\* A transaction that begins by locking the account.
Begin(t, work) ==
  /\ tx[t].op = "idle" /\ accountLock = Nobody
  /\ accountLock' = t
  /\ tx' = [tx EXCEPT ![t] = work]
  /\ UNCHANGED <<vars, bucketLock, holdLock>>

\* Every lock is released when the transaction ends.
End(t) ==
  /\ accountLock' = IF accountLock = t THEN Nobody ELSE accountLock
  /\ bucketLock' = [b \in BucketId |-> IF bucketLock[b] = t THEN Nobody ELSE bucketLock[b]]
  /\ holdLock' = [r \in Reference |-> IF holdLock[r] = t THEN Nobody ELSE holdLock[r]]
  /\ tx' = [tx EXCEPT ![t] = NoTx]

\* The buckets after t has written new to the rows it has locked.
Written(t, new) == [b \in BucketId |-> IF b \in Locked(t) THEN new[b] ELSE Base(t)[b]]

Abort(t) == tx[t].op # "idle" /\ End(t) /\ UNCHANGED vars

\* Fault: a bucket is read without FOR UPDATE.
LockBucketNoWait(t, b) ==
  /\ b \in tx[t].todo
  /\ bucketLock' = [bucketLock EXCEPT ![b] = t]
  /\ tx' = [tx EXCEPT ![t].todo = @ \ {b}, ![t].row[b] = Base(t)[b]]
  /\ UNCHANGED <<vars, accountLock, holdLock>>

\* SELECT ... FOR UPDATE of one bucket, which is read as it is then.
LockBucket(t, b) ==
  /\ b \in tx[t].todo /\ bucketLock[b] = Nobody
  /\ bucketLock' = [bucketLock EXCEPT ![b] = t]
  /\ tx' = [tx EXCEPT ![t].todo = @ \ {b}, ![t].row[b] = Base(t)[b]]
  /\ UNCHANGED <<vars, accountLock, holdLock>>

-----------------------------------------------------------------------------
(* credit_account and reserve.  The account is locked, then the expired    *)
(* buckets that have credits, then, by reserve, whatever has credits.      *)

BeginCreditAccount(t, verified) ==
  Begin(t, [NoTx EXCEPT !.op = "account", !.verified = verified,
                        !.todo = Expirable(WithTrial(bucket, verified))])

CommitCreditAccount(t) ==
  /\ tx[t].op = "account" /\ tx[t].todo = {}
  /\ bucket' = Written(t, Expired(tx[t].row))
  /\ ledger' = Post(Post(ledger, TrialEntry(tx[t].verified)), ExpireEntries(tx[t].row))
  /\ End(t)
  /\ UNCHANGED <<now, hold, account, reversal, review>>

BeginReserve(t, r, verified) ==
  /\ hold[r].status = "none" /\ account.status = "active"
  /\ Begin(t, [NoTx EXCEPT !.op = "reserve", !.id = r, !.verified = verified,
                           !.todo = Expirable(WithTrial(bucket, verified))])

\* The second select: what was expired has nothing left, and is not asked for
\* again; a bucket that has expired otherwise is taken like any other.
SelectSpendable(t) ==
  /\ tx[t].op = "reserve" /\ tx[t].todo = {}
  /\ tx' = [tx EXCEPT ![t].op = "spend", ![t].expired = Locked(t),
                      ![t].todo = Stock(Base(t)) \ Locked(t)]
  /\ UNCHANGED <<vars, locks>>

CommitReserve(t) ==
  LET r == tx[t].id
      live == With(tx[t].row, tx[t].expired)
      spend == Spend(live, Cost[r])
  IN  /\ tx[t].op = "spend" /\ tx[t].todo = {}
      /\ Available(live, BucketId) >= Cost[r]
      /\ bucket' = Written(t, [b \in BucketId |-> [live[b] EXCEPT !.available = @ - spend[b],
                                                                  !.reserved = @ + spend[b]]])
      /\ hold' = [hold EXCEPT ![r] = [status |-> "reserved", allocated |-> spend,
                                      expires |-> now + HoldTime]]
      /\ ledger' = Post(Post(ledger, TrialEntry(tx[t].verified)),
                        ExpireEntries(Only(tx[t].row, tx[t].expired)))
      /\ End(t)
      /\ UNCHANGED <<now, account, reversal, review>>

-----------------------------------------------------------------------------
(* capture, release and the reconciliation: the reservations, then the     *)
(* buckets they hold.  The account is not locked.                          *)

\* Fault: the reservation is read without FOR UPDATE.
BeginSettleUnlocked(t, C, R, D) ==
  /\ tx[t].op = "idle"
  /\ holdLock' = [r \in Reference |-> IF r \in C \cup R \cup D THEN t ELSE holdLock[r]]
  /\ tx' = [tx EXCEPT ![t] = [NoTx EXCEPT !.op = "settle", !.C = C, !.R = R, !.D = D,
                                          !.todo = BucketsOf(C \cup R)]]
  /\ UNCHANGED <<vars, accountLock, bucketLock>>

BeginSettle(t, C, R, D) ==
  /\ tx[t].op = "idle"
  /\ \A r \in C \cup R \cup D : holdLock[r] = Nobody
  /\ holdLock' = [r \in Reference |-> IF r \in C \cup R \cup D THEN t ELSE holdLock[r]]
  /\ tx' = [tx EXCEPT ![t] = [NoTx EXCEPT !.op = "settle", !.C = C, !.R = R, !.D = D,
                                          !.todo = BucketsOf(C \cup R)]]
  /\ UNCHANGED <<vars, accountLock, bucketLock>>

BeginCapture(t, r) == r \in Reserved(hold) /\ BeginSettle(t, {r}, {}, {})
BeginRelease(t, r) == r \in Reserved(hold) /\ BeginSettle(t, {}, {r}, {})
BeginPass(t) ==
  \E C \in SUBSET Overdue : \E R \in SUBSET (Overdue \ C) :
    \E D \in SUBSET (Overdue \ (C \cup R)) : C \cup R \cup D # {} /\ BeginSettle(t, C, R, D)

CommitSettle(t) ==
  LET C == tx[t].C
      R == tx[t].R
  IN  /\ tx[t].op = "settle" /\ tx[t].todo = {}
      /\ \A b \in Locked(t) : tx[t].row[b].reserved >= Allocated(hold, C, b)
      /\ bucket' = Written(t, Settle(tx[t].row, C, R))
      /\ hold' = Reconciled(C, R, tx[t].D)
      /\ ledger' = Post(ledger, ChargeEntries(C))
      /\ End(t)
      /\ UNCHANGED <<now, account, reversal, review>>

-----------------------------------------------------------------------------
(* refund: the reservation, the account, then the buckets.                 *)

BeginRefund(t, r) ==
  /\ tx[t].op = "idle" /\ holdLock[r] = Nobody /\ accountLock = Nobody
  /\ hold[r].status = "captured"
  /\ holdLock' = [holdLock EXCEPT ![r] = t] /\ accountLock' = t
  /\ tx' = [tx EXCEPT ![t] = [NoTx EXCEPT !.op = "refund", !.id = r, !.todo = BucketsOf({r})]]
  /\ UNCHANGED <<vars, bucketLock>>

CommitRefund(t) ==
  LET r == tx[t].id
      lapsed == {b \in Locked(t) : tx[t].row[b].expires <= now}
      returned == [b \in BucketId |->
                     IF b \in lapsed THEN tx[t].row[b]
                     ELSE [tx[t].row[b] EXCEPT !.available = @ + hold[r].allocated[b]]]
      rest == Total(hold[r].allocated, lapsed)
  IN  /\ tx[t].op = "refund" /\ tx[t].todo = {}
      /\ bucket' = IF rest = 0 THEN Written(t, returned)
                   ELSE Grant(Written(t, returned), RefundBucket(r), rest, Never)
      /\ hold' = [hold EXCEPT ![r].status = "refunded"]
      /\ ledger' = Post(ledger, Entry(<<"REFUND", r>>, Cost[r]))
      /\ End(t)
      /\ UNCHANGED <<now, account, reversal, review>>

-----------------------------------------------------------------------------
(* _payment_reversed: the bucket, the account, then each open reservation  *)
(* that holds the bucket, and its buckets.                                 *)

BeginReversal(t, p, amount) ==
  LET b == PaymentBucket(p)
  IN  /\ tx[t].op = "idle" /\ bucketLock[b] = Nobody
      /\ bucket[b].granted # 0
      /\ bucketLock' = [bucketLock EXCEPT ![b] = t]
      /\ tx' = [tx EXCEPT ![t] = [NoTx EXCEPT !.op = "reverse", !.id = p, !.amount = amount,
                                              !.row[b] = bucket[b]]]
      /\ UNCHANGED <<vars, accountLock, holdLock>>

SelectOpenHolds(t) ==
  /\ tx[t].op = "reverse" /\ accountLock = Nobody
  /\ accountLock' = t
  /\ tx' = [tx EXCEPT ![t].op = "free", ![t].holds = OpenHolds(PaymentBucket(tx[t].id))]
  /\ UNCHANGED <<vars, bucketLock, holdLock>>

\* release, by a reversal: a reservation that has ended since is left alone.
LockHold(t, r) ==
  /\ r \in tx[t].holds /\ holdLock[r] = Nobody
  /\ holdLock' = [holdLock EXCEPT ![r] = t]
  /\ tx' = IF hold[r].status = "reserved"
           THEN [tx EXCEPT ![t].holds = @ \ {r}, ![t].R = @ \cup {r},
                           ![t].todo = (@ \cup BucketsOf({r})) \ Locked(t)]
           ELSE [tx EXCEPT ![t].holds = @ \ {r}]
  /\ UNCHANGED <<vars, accountLock, bucketLock>>

CommitReversal(t) ==
  LET p == tx[t].id
      b == PaymentBucket(p)
      cumulative == reversal[p].amount + tx[t].amount
      credits == CumulativeCredits(tx[t].row[b].granted, cumulative, PeriodPrice[p])
      due == credits - reversal[p].credits
      freed == Settle(tx[t].row, {}, tx[t].R)
      unspent == Min2(freed[b].available, due)
      debt == due - unspent
      event == <<p, cumulative>>
  IN  /\ tx[t].op = "free" /\ tx[t].holds = {} /\ tx[t].todo = {}
      /\ cumulative <= PeriodPrice[p]
      /\ credits >= reversal[p].credits
      /\ reversal' = [reversal EXCEPT ![p] = [amount |-> cumulative, credits |-> credits]]
      /\ bucket' = Written(t, [freed EXCEPT ![b].available = @ - unspent])
      /\ hold' = Settled({}, tx[t].R)
      /\ account' = IF debt = 0 THEN account
                    ELSE [status |-> "review", debt |-> account.debt + debt]
      /\ review' = IF debt = 0 THEN review ELSE review \cup {[event |-> event, debt |-> debt]}
      /\ ledger' = IF unspent = 0 THEN ledger
                   ELSE Post(ledger, Entry(<<"REVERSAL", event>>, -unspent))
      /\ End(t)
      /\ UNCHANGED now

-----------------------------------------------------------------------------
(* A negative adjustment: the account, then whatever has credits.          *)

BeginDebit(t, a) ==
  /\ <<"ADJUSTMENT", a>> \notin DOMAIN ledger /\ AdjustmentAmount[a] < 0
  /\ Begin(t, [NoTx EXCEPT !.op = "drain", !.id = a, !.todo = Stock(bucket)])

CommitDebit(t) ==
  LET a == tx[t].id
      amount == -AdjustmentAmount[a]
      drain == Drain(tx[t].row, amount)
  IN  /\ tx[t].op = "drain" /\ tx[t].todo = {}
      /\ Available(tx[t].row, BucketId) >= amount
      /\ bucket' = Written(t, [b \in BucketId |-> [tx[t].row[b] EXCEPT !.available = @ - drain[b]]])
      /\ ledger' = Post(ledger, Entry(<<"ADJUSTMENT", a>>, -amount))
      /\ End(t)
      /\ UNCHANGED <<now, hold, account, reversal, review>>

-----------------------------------------------------------------------------
(* What needs no row but the account. *)

\* reserve of a reference that has a reservation.
ReserveAgain(r, verified) == hold[r].status # "none" /\ Reserve(r, verified)

\* A positive adjustment.
Credit(a) == AdjustmentAmount[a] > 0 /\ Adjust(a)

Alone ==
  /\ accountLock = Nobody
  /\ \/ \E r \in Reference, verified \in BOOLEAN : ReserveAgain(r, verified)
     \/ \E p \in Period : PaymentSucceeded(p)
     \/ \E a \in Adjustment : Credit(a)
     \/ Tick
  /\ UNCHANGED <<locks, tx>>

RowNext ==
  \/ \E t \in Tx :
       \/ \E verified \in BOOLEAN :
            \/ BeginCreditAccount(t, verified)
            \/ \E r \in Reference : BeginReserve(t, r, verified)
       \/ \E r \in Reference : BeginCapture(t, r) \/ BeginRelease(t, r) \/ BeginRefund(t, r)
       \/ BeginPass(t)
       \/ \E p \in Period : \E amount \in 1 .. PeriodPrice[p] : BeginReversal(t, p, amount)
       \/ \E a \in Adjustment : BeginDebit(t, a)
       \/ \E b \in BucketId : LockBucket(t, b)
       \/ \E r \in Reference : LockHold(t, r)
       \/ SelectSpendable(t) \/ SelectOpenHolds(t)
       \/ CommitCreditAccount(t) \/ CommitReserve(t) \/ CommitSettle(t) \/ CommitRefund(t)
       \/ CommitReversal(t) \/ CommitDebit(t)
       \/ Abort(t)
  \/ Alone

RowSpec == RowInit /\ [][RowNext]_rowVars

-----------------------------------------------------------------------------
(* What the locks are worth.  Only the two selects that look for buckets   *)
(* read more than they have locked: what they can miss is a bucket that a  *)
(* released reservation has put credits back into.                         *)

Refilled == {b \in BucketId :
               \E r \in Reference : hold[r].status = "released" /\ hold[r].allocated[b] > 0}

\* CreditAccount, Reserve and Adjust of CreditLedger, when the first select
\* misses the buckets of M and the second those of N.
CreditAccountMissing(verified, M) ==
  LET granted == WithTrial(bucket, verified)
      E == Expirable(granted) \ M
  IN  /\ bucket' = With(granted, E)
      /\ ledger' = Post(Post(ledger, TrialEntry(verified)), ExpireEntries(Only(granted, E)))
      /\ UNCHANGED <<now, hold, account, reversal, review>>

ReserveMissing(r, verified, M, N) ==
  LET granted == WithTrial(bucket, verified)
      E == Expirable(granted) \ M
      live == With(granted, E)
      seen == With(live, N)
      spend == Spend(seen, Cost[r])
  IN  /\ hold[r].status = "none"
      /\ account.status = "active"
      /\ Available(seen, BucketId) >= Cost[r]
      /\ bucket' = [b \in BucketId |-> [live[b] EXCEPT !.available = @ - spend[b],
                                                       !.reserved = @ + spend[b]]]
      /\ hold' = [hold EXCEPT ![r] = [status |-> "reserved", allocated |-> spend,
                                      expires |-> now + HoldTime]]
      /\ ledger' = Post(Post(ledger, TrialEntry(verified)), ExpireEntries(Only(granted, E)))
      /\ UNCHANGED <<now, account, reversal, review>>

AdjustMissing(a, N) ==
  LET amount == -AdjustmentAmount[a]
      seen == With(bucket, N)
      drain == Drain(seen, amount)
  IN  /\ <<"ADJUSTMENT", a>> \notin DOMAIN ledger
      /\ amount > 0
      /\ Available(seen, BucketId) >= amount
      /\ bucket' = [b \in BucketId |-> [bucket[b] EXCEPT !.available = @ - drain[b]]]
      /\ ledger' = Post(ledger, Entry(<<"ADJUSTMENT", a>>, -amount))
      /\ UNCHANGED <<now, hold, account, reversal, review>>

Missing ==
  \E M \in SUBSET Refilled, N \in SUBSET Refilled :
    \/ \E verified \in BOOLEAN : CreditAccountMissing(verified, M)
    \/ \E r \in Reference, verified \in BOOLEAN : ReserveMissing(r, verified, M, N)
    \/ \E a \in Adjustment : AdjustMissing(a, N)

\* However the statements of the sessions interleave, every commit does to the
\* account what one transaction of CreditLedger does alone, save that reserve,
\* credit_account and a negative adjustment may miss what a reservation
\* released meanwhile has given back (capture, release and the reconciliation
\* do not lock the account).
RowsAreTransactions == [][Next \/ Missing]_vars

\* That is enough for the account to stay sound: what is reserved is what the
\* open reservations hold, no credit is minted, and a reservation holds its
\* price, although the statements of its transactions interleave.
AccountStaysSound == HoldsBacked /\ NoCreditMinted /\ HoldCoversCost
=============================================================================
