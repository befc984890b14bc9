------------------------- MODULE CreditLedgerProofs -------------------------
(***************************************************************************)
(* For every set of references, payments and adjustments, every price and  *)
(* every grant:                                                            *)
(*   - the rows keep their types; what a bucket has reserved is what open  *)
(*     reservations hold of it; no bucket is worth more than its grant;    *)
(*   - a reservation holds its price, is never paid with expired credits,  *)
(*     and is paid in the documented order;                                *)
(*   - charges and refunds are posted exactly for what was captured and    *)
(*     refunded, reversed credits are taken back or owed, and every        *)
(*     transaction posts to the ledger what it does to the balance;        *)
(*   - in any number of sessions that interleave statement by statement,   *)
(*     every commit does what one transaction does (CreditRows).           *)
(*                                                                         *)
(* Four invariants carry this, each inductive with the ones before it:     *)
(* IInv (the rows), Funded (the grants, and the price of a reservation),   *)
(* Posted (the keys in the ledger) and Reversals (the events of a reversed *)
(* payment).                                                               *)
(*                                                                         *)
(* A transaction is a composition of the helpers of CreditLedger on the    *)
(* rows, so every part has a lemma for each helper and a short step for    *)
(* each transaction.  Sums are cardinalities and need no recursion; where  *)
(* the value of one is known only by induction, the induction is over the  *)
(* subsets of a finite set and rests on the least counterexample           *)
(* (SubsetInduction).                                                      *)
(*                                                                         *)
(* The last part is about CreditRows.  Its invariant, RowInv, says of each *)
(* session that its copies are what is committed, that a select has missed *)
(* only what was refilled since, and that it has the reservations it ends. *)
(* A step of another session preserves this because it leaves alone what   *)
(* the session has locked (Undisturbed), and at a commit it makes the rows *)
(* that were not locked come out as if they had been.                      *)
(***************************************************************************)
EXTENDS CreditRows, FiniteSetTheorems, WellFoundedInduction, TLAPS

-----------------------------------------------------------------------------
(* Sums. *)

\* A sum over a finite set is a natural number.
LEMMA TotalIsNat ==
  ASSUME NEW f, NEW S, IsFiniteSet(S)
  PROVE  IsFiniteSet(CreditsOf(f, S)) /\ Total(f, S) \in Nat
<1>1. IsFiniteSet(1 .. MaxCredit)
  BY FS_Interval, ConstantsAssumption
<1>2. IsFiniteSet(S \X (1 .. MaxCredit))
  BY <1>1, FS_Product
<1>3. CreditsOf(f, S) \in SUBSET (S \X (1 .. MaxCredit))
  BY DEF CreditsOf
<1>4. IsFiniteSet(CreditsOf(f, S))
  BY <1>2, <1>3, FS_Subset
<1> QED
  BY <1>4, FS_CardinalityType DEF Total

\* The sum over two disjoint sets is the sum of the sums.
LEMMA TotalOfUnion ==
  ASSUME NEW f, NEW S, NEW T, IsFiniteSet(S), IsFiniteSet(T), S \cap T = {}
  PROVE  Total(f, S \cup T) = Total(f, S) + Total(f, T)
<1>1. CreditsOf(f, S \cup T) = CreditsOf(f, S) \cup CreditsOf(f, T)
  BY DEF CreditsOf
<1>2. CreditsOf(f, S) \cap CreditsOf(f, T) = {}
  BY DEF CreditsOf
<1>3. /\ IsFiniteSet(CreditsOf(f, S)) /\ IsFiniteSet(CreditsOf(f, T))
      /\ Cardinality(CreditsOf(f, S)) \in Nat /\ Cardinality(CreditsOf(f, T)) \in Nat
  BY TotalIsNat DEF Total
<1>4. Cardinality(CreditsOf(f, S) \cup CreditsOf(f, T))
        = Cardinality(CreditsOf(f, S)) + Cardinality(CreditsOf(f, T)) - Cardinality({})
  BY <1>2, <1>3, FS_Union
<1>5. Cardinality({}) = 0
  BY FS_EmptySet
<1>6. Total(f, S \cup T) = Total(f, S) + Total(f, T) - 0
  BY <1>1, <1>4, <1>5 DEF Total
<1> QED
  BY <1>3, <1>6 DEF Total

\* The sum over one element is the value there.
LEMMA TotalOfOne ==
  ASSUME NEW f, NEW x, f[x] \in Credits
  PROVE  Total(f, {x}) = f[x]
<1> DEFINE k == f[x]
<1>0. k \in Nat /\ k <= MaxCredit /\ MaxCredit \in Nat
  BY ConstantsAssumption DEF Credits
<1>1. CreditsOf(f, {x}) = {x} \X (1 .. k)
  BY <1>0 DEF CreditsOf
<1> HIDE DEF k
<1>2. IsFiniteSet(1 .. k) /\ Cardinality(1 .. k) = k
  <2>1. /\ IsFiniteSet(1 .. k)
        /\ Cardinality(1 .. k) = IF 1 > k THEN 0 ELSE k - 1 + 1
    BY <1>0, FS_Interval
  <2> QED
    BY <1>0, <2>1
<1>3. IsFiniteSet({x}) /\ Cardinality({x}) = 1
  BY FS_Singleton
<1>4. Cardinality({x} \X (1 .. k)) = 1 * k
  <2> DEFINE A == {x}
             B == 1 .. k
  <2>1. IsFiniteSet(A) /\ Cardinality(A) = 1 /\ IsFiniteSet(B) /\ Cardinality(B) = k
    BY <1>2, <1>3
  <2> HIDE DEF A, B
  <2>2. Cardinality(A \X B) = Cardinality(A) * Cardinality(B)
    BY <2>1, FS_Product
  <2> QED
    BY <2>1, <2>2 DEF A, B
<1>5. 1 * k = k
  BY <1>0
<1>6. Cardinality(CreditsOf(f, {x})) = 1 * k
  BY <1>1, <1>4
<1>7. Total(f, {x}) = k
  BY <1>5, <1>6 DEF Total
<1> QED
  BY <1>7 DEF k

\* A sum depends only on the values over its set.
LEMMA TotalOfSame ==
  ASSUME NEW f, NEW g, NEW S, \A x \in S : f[x] = g[x]
  PROVE  Total(f, S) = Total(g, S)
<1>1. CreditsOf(f, S) = CreditsOf(g, S)
  BY DEF CreditsOf
<1> QED
  BY <1>1 DEF Total

LEMMA TotalOfNone ==
  ASSUME NEW f
  PROVE  Total(f, {}) = 0
<1>1. CreditsOf(f, {}) = {}
  BY DEF CreditsOf
<1> QED
  BY <1>1, FS_EmptySet DEF Total

LEMMA FiniteBuckets == IsFiniteSet(BucketId)
<1>1. /\ IsFiniteSet({Trial}) /\ IsFiniteSet({"payment"})
      /\ IsFiniteSet({"adjustment"}) /\ IsFiniteSet({"refund"})
  BY FS_Singleton
<1>2. /\ IsFiniteSet({"payment"} \X Period) /\ IsFiniteSet({"adjustment"} \X Adjustment)
      /\ IsFiniteSet({"refund"} \X Reference)
  BY <1>1, FS_Product, ConstantsAssumption
<1>3. IsFiniteSet({Trial} \cup ({"payment"} \X Period))
  BY <1>1, <1>2, FS_Union
<1>4. IsFiniteSet(({Trial} \cup ({"payment"} \X Period)) \cup ({"adjustment"} \X Adjustment))
  BY <1>2, <1>3, FS_Union
<1> QED
  BY <1>2, <1>4, FS_Union DEF BucketId

LEMMA TakeBounds ==
  ASSUME NEW bk \in [BucketId -> Bucket], NEW b \in BucketId,
         NEW earlier \in SUBSET BucketId, NEW amount \in Nat
  PROVE  Take(bk, b, earlier, amount) \in 0 .. Min2(bk[b].available, amount)
<1>1. bk[b].available \in Nat
  BY DEF Bucket
<1>2. Available(bk, earlier) \in Nat
  <2>1. IsFiniteSet(earlier)
    BY FiniteBuckets, FS_Subset
  <2> QED
    BY <2>1, TotalIsNat DEF Available
<1> QED
  BY <1>1, <1>2 DEF Take, Min2, Max2

-----------------------------------------------------------------------------
(* What reservations hold of a bucket. *)

Holds == [Reference -> Hold]

LEMMA AllocatedIsNat ==
  ASSUME NEW h, NEW S \in SUBSET Reference, NEW b
  PROVE  Allocated(h, S, b) \in Nat
<1>1. IsFiniteSet(S)
  BY FS_Subset, ConstantsAssumption
<1> QED
  BY <1>1, TotalIsNat DEF Allocated

LEMMA AllocatedOfUnion ==
  ASSUME NEW h, NEW S \in SUBSET Reference, NEW T \in SUBSET Reference, S \cap T = {}, NEW b
  PROVE  Allocated(h, S \cup T, b) = Allocated(h, S, b) + Allocated(h, T, b)
<1>1. IsFiniteSet(S) /\ IsFiniteSet(T)
  BY FS_Subset, ConstantsAssumption
<1> QED
  BY <1>1, TotalOfUnion DEF Allocated

LEMMA AllocatedOfOne ==
  ASSUME NEW h \in Holds, NEW r \in Reference, NEW b \in BucketId
  PROVE  Allocated(h, {r}, b) = h[r].allocated[b]
<1> DEFINE f == [s \in Reference |-> h[s].allocated[b]]
<1>1. f[r] = h[r].allocated[b]
  OBVIOUS
<1>2. h[r].allocated[b] \in Credits
  BY DEF Holds, Hold, Allocation
<1>3. Total(f, {r}) = f[r]
  <2> HIDE DEF f
  <2> QED
    BY <1>1, <1>2, TotalOfOne
<1> QED
  BY <1>1, <1>3 DEF Allocated

LEMMA AllocatedOfSame ==
  ASSUME NEW h, NEW g, NEW S \in SUBSET Reference, NEW b,
         \A r \in S : h[r].allocated[b] = g[r].allocated[b]
  PROVE  Allocated(h, S, b) = Allocated(g, S, b)
<1> DEFINE fh == [r \in Reference |-> h[r].allocated[b]]
           fg == [r \in Reference |-> g[r].allocated[b]]
<1>1. \A r \in S : fh[r] = fg[r]
  OBVIOUS
<1>2. Total(fh, S) = Total(fg, S)
  <2> HIDE DEF fh, fg
  <2> QED
    BY <1>1, TotalOfSame
<1> QED
  BY <1>2 DEF Allocated

-----------------------------------------------------------------------------
(* The invariant of the rows, on the buckets and reservations of a         *)
(* transaction in progress.                                                *)

Buckets == [BucketId -> Bucket]

Charged(h) == WithStatus(h, "captured")

Sound(bk, h) ==
  \A b \in BucketId :
    /\ bk[b].reserved = Allocated(h, Reserved(h), b)
    /\ bk[b].available + bk[b].reserved + Allocated(h, Charged(h), b) <= bk[b].granted

\* Taking available credits away is always sound: an expiry, a debit, a
\* reversal.
LEMMA SoundDebit ==
  ASSUME NEW bk \in Buckets, NEW h \in Holds, Sound(bk, h), NEW bk2 \in Buckets,
         \A b \in BucketId : /\ bk2[b].granted = bk[b].granted
                             /\ bk2[b].reserved = bk[b].reserved
                             /\ bk2[b].available <= bk[b].available
  PROVE  Sound(bk2, h)
<1> SUFFICES ASSUME NEW b \in BucketId
             PROVE  /\ bk2[b].reserved = Allocated(h, Reserved(h), b)
                    /\ bk2[b].available + bk2[b].reserved + Allocated(h, Charged(h), b)
                         <= bk2[b].granted
  BY DEF Sound
<1>1. Allocated(h, Reserved(h), b) \in Nat /\ Allocated(h, Charged(h), b) \in Nat
  BY AllocatedIsNat DEF Reserved, Charged, WithStatus
<1>2. bk[b] \in Bucket /\ bk2[b] \in Bucket
  BY DEF Buckets
<1> QED
  BY <1>1, <1>2 DEF Sound, Bucket

LEMMA ExpiredSound ==
  ASSUME NEW bk \in Buckets, NEW h \in Holds, Sound(bk, h)
  PROVE  Expired(bk) \in Buckets /\ Sound(Expired(bk), h)
<1>1. Expired(bk) \in Buckets
  BY DEF Expired, Buckets, Bucket
<1>2. \A b \in BucketId : /\ Expired(bk)[b].granted = bk[b].granted
                          /\ Expired(bk)[b].reserved = bk[b].reserved
                          /\ Expired(bk)[b].available <= bk[b].available
  BY DEF Expired, Expirable, Buckets, Bucket
<1> QED
  BY <1>1, <1>2, SoundDebit

\* A grant is sound: the row of a new source was empty.
LEMMA GrantSound ==
  ASSUME NEW bk \in Buckets, NEW h \in Holds, Sound(bk, h),
         NEW c \in BucketId, NEW amount \in Nat, NEW expires \in Nat
  PROVE  Grant(bk, c, amount, expires) \in Buckets /\ Sound(Grant(bk, c, amount, expires), h)
<1> DEFINE bk2 == Grant(bk, c, amount, expires)
           age == 1 + Cardinality({b \in BucketId : bk[b].granted # 0})
           row == [granted |-> amount, available |-> amount, reserved |-> 0,
                   expires |-> expires, created |-> age]
<1>1. CASE bk[c].granted # 0
  BY <1>1 DEF Grant
<1>2. CASE bk[c].granted = 0
  <2>1. bk2 = [bk EXCEPT ![c] = row]
    BY <1>2 DEF Grant
  <2>2. age \in Nat
    <3>1. IsFiniteSet({b \in BucketId : bk[b].granted # 0})
      BY FiniteBuckets, FS_Subset
    <3> QED
      BY <3>1, FS_CardinalityType
  <2> HIDE DEF age
  <2>3. row \in Bucket
    BY <2>2 DEF Bucket
  <2>4. bk2 \in Buckets
    BY <2>1, <2>3 DEF Buckets
  <2>5. ASSUME NEW b \in BucketId
        PROVE  /\ bk2[b].reserved = Allocated(h, Reserved(h), b)
               /\ bk2[b].available + bk2[b].reserved + Allocated(h, Charged(h), b) <= bk2[b].granted
    <3>1. Allocated(h, Reserved(h), b) \in Nat /\ Allocated(h, Charged(h), b) \in Nat
      BY AllocatedIsNat DEF Reserved, Charged, WithStatus
    <3>2. bk[b] \in Bucket
      BY DEF Buckets
    <3>3. /\ bk[b].reserved = Allocated(h, Reserved(h), b)
          /\ bk[b].available + bk[b].reserved + Allocated(h, Charged(h), b) <= bk[b].granted
      BY DEF Sound
    <3>4. CASE b = c
      <4>1. Allocated(h, Reserved(h), b) = 0 /\ Allocated(h, Charged(h), b) = 0
        BY <1>2, <3>1, <3>2, <3>3, <3>4 DEF Bucket
      <4>2. bk2[b] = row
        BY <2>1, <3>4 DEF Buckets
      <4> QED
        BY <4>1, <4>2
    <3>5. CASE b # c
      <4>1. bk2[b] = bk[b]
        BY <2>1, <3>5 DEF Buckets
      <4> QED
        BY <3>3, <4>1
    <3> QED
      BY <3>4, <3>5
  <2> QED
    BY <2>4, <2>5 DEF Sound
<1> QED
  BY <1>1, <1>2

LEMMA TrialSound ==
  ASSUME NEW bk \in Buckets, NEW h \in Holds, Sound(bk, h), now \in Nat, NEW verified
  PROVE  WithTrial(bk, verified) \in Buckets /\ Sound(WithTrial(bk, verified), h)
<1>1. Trial \in BucketId /\ TrialGrant \in Nat /\ now + TrialDays \in Nat
  BY ConstantsAssumption DEF BucketId
<1> QED
  BY <1>1, GrantSound DEF WithTrial

-----------------------------------------------------------------------------
(* Ending reservations. *)

\* Reservations that agree on status and allocation are alike to the buckets.
LEMMA SoundOfAlike ==
  ASSUME NEW bk \in Buckets, NEW h \in Holds, Sound(bk, h), NEW g \in Holds,
         \A r \in Reference : /\ g[r].status = h[r].status
                              /\ g[r].allocated = h[r].allocated
  PROVE  Sound(bk, g)
<1>1. Reserved(g) = Reserved(h) /\ Charged(g) = Charged(h)
  BY DEF Reserved, Charged, WithStatus
<1>2. Reserved(h) \in SUBSET Reference /\ Charged(h) \in SUBSET Reference
  BY DEF Reserved, Charged, WithStatus
<1>3. \A b \in BucketId : /\ Allocated(g, Reserved(h), b) = Allocated(h, Reserved(h), b)
                          /\ Allocated(g, Charged(h), b) = Allocated(h, Charged(h), b)
  BY <1>2, AllocatedOfSame
<1> QED
  BY <1>1, <1>3 DEF Sound

\* Capturing C and releasing R, two disjoint sets of open reservations.
LEMMA SettleSound ==
  ASSUME bucket \in Buckets, hold \in Holds, Sound(bucket, hold),
         NEW C \in SUBSET Reserved(hold), NEW R \in SUBSET Reserved(hold), C \cap R = {}
  PROVE  /\ Settle(bucket, C, R) \in Buckets
         /\ Settled(C, R) \in Holds
         /\ Sound(Settle(bucket, C, R), Settled(C, R))
<1> DEFINE bk == Settle(bucket, C, R)
           g == Settled(C, R)
           K == Reserved(hold) \ (C \cup R)
<1>1. /\ C \in SUBSET Reference /\ R \in SUBSET Reference /\ K \in SUBSET Reference
      /\ Reserved(hold) \in SUBSET Reference /\ Charged(hold) \in SUBSET Reference
      /\ C \cup R \in SUBSET Reference
  BY DEF Reserved, Charged, WithStatus
<1>2. g \in Holds
  BY DEF Holds, Hold, Settled
<1>3. \A r \in Reference : g[r].allocated = hold[r].allocated
  BY DEF Holds, Hold, Settled
<1>4. Reserved(g) = K
  BY DEF Holds, Hold, Settled, Reserved, WithStatus
<1>5. Charged(g) = Charged(hold) \cup C /\ Charged(hold) \cap C = {}
  BY DEF Holds, Hold, Settled, Reserved, Charged, WithStatus
<1>6. ASSUME NEW b \in BucketId
      PROVE  /\ bk[b] \in Bucket
             /\ bk[b].reserved = Allocated(g, Reserved(g), b)
             /\ bk[b].available + bk[b].reserved + Allocated(g, Charged(g), b) <= bk[b].granted
  <2> DEFINE c == Allocated(hold, C, b)
             r == Allocated(hold, R, b)
             k == Allocated(hold, K, b)
             d == Allocated(hold, Charged(hold), b)
  <2>1. c \in Nat /\ r \in Nat /\ k \in Nat /\ d \in Nat
    BY <1>1, AllocatedIsNat
  <2>2. Allocated(hold, C \cup R, b) = c + r
    BY <1>1, AllocatedOfUnion
  <2>3. Allocated(hold, Reserved(hold), b) = c + r + k
    <3>1. Reserved(hold) = (C \cup R) \cup K /\ (C \cup R) \cap K = {}
      OBVIOUS
    <3>2. Allocated(hold, (C \cup R) \cup K, b) = Allocated(hold, C \cup R, b) + k
      BY <1>1, <3>1, AllocatedOfUnion
    <3> QED
      BY <2>2, <3>1, <3>2
  <2>4. Allocated(g, Reserved(g), b) = k
    BY <1>1, <1>3, <1>4, AllocatedOfSame
  <2>5. Allocated(g, Charged(g), b) = d + c
    <3>1. Allocated(g, Charged(hold) \cup C, b) = Allocated(hold, Charged(hold) \cup C, b)
      <4>1. Charged(hold) \cup C \in SUBSET Reference
        BY <1>1
      <4> QED
        BY <1>3, <4>1, AllocatedOfSame
    <3>2. Allocated(hold, Charged(hold) \cup C, b) = d + c
      BY <1>1, <1>5, AllocatedOfUnion
    <3> QED
      BY <1>5, <3>1, <3>2
  <2>6. bk[b] = [bucket[b] EXCEPT !.reserved = @ - (c + r), !.available = @ + r]
    BY <2>2 DEF Settle
  <2>7. /\ bucket[b] \in Bucket
        /\ bucket[b].reserved = c + r + k
        /\ bucket[b].available + bucket[b].reserved + d <= bucket[b].granted
    BY <2>3 DEF Sound, Buckets
  <2> HIDE DEF c, r, k, d, bk
  <2>8. /\ bk[b].granted = bucket[b].granted /\ bk[b].reserved = k
        /\ bk[b].available = bucket[b].available + r /\ bk[b] \in Bucket
    <3>1. /\ bk[b].granted = bucket[b].granted /\ bk[b].expires = bucket[b].expires
          /\ bk[b].created = bucket[b].created
          /\ bk[b].reserved = bucket[b].reserved - (c + r)
          /\ bk[b].available = bucket[b].available + r
          /\ bk[b] = [granted |-> bk[b].granted, available |-> bk[b].available,
                     reserved |-> bk[b].reserved, expires |-> bk[b].expires,
                     created |-> bk[b].created]
      BY <2>6, <2>7 DEF Bucket
    <3>2. /\ bucket[b].granted \in Nat /\ bucket[b].available \in Nat
          /\ bucket[b].expires \in Nat /\ bucket[b].created \in Nat
      BY <2>7 DEF Bucket
    <3>3. bk[b].reserved = k
      BY <2>1, <2>7, <3>1
    <3>4. bk[b].available = bucket[b].available + r /\ bk[b].available \in Nat
      BY <2>1, <3>1, <3>2
    <3> QED
      BY <2>1, <3>1, <3>2, <3>3, <3>4 DEF Bucket
  <2> QED
    BY <2>1, <2>4, <2>5, <2>7, <2>8 DEF Bucket
<1>7. bk \in Buckets
  BY <1>6 DEF Buckets, Settle
<1> QED
  BY <1>2, <1>6, <1>7 DEF Sound

-----------------------------------------------------------------------------
(* The inductive invariant: the type invariant and the two invariants of    *)
(* the buckets, each of which needs the others.                             *)

IInv ==
  /\ now \in 0 .. Horizon
  /\ account \in [status: {"active", "review"}, debt: Nat]
  /\ reversal \in [Period -> [amount: Nat, credits: Nat]]
  /\ bucket \in Buckets
  /\ hold \in Holds
  /\ Sound(bucket, hold)

LEMMA IInvImplies == IInv => TypeOK /\ HoldsBacked /\ NoCreditMinted
BY DEF IInv, TypeOK, HoldsBacked, NoCreditMinted, Buckets, Holds, Sound, Charged

LEMMA InitIInv == Init => IInv
<1> SUFFICES ASSUME Init PROVE IInv
  OBVIOUS
<1>1. now \in 0 .. Horizon
  BY ConstantsAssumption DEF Init
<1>2. Never \in Nat /\ 0 \in Credits
  BY ConstantsAssumption DEF Never, Credits
<1>3. bucket \in Buckets
  BY <1>2 DEF Init, Buckets, Bucket, NoBucket
<1>4. hold \in Holds
  BY <1>2 DEF Init, Holds, Hold, NoHold, NothingAllocated, Allocation
<1>5. Reserved(hold) = {} /\ Charged(hold) = {}
  BY DEF Init, Reserved, Charged, WithStatus, NoHold
<1>6. \A b \in BucketId : Allocated(hold, {}, b) = 0
  BY TotalOfNone DEF Allocated
<1>7. Sound(bucket, hold)
  <2>1. \A b \in BucketId : /\ bucket[b].reserved = 0 /\ bucket[b].available = 0
                            /\ bucket[b].granted = 0
    BY DEF Init, NoBucket
  <2> QED
    BY <1>5, <1>6, <2>1 DEF Sound
<1>8. /\ account \in [status: {"active", "review"}, debt: Nat]
      /\ reversal \in [Period -> [amount: Nat, credits: Nat]]
  BY DEF Init
<1> QED
  BY <1>1, <1>3, <1>4, <1>7, <1>8 DEF IInv

\* A new reservation of r that takes spend out of the buckets.
LEMMA HoldSound ==
  ASSUME NEW bk \in Buckets, NEW h \in Holds, Sound(bk, h),
         NEW r \in Reference, h[r].status = "none",
         NEW spend \in Allocation, \A b \in BucketId : spend[b] <= bk[b].available,
         NEW expires \in Nat
  PROVE  LET bk2 == [b \in BucketId |-> [bk[b] EXCEPT !.available = @ - spend[b],
                                                      !.reserved = @ + spend[b]]]
             h2 == [h EXCEPT ![r] = [status |-> "reserved", allocated |-> spend,
                                     expires |-> expires]]
         IN  bk2 \in Buckets /\ h2 \in Holds /\ Sound(bk2, h2)
<1> DEFINE bk2 == [b \in BucketId |-> [bk[b] EXCEPT !.available = @ - spend[b],
                                                    !.reserved = @ + spend[b]]]
           new == [status |-> "reserved", allocated |-> spend, expires |-> expires]
           h2 == [h EXCEPT ![r] = new]
<1>1. new \in Hold
  BY DEF Hold
<1>2. h2 \in Holds
  BY <1>1 DEF Holds
<1>3. h2[r] = new /\ \A s \in Reference \ {r} : h2[s] = h[s]
  BY DEF Holds
<1>4. /\ Reserved(h) \in SUBSET Reference /\ Charged(h) \in SUBSET Reference
      /\ r \notin Reserved(h) /\ r \notin Charged(h)
  BY DEF Reserved, Charged, WithStatus
<1>5. Reserved(h2) = Reserved(h) \cup {r} /\ Charged(h2) = Charged(h)
  <2> HIDE DEF h2
  <2>1. h2[r].status = "reserved" /\ \A s \in Reference \ {r} : h2[s].status = h[s].status
    BY <1>3
  <2> QED
    BY <2>1 DEF Reserved, Charged, WithStatus
<1>6. ASSUME NEW b \in BucketId
      PROVE  /\ bk2[b] \in Bucket
             /\ bk2[b].reserved = Allocated(h2, Reserved(h2), b)
             /\ bk2[b].available + bk2[b].reserved + Allocated(h2, Charged(h2), b)
                  <= bk2[b].granted
  <2> HIDE DEF h2
  <2>1. Allocated(h2, Reserved(h), b) = Allocated(h, Reserved(h), b)
        /\ Allocated(h2, Charged(h), b) = Allocated(h, Charged(h), b)
    BY <1>3, <1>4, AllocatedOfSame
  <2>2. Allocated(h2, {r}, b) = spend[b]
    BY <1>2, <1>3, AllocatedOfOne
  <2>3. Allocated(h2, Reserved(h) \cup {r}, b) = Allocated(h, Reserved(h), b) + spend[b]
    <3>1. {r} \in SUBSET Reference /\ Reserved(h) \cap {r} = {}
      BY <1>4
    <3> QED
      BY <1>4, <2>1, <2>2, <3>1, AllocatedOfUnion
  <2>4. Allocated(h, Reserved(h), b) \in Nat /\ Allocated(h, Charged(h), b) \in Nat
    BY <1>4, AllocatedIsNat
  <2>5. /\ spend[b] \in Nat /\ spend[b] <= bk[b].available /\ bk[b] \in Bucket
        /\ bk[b].reserved = Allocated(h, Reserved(h), b)
        /\ bk[b].available + bk[b].reserved + Allocated(h, Charged(h), b) <= bk[b].granted
    BY ConstantsAssumption DEF Allocation, Credits, Buckets, Sound
  <2>6. /\ bk2[b].granted = bk[b].granted
        /\ bk2[b].available = bk[b].available - spend[b]
        /\ bk2[b].reserved = bk[b].reserved + spend[b]
        /\ bk2[b] \in Bucket
    <3>1. bk2[b] = [bk[b] EXCEPT !.available = @ - spend[b], !.reserved = @ + spend[b]]
      OBVIOUS
    <3> HIDE DEF bk2
    <3>2. /\ bk2[b].granted = bk[b].granted /\ bk2[b].expires = bk[b].expires
          /\ bk2[b].created = bk[b].created
          /\ bk2[b].available = bk[b].available - spend[b]
          /\ bk2[b].reserved = bk[b].reserved + spend[b]
          /\ bk2[b] = [granted |-> bk2[b].granted, available |-> bk2[b].available,
                      reserved |-> bk2[b].reserved, expires |-> bk2[b].expires,
                      created |-> bk2[b].created]
      BY <2>5, <3>1 DEF Bucket
    <3>3. /\ bk[b].granted \in Nat /\ bk[b].available \in Nat /\ bk[b].reserved \in Nat
          /\ bk[b].expires \in Nat /\ bk[b].created \in Nat
      BY <2>5 DEF Bucket
    <3>4. bk2[b].available \in Nat /\ bk2[b].reserved \in Nat
      BY <2>5, <3>2, <3>3
    <3> QED
      BY <3>2, <3>3, <3>4 DEF Bucket
  <2> HIDE DEF bk2
  <2> QED
    BY <1>5, <2>1, <2>3, <2>4, <2>5, <2>6 DEF Bucket
<1>7. bk2 \in Buckets
  BY <1>6 DEF Buckets
<1> QED
  BY <1>2, <1>6, <1>7 DEF Sound

-----------------------------------------------------------------------------
(* Every transaction preserves the invariant. *)

LEMMA CreditAccountStep ==
  ASSUME IInv, NEW verified \in BOOLEAN, CreditAccount(verified)
  PROVE  IInv'
<1> DEFINE bk == WithTrial(bucket, verified)
<1>1. now \in Nat /\ bucket \in Buckets /\ hold \in Holds /\ Sound(bucket, hold)
  BY ConstantsAssumption DEF IInv
<1>2. bk \in Buckets /\ Sound(bk, hold)
  BY <1>1, TrialSound
<1> HIDE DEF bk
<1>3. Expired(bk) \in Buckets /\ Sound(Expired(bk), hold)
  BY <1>1, <1>2, ExpiredSound
<1>4. bucket' = Expired(bk) /\ UNCHANGED <<now, hold, account, reversal>>
  BY DEF CreditAccount, bk
<1> QED
  BY <1>3, <1>4 DEF IInv

LEMMA ReserveStep ==
  ASSUME IInv, NEW r \in Reference, NEW verified \in BOOLEAN, Reserve(r, verified)
  PROVE  IInv'
<1> DEFINE granted == WithTrial(bucket, verified)
           live == Expired(granted)
           spend == Spend(live, Cost[r])
<1>1. now \in Nat /\ bucket \in Buckets /\ hold \in Holds /\ Sound(bucket, hold)
  BY ConstantsAssumption DEF IInv
<1>2. granted \in Buckets /\ Sound(granted, hold)
  BY <1>1, TrialSound
<1>3. CASE hold[r].status # "none"
  <2>1. bucket' = granted /\ UNCHANGED <<now, hold, account, reversal>>
    BY <1>3 DEF Reserve
  <2> HIDE DEF granted
  <2> QED
    BY <1>2, <2>1 DEF IInv
<1>4. CASE hold[r].status = "none"
  <2>1. live \in Buckets /\ Sound(live, hold)
    <3> HIDE DEF granted
    <3> QED
      BY <1>1, <1>2, ExpiredSound
  <2>2. /\ bucket' = [b \in BucketId |-> [live[b] EXCEPT !.available = @ - spend[b],
                                                        !.reserved = @ + spend[b]]]
        /\ hold' = [hold EXCEPT ![r] = [status |-> "reserved", allocated |-> spend,
                                       expires |-> now + HoldTime]]
        /\ UNCHANGED <<now, account, reversal>>
    BY <1>4 DEF Reserve
  <2> HIDE DEF live
  <2>3. Cost[r] \in Nat /\ Cost[r] <= MaxCredit /\ now + HoldTime \in Nat
    BY <1>1, ConstantsAssumption
  <2>4. ASSUME NEW b \in BucketId
        PROVE  spend[b] \in Credits /\ spend[b] <= live[b].available
    <3> DEFINE earlier == {c \in BucketId : SpentBefore(live, c, b)}
    <3>1. spend[b] = Take(live, b, earlier, Cost[r])
      BY DEF Spend
    <3>2. Take(live, b, earlier, Cost[r]) \in 0 .. Min2(live[b].available, Cost[r])
      BY <2>1, <2>3, TakeBounds DEF Buckets
    <3>3. live[b].available \in Nat
      BY <2>1 DEF Buckets, Bucket
    <3> QED
      BY <2>3, <3>1, <3>2, <3>3, ConstantsAssumption DEF Min2, Credits
  <2>5. spend \in Allocation
    BY <2>4 DEF Spend, Allocation
  <2> HIDE DEF spend
  <2>6. bucket' \in Buckets /\ hold' \in Holds /\ Sound(bucket', hold')
    BY <1>1, <1>4, <2>1, <2>2, <2>3, <2>4, <2>5, HoldSound
  <2> QED
    BY <2>2, <2>6 DEF IInv
<1> QED
  BY <1>3, <1>4

LEMMA CaptureStep ==
  ASSUME IInv, NEW r \in Reference, Capture(r)
  PROVE  IInv'
<1>1. {r} \in SUBSET Reserved(hold) /\ {} \in SUBSET Reserved(hold) /\ {r} \cap {} = {}
  BY DEF Capture, Reserved, WithStatus
<1>2. bucket' \in Buckets /\ hold' \in Holds /\ Sound(bucket', hold')
  BY <1>1, SettleSound DEF IInv, Capture
<1> QED
  BY <1>2 DEF IInv, Capture

LEMMA ReleaseStep ==
  ASSUME IInv, NEW r \in Reference, Release(r)
  PROVE  IInv'
<1>1. {r} \in SUBSET Reserved(hold) /\ {} \in SUBSET Reserved(hold) /\ {} \cap {r} = {}
  BY DEF Release, Reserved, WithStatus
<1>2. bucket' \in Buckets /\ hold' \in Holds /\ Sound(bucket', hold')
  BY <1>1, SettleSound DEF IInv, Release
<1> QED
  BY <1>2 DEF IInv, Release

LEMMA ReconcileStep ==
  ASSUME IInv, NEW C \in SUBSET Overdue, NEW R \in SUBSET (Overdue \ C),
         NEW D \in SUBSET (Overdue \ (C \cup R)), ReconcileExpiredReservations(C, R, D)
  PROVE  IInv'
<1> DEFINE g == Settled(C, R)
<1>1. C \in SUBSET Reserved(hold) /\ R \in SUBSET Reserved(hold) /\ C \cap R = {}
  BY DEF Overdue
<1>2. bucket' \in Buckets /\ g \in Holds /\ Sound(bucket', g)
  BY <1>1, SettleSound DEF IInv, ReconcileExpiredReservations
<1>3. hold' = [r \in Reference |->
                 IF r \in D THEN [hold[r] EXCEPT !.expires = now + DeferTime]
                 ELSE g[r]]
  BY DEF ReconcileExpiredReservations, Reconciled
<1>4. \A r \in D : g[r] = hold[r]
  BY DEF Settled, Overdue, Reserved, WithStatus
<1>5. now + DeferTime \in Nat
  BY ConstantsAssumption DEF IInv
<1> HIDE DEF g
<1>6. \A r \in Reference : /\ hold'[r] \in Hold
                           /\ hold'[r].status = g[r].status
                           /\ hold'[r].allocated = g[r].allocated
  BY <1>2, <1>3, <1>4, <1>5 DEF Holds, Hold
<1>7. hold' \in Holds
  BY <1>3, <1>6 DEF Holds
<1>8. Sound(bucket', hold')
  BY <1>2, <1>6, <1>7, SoundOfAlike
<1> QED
  BY <1>2, <1>7, <1>8 DEF IInv, ReconcileExpiredReservations

LEMMA PaymentSucceededStep ==
  ASSUME IInv, NEW p \in Period, PaymentSucceeded(p)
  PROVE  IInv'
<1> DEFINE expires == IF PeriodKind[p] = "subscription" THEN now + PeriodDays ELSE Never
<1>1. PaymentBucket(p) \in BucketId /\ PeriodGrant[p] \in Nat /\ expires \in Nat
  BY ConstantsAssumption DEF IInv, BucketId, PaymentBucket, Never
<1>2. bucket' = Grant(bucket, PaymentBucket(p), PeriodGrant[p], expires)
  BY DEF PaymentSucceeded
<1> HIDE DEF expires
<1>3. bucket' \in Buckets /\ Sound(bucket', hold)
  BY <1>1, <1>2, GrantSound DEF IInv
<1> QED
  BY <1>3 DEF IInv, PaymentSucceeded

\* Refund puts captured credits back into the buckets that have not expired.
Lapsed == {b \in BucketId : bucket[b].expires <= now}
Returned(r) ==
  [b \in BucketId |->
     IF b \in Lapsed THEN bucket[b]
     ELSE [bucket[b] EXCEPT !.available = @ + hold[r].allocated[b]]]

LEMMA ReturnedSound ==
  ASSUME IInv, NEW r \in Reference, hold[r].status = "captured"
  PROVE  LET g == [hold EXCEPT ![r].status = "refunded"]
         IN  Returned(r) \in Buckets /\ g \in Holds /\ Sound(Returned(r), g)
<1> DEFINE returned == Returned(r)
           g == [hold EXCEPT ![r].status = "refunded"]
           K == Charged(hold) \ {r}
<1>1. bucket \in Buckets /\ hold \in Holds /\ Sound(bucket, hold)
  BY DEF IInv
<1>3. g \in Holds /\ \A s \in Reference : g[s].allocated = hold[s].allocated
  BY <1>1 DEF Holds, Hold
<1>4. /\ Reserved(g) = Reserved(hold) /\ Charged(g) = K
      /\ Charged(hold) = K \cup {r} /\ K \cap {r} = {}
      /\ Reserved(hold) \in SUBSET Reference /\ K \in SUBSET Reference
      /\ {r} \in SUBSET Reference
  BY <1>1 DEF Holds, Hold, Reserved, Charged, WithStatus
<1>5. ASSUME NEW b \in BucketId
      PROVE  /\ returned[b] \in Bucket
             /\ returned[b].reserved = Allocated(g, Reserved(g), b)
             /\ returned[b].available + returned[b].reserved + Allocated(g, Charged(g), b)
                  <= returned[b].granted
  <2> DEFINE a == hold[r].allocated[b]
             k == Allocated(hold, K, b)
             v == Allocated(hold, Reserved(hold), b)
  <2>1. a \in Nat
    BY <1>1, ConstantsAssumption DEF Holds, Hold, Allocation, Credits
  <2>2. k \in Nat /\ v \in Nat
    BY <1>4, AllocatedIsNat
  <2>3. Allocated(hold, Charged(hold), b) = k + a
    <3>1. Allocated(hold, {r}, b) = a
      BY <1>1, AllocatedOfOne
    <3>2. Allocated(hold, K \cup {r}, b) = k + Allocated(hold, {r}, b)
      BY <1>4, AllocatedOfUnion
    <3> QED
      BY <1>4, <3>1, <3>2
  <2>4. Allocated(g, Reserved(g), b) = v /\ Allocated(g, Charged(g), b) = k
    <3> HIDE DEF g, K
    <3>1. Allocated(hold, Reserved(hold), b) = Allocated(g, Reserved(hold), b)
      BY <1>3, <1>4, AllocatedOfSame
    <3>2. Allocated(hold, K, b) = Allocated(g, K, b)
      BY <1>3, <1>4, AllocatedOfSame
    <3> QED
      BY <1>4, <3>1, <3>2
  <2>5. /\ bucket[b] \in Bucket /\ bucket[b].reserved = v
        /\ bucket[b].available + bucket[b].reserved + (k + a) <= bucket[b].granted
    BY <1>1, <2>3 DEF Buckets, Sound
  <2>6. returned[b] = IF b \in Lapsed THEN bucket[b]
                      ELSE [bucket[b] EXCEPT !.available = @ + a]
    BY DEF Returned
  <2> HIDE DEF a, k, v, returned
  <2>7. /\ returned[b].granted = bucket[b].granted /\ returned[b].reserved = bucket[b].reserved
        /\ returned[b].available \in {bucket[b].available, bucket[b].available + a}
        /\ returned[b] \in Bucket
    <3>1. CASE b \in Lapsed
      BY <2>5, <2>6, <3>1
    <3>2. CASE b \notin Lapsed
      BY <2>1, <2>5, <2>6, <3>2 DEF Bucket
    <3> QED
      BY <3>1, <3>2
  <2> QED
    BY <2>1, <2>2, <2>4, <2>5, <2>7 DEF Bucket
<1>6. returned \in Buckets
  BY <1>5 DEF Buckets, Returned
<1>7. Sound(returned, g)
  BY <1>5 DEF Sound
<1> QED
  BY <1>3, <1>6, <1>7

LEMMA RefundStep ==
  ASSUME IInv, NEW r \in Reference, Refund(r)
  PROVE  IInv'
<1> DEFINE rest == Total(hold[r].allocated, Lapsed)
           g == [hold EXCEPT ![r].status = "refunded"]
<1>1. /\ hold[r].status = "captured"
      /\ bucket' = IF rest = 0 THEN Returned(r)
                   ELSE Grant(Returned(r), RefundBucket(r), rest, Never)
      /\ hold' = g
      /\ UNCHANGED <<now, account, reversal>>
  BY DEF Refund, Returned, Lapsed
<1>2. Returned(r) \in Buckets /\ g \in Holds /\ Sound(Returned(r), g)
  BY <1>1, ReturnedSound
<1>3. rest \in Nat
  <2>1. IsFiniteSet(Lapsed)
    BY FiniteBuckets, FS_Subset DEF Lapsed
  <2> QED
    BY <2>1, TotalIsNat
<1>4. RefundBucket(r) \in BucketId /\ Never \in Nat
  BY ConstantsAssumption DEF BucketId, RefundBucket, Never
<1> HIDE DEF rest, g
<1>5. bucket' \in Buckets /\ Sound(bucket', hold')
  BY <1>1, <1>2, <1>3, <1>4, GrantSound
<1> QED
  BY <1>1, <1>2, <1>5 DEF IInv

LEMMA CumulativeCreditsIsNat ==
  ASSUME NEW granted \in Nat, NEW amount \in Nat, NEW price \in Nat \ {0}
  PROVE  CumulativeCredits(granted, amount, price) \in Nat
<1>1. granted * amount \in Nat
  OBVIOUS
<1> DEFINE dividend == granted * amount + price - 1
<1>2. dividend \in Nat
  BY <1>1
<1> HIDE DEF dividend
<1>3. dividend \div price \in Nat
  BY <1>2
<1> QED
  BY <1>3 DEF CumulativeCredits, Min2, dividend

\* A reversal releases the holds on its bucket and takes at most what is
\* available then.
LEMMA PaymentReversedStep ==
  ASSUME IInv, NEW p \in Period, NEW amount \in 1 .. PeriodPrice[p], PaymentReversed(p, amount)
  PROVE  IInv'
<1> DEFINE b == PaymentBucket(p)
           cumulative == reversal[p].amount + amount
           credits == CumulativeCredits(bucket[b].granted, cumulative, PeriodPrice[p])
           due == credits - reversal[p].credits
           R == OpenHolds(b)
           freed == Settle(bucket, {}, R)
           unspent == Min2(freed[b].available, due)
           debt == due - unspent
<1>1. /\ credits >= reversal[p].credits
      /\ reversal' = [reversal EXCEPT ![p] = [amount |-> cumulative, credits |-> credits]]
      /\ bucket' = [freed EXCEPT ![b].available = @ - unspent]
      /\ hold' = Settled({}, R)
      /\ account' = IF debt = 0 THEN account
                    ELSE [status |-> "review", debt |-> account.debt + debt]
      /\ now' = now
  BY DEF PaymentReversed
<1>2. b \in BucketId /\ R \in SUBSET Reserved(hold) /\ {} \in SUBSET Reserved(hold)
      /\ {} \cap R = {}
  BY DEF PaymentBucket, BucketId, OpenHolds
<1>3. freed \in Buckets /\ hold' \in Holds /\ Sound(freed, hold')
  BY <1>1, <1>2, SettleSound DEF IInv
<1>4. /\ cumulative \in Nat /\ PeriodPrice[p] \in Nat \ {0} /\ bucket[b].granted \in Nat
      /\ reversal[p].credits \in Nat
  BY <1>2, ConstantsAssumption DEF IInv, Buckets, Bucket
<1>5. credits \in Nat
  <2> HIDE DEF cumulative, b
  <2> QED
    BY <1>4, CumulativeCreditsIsNat
<1> HIDE DEF b, cumulative, credits, R, freed
<1>6. due \in Nat
  BY <1>1, <1>4, <1>5
<1>7. freed[b].available \in Nat
  BY <1>2, <1>3 DEF Buckets, Bucket
<1> HIDE DEF due
<1>8. unspent \in Nat /\ unspent <= freed[b].available /\ debt \in Nat
  BY <1>6, <1>7 DEF Min2
<1> HIDE DEF unspent, debt
<1>9. bucket' \in Buckets
  BY <1>1, <1>2, <1>3, <1>8 DEF Buckets, Bucket
<1>10. Sound(bucket', hold')
  <2>1. \A c \in BucketId : /\ bucket'[c].granted = freed[c].granted
                            /\ bucket'[c].reserved = freed[c].reserved
                            /\ bucket'[c].available <= freed[c].available
    BY <1>1, <1>2, <1>3, <1>8 DEF Buckets, Bucket
  <2> QED
    BY <1>3, <1>9, <2>1, SoundDebit
<1>11. account' \in [status: {"active", "review"}, debt: Nat]
  BY <1>1, <1>8 DEF IInv
<1>12. reversal' \in [Period -> [amount: Nat, credits: Nat]]
  BY <1>1, <1>4, <1>5 DEF IInv
<1> QED
  BY <1>1, <1>3, <1>9, <1>10, <1>11, <1>12 DEF IInv

LEMMA AdjustStep ==
  ASSUME IInv, NEW a \in Adjustment, Adjust(a)
  PROVE  IInv'
<1> DEFINE amount == AdjustmentAmount[a]
           drain == Drain(bucket, -amount)
<1>1. amount \in Int /\ bucket \in Buckets /\ hold \in Holds /\ Sound(bucket, hold)
  BY ConstantsAssumption DEF IInv
<1>2. CASE amount > 0 /\ bucket' = Grant(bucket, AdjustmentBucket(a), amount, Never)
  <2>1. AdjustmentBucket(a) \in BucketId /\ Never \in Nat /\ amount \in Nat
    BY <1>1, <1>2, ConstantsAssumption DEF BucketId, AdjustmentBucket, Never
  <2>2. bucket' \in Buckets /\ Sound(bucket', hold)
    BY <1>1, <1>2, <2>1, GrantSound
  <2> QED
    BY <2>2 DEF IInv, Adjust
<1>3. CASE /\ amount < 0
           /\ bucket' = [b \in BucketId |-> [bucket[b] EXCEPT !.available = @ - drain[b]]]
  <2> HIDE DEF amount
  <2>1. ASSUME NEW b \in BucketId
        PROVE  drain[b] \in Nat /\ drain[b] <= bucket[b].available
    <3> DEFINE earlier == {c \in BucketId : OlderThan(bucket, c, b)}
    <3>1. drain[b] = Take(bucket, b, earlier, -amount)
      BY DEF Drain
    <3>2. -amount \in Nat
      BY <1>1, <1>3
    <3>3. Take(bucket, b, earlier, -amount) \in 0 .. Min2(bucket[b].available, -amount)
      <4> earlier \in SUBSET BucketId
        OBVIOUS
      <4> HIDE DEF earlier
      <4> DEFINE n == -amount
      <4>1. n \in Nat
        BY <3>2
      <4> HIDE DEF n
      <4>2. Take(bucket, b, earlier, n) \in 0 .. Min2(bucket[b].available, n)
        BY <1>1, <4>1, TakeBounds DEF Buckets
      <4> QED
        BY <4>2 DEF n
    <3>4. bucket[b].available \in Nat
      BY <1>1 DEF Buckets, Bucket
    <3> QED
      BY <3>1, <3>2, <3>3, <3>4 DEF Min2
  <2> HIDE DEF drain
  <2>2. bucket' \in Buckets
    BY <1>1, <1>3, <2>1 DEF Buckets, Bucket
  <2>3. \A b \in BucketId : /\ bucket'[b].granted = bucket[b].granted
                            /\ bucket'[b].reserved = bucket[b].reserved
                            /\ bucket'[b].available <= bucket[b].available
    BY <1>1, <1>3, <2>1 DEF Buckets, Bucket
  <2>4. Sound(bucket', hold)
    BY <1>1, <2>2, <2>3, SoundDebit
  <2> QED
    BY <2>2, <2>4 DEF IInv, Adjust
<1> QED
  BY <1>2, <1>3 DEF Adjust

LEMMA TickStep == IInv /\ Tick => IInv'
BY ConstantsAssumption DEF IInv, Tick

LEMMA IInvInductive == IInv /\ [Next]_vars => IInv'
<1> SUFFICES ASSUME IInv, [Next]_vars PROVE IInv'
  OBVIOUS
<1>1. ASSUME NEW verified \in BOOLEAN, CreditAccount(verified) PROVE IInv'
  BY <1>1, CreditAccountStep
<1>2. ASSUME NEW r \in Reference, NEW verified \in BOOLEAN, Reserve(r, verified) PROVE IInv'
  BY <1>2, ReserveStep
<1>3. ASSUME NEW r \in Reference, Capture(r) \/ Release(r) \/ Refund(r) PROVE IInv'
  BY <1>3, CaptureStep, ReleaseStep, RefundStep
<1>4. ASSUME NEW C \in SUBSET Overdue, NEW R \in SUBSET (Overdue \ C),
             NEW D \in SUBSET (Overdue \ (C \cup R)), ReconcileExpiredReservations(C, R, D)
      PROVE  IInv'
  BY <1>4, ReconcileStep
<1>5. ASSUME NEW p \in Period, PaymentSucceeded(p) PROVE IInv'
  BY <1>5, PaymentSucceededStep
<1>6. ASSUME NEW p \in Period, NEW amount \in 1 .. PeriodPrice[p], PaymentReversed(p, amount)
      PROVE  IInv'
  BY <1>6, PaymentReversedStep
<1>7. ASSUME NEW a \in Adjustment, Adjust(a) PROVE IInv'
  BY <1>7, AdjustStep
<1>8. CASE Tick
  BY <1>8, TickStep
<1>9. CASE UNCHANGED vars
  BY <1>9 DEF vars, IInv
<1> QED
  BY <1>1, <1>2, <1>3, <1>4, <1>5, <1>6, <1>7, <1>8, <1>9 DEF Next

LEMMA AlwaysIInv == Spec => []IInv
BY InitIInv, IInvInductive, PTL DEF Spec

-----------------------------------------------------------------------------
(* The theorems. *)

\* Every row keeps its type: no balance, hold, debt or reversed amount of
\* any account ever becomes negative (services/product_billing.py has no
\* CHECK constraint behind it).
THEOREM TypeCorrect == Spec => []TypeOK
BY AlwaysIInv, IInvImplies, PTL

\* What a bucket has reserved is what the open reservations hold of it, for
\* any number of reservations ended in any way and order.
THEOREM HoldsAreBacked == Spec => []HoldsBacked
BY AlwaysIInv, IInvImplies, PTL

\* No sequence of releases, refunds, reversals and adjustments makes more of
\* a bucket than was granted to it.
THEOREM NoCreditIsMinted == Spec => []NoCreditMinted
BY AlwaysIInv, IInvImplies, PTL

-----------------------------------------------------------------------------
(* Induction, as the existence of a least counterexample.                  *)

\* Every set of natural numbers that is not empty has a least element.
LEMMA LeastNat ==
  ASSUME NEW T, T \subseteq Nat, T # {}
  PROVE  \E x \in T : \A y \in T : x <= y
<1> DEFINE R == {ss \in Nat \X Nat : ss[1] < ss[2]}
<1>1. OpToRel(<, Nat) = R
  BY DEF OpToRel
<1>2. IsWellFoundedOn(R, Nat)
  BY <1>1, NatLessThanWellFounded
<1> HIDE DEF R
<1>3. PICK x \in T : \A y \in T : ~ (<<y, x>> \in R)
  BY <1>2, WFMin
<1>4. ASSUME NEW y \in T PROVE x <= y
  <2>1. ~ (<<y, x>> \in R)
    BY <1>3
  <2>2. x \in Nat /\ y \in Nat
    OBVIOUS
  <2>3. ~ (y < x)
    BY <2>1, <2>2 DEF R
  <2> QED
    BY <2>2, <2>3
<1> QED
  BY <1>3, <1>4

\* Of the sets in F, all finite, one has the fewest elements.
LEMMA SmallestSet ==
  ASSUME NEW F, F # {}, \A U \in F : IsFiniteSet(U)
  PROVE  \E U \in F : \A V \in F : Cardinality(U) <= Cardinality(V)
<1> DEFINE sizes == {Cardinality(U) : U \in F}
<1>1. sizes \subseteq Nat /\ sizes # {}
  BY FS_CardinalityType
<1>2. PICK n \in sizes : \A m \in sizes : n <= m
  <2> HIDE DEF sizes
  <2> QED BY <1>1, LeastNat
<1> QED
  BY <1>2

\* Induction over the subsets of a finite set: were one outside H, the
\* smallest of them would have an element to leave out.
LEMMA SubsetInduction ==
  ASSUME NEW S, IsFiniteSet(S), NEW H, {} \in H,
         \A U \in SUBSET S : \A x \in S \ U : U \in H => U \cup {x} \in H
  PROVE  \A U \in SUBSET S : U \in H
<1> DEFINE F == {U \in SUBSET S : U \notin H}
<1> SUFFICES ASSUME F # {} PROVE FALSE
  OBVIOUS
<1>1. \A U \in F : IsFiniteSet(U)
  BY FS_Subset
<1>2. PICK U \in F : \A V \in F : Cardinality(U) <= Cardinality(V)
  <2> HIDE DEF F
  <2> QED
    BY <1>1, SmallestSet
<1>3. PICK x \in U : TRUE
  OBVIOUS
<1>4. Cardinality(U \ {x}) = Cardinality(U) - 1 /\ Cardinality(U) \in Nat
  BY <1>1, FS_RemoveElement, FS_CardinalityType
<1>5. U \ {x} \in SUBSET S /\ x \in S \ (U \ {x}) /\ (U \ {x}) \cup {x} = U
  OBVIOUS
<1>6. U \ {x} \in H
  BY <1>2, <1>4, <1>5
<1> QED
  BY <1>5, <1>6

-----------------------------------------------------------------------------
(* More about sums.                                                        *)

LEMMA TotalWithOneMore ==
  ASSUME NEW f, NEW U, IsFiniteSet(U), NEW x, x \notin U, f[x] \in Credits
  PROVE  Total(f, U \cup {x}) = Total(f, U) + f[x] /\ Total(f, U) \in Nat
<1>1. IsFiniteSet({x}) /\ U \cap {x} = {}
  BY FS_Singleton
<1>2. Total(f, {x}) = f[x]
  BY TotalOfOne
<1> QED
  BY <1>1, <1>2, TotalOfUnion, TotalIsNat

\* The sum of a function that is nowhere positive is 0.
LEMMA TotalOfNothing ==
  ASSUME NEW f, NEW S, \A x \in S : f[x] \in Int /\ f[x] <= 0
  PROVE  Total(f, S) = 0
<1>1. CreditsOf(f, S) = {}
  <2> SUFFICES ASSUME NEW u \in CreditsOf(f, S) PROVE FALSE
    OBVIOUS
  <2>1. u[1] \in S /\ u[2] \in 1 .. MaxCredit /\ u[2] <= f[u[1]]
    BY DEF CreditsOf
  <2> QED
    BY <2>1, ConstantsAssumption
<1> QED
  BY <1>1, FS_EmptySet DEF Total

LEMMA TotalOfSubset ==
  ASSUME NEW f, NEW T, IsFiniteSet(T), NEW S \in SUBSET T
  PROVE  Total(f, S) <= Total(f, T)
<1>1. CreditsOf(f, S) \in SUBSET CreditsOf(f, T)
  BY DEF CreditsOf
<1>2. IsFiniteSet(CreditsOf(f, T))
  BY TotalIsNat
<1> QED
  BY <1>1, <1>2, FS_Subset DEF Total

\* The sum of f + g is the sum of f plus the sum of g.
LEMMA TotalOfSum ==
  ASSUME NEW f, NEW g, NEW h, NEW S, IsFiniteSet(S),
         \A x \in S : /\ f[x] \in Credits /\ g[x] \in Credits /\ h[x] \in Credits
                      /\ h[x] = f[x] + g[x]
  PROVE  Total(h, S) = Total(f, S) + Total(g, S)
<1> DEFINE H == {U \in SUBSET S : Total(h, U) = Total(f, U) + Total(g, U)}
<1>1. {} \in H
  BY TotalOfNone
<1>2. ASSUME NEW U \in SUBSET S, NEW x \in S \ U, U \in H
      PROVE  U \cup {x} \in H
  <2>1. IsFiniteSet(U) /\ x \notin U
    BY FS_Subset
  <2>2. /\ Total(f, U \cup {x}) = Total(f, U) + f[x] /\ Total(f, U) \in Nat
        /\ Total(g, U \cup {x}) = Total(g, U) + g[x] /\ Total(g, U) \in Nat
        /\ Total(h, U \cup {x}) = Total(h, U) + h[x]
    BY <2>1, TotalWithOneMore
  <2>3. /\ f[x] \in Nat /\ g[x] \in Nat /\ h[x] = f[x] + g[x]
        /\ Total(h, U) = Total(f, U) + Total(g, U)
    BY <1>2, ConstantsAssumption DEF Credits
  <2>4. Total(h, U \cup {x}) = Total(f, U \cup {x}) + Total(g, U \cup {x})
    BY <2>2, <2>3
  <2> QED
    BY <2>4
<1> HIDE DEF H
<1>3. S \in H
  BY <1>1, <1>2, SubsetInduction
<1> QED
  BY <1>3 DEF H

Pairs(c, S) == {c} \X S

\* A sum over the pairs of c and an element of S is a sum over S.
LEMMA TotalOfPairs ==
  ASSUME NEW f, NEW g, NEW c, NEW S, IsFiniteSet(S),
         \A x \in S : g[x] \in Credits /\ f[<<c, x>>] = g[x]
  PROVE  Total(f, Pairs(c, S)) = Total(g, S)
<1> DEFINE H == {U \in SUBSET S : Total(f, Pairs(c, U)) = Total(g, U)}
<1>1. {} \in H
  <2>1. Pairs(c, {}) = {}
    BY DEF Pairs
  <2> QED
    BY <2>1, TotalOfNone
<1>2. ASSUME NEW U \in SUBSET S, NEW x \in S \ U, U \in H
      PROVE  U \cup {x} \in H
  <2>1. IsFiniteSet(U) /\ x \notin U
    BY FS_Subset
  <2>2. Total(g, U \cup {x}) = Total(g, U) + g[x] /\ Total(g, U) \in Nat
    BY <2>1, TotalWithOneMore
  <2>3. IsFiniteSet(Pairs(c, U)) /\ <<c, x>> \notin Pairs(c, U)
    BY <2>1, FS_Singleton, FS_Product DEF Pairs
  <2>4. Total(f, Pairs(c, U) \cup {<<c, x>>}) = Total(f, Pairs(c, U)) + f[<<c, x>>]
    BY <2>3, TotalWithOneMore
  <2>5. Pairs(c, U \cup {x}) = Pairs(c, U) \cup {<<c, x>>}
    BY DEF Pairs
  <2>6. Total(f, Pairs(c, U \cup {x})) = Total(g, U \cup {x})
    BY <1>2, <2>2, <2>4, <2>5
  <2> QED
    BY <2>6
<1> HIDE DEF H
<1>3. S \in H
  BY <1>1, <1>2, SubsetInduction
<1> QED
  BY <1>3 DEF H

-----------------------------------------------------------------------------
(* Sums of amounts that may be negative.                                   *)

Amounts == -MaxCredit .. MaxCredit

LEMMA SignedTotalIsInt ==
  ASSUME NEW f, NEW S, IsFiniteSet(S)
  PROVE  SignedTotal(f, S) \in Int
<1> DEFINE g == [x \in S |-> -f[x]]
<1>1. Total(f, S) \in Nat /\ Total(g, S) \in Nat
  <2> HIDE DEF g
  <2> QED
    BY TotalIsNat
<1> QED
  BY <1>1 DEF SignedTotal

LEMMA SignedTotalOfSame ==
  ASSUME NEW f, NEW g, NEW S, \A x \in S : f[x] = g[x]
  PROVE  SignedTotal(f, S) = SignedTotal(g, S)
<1>1. Total(f, S) = Total(g, S)
  BY TotalOfSame
<1>2. [x \in S |-> -f[x]] = [x \in S |-> -g[x]]
  OBVIOUS
<1> QED
  BY <1>1, <1>2 DEF SignedTotal

LEMMA SignedTotalOfUnion ==
  ASSUME NEW f, NEW S, NEW T, IsFiniteSet(S), IsFiniteSet(T), S \cap T = {}
  PROVE  SignedTotal(f, S \cup T) = SignedTotal(f, S) + SignedTotal(f, T)
<1> DEFINE g == [x \in S \cup T |-> -f[x]]
           gS == [x \in S |-> -f[x]]
           gT == [x \in T |-> -f[x]]
<1>0. (\A x \in S : g[x] = gS[x]) /\ (\A x \in T : g[x] = gT[x])
  OBVIOUS
<1>1. SignedTotal(f, S) = Total(f, S) - Total(gS, S)
  BY DEF SignedTotal
<1>2. SignedTotal(f, T) = Total(f, T) - Total(gT, T)
  BY DEF SignedTotal
<1>3. SignedTotal(f, S \cup T) = Total(f, S \cup T) - Total(g, S \cup T)
  BY DEF SignedTotal
<1> HIDE DEF g, gS, gT
<1>4. Total(g, S) = Total(gS, S) /\ Total(g, T) = Total(gT, T)
  BY <1>0, TotalOfSame
<1>5. /\ Total(f, S \cup T) = Total(f, S) + Total(f, T)
      /\ Total(g, S \cup T) = Total(g, S) + Total(g, T)
  BY TotalOfUnion
<1>6. /\ Total(f, S) \in Nat /\ Total(f, T) \in Nat
      /\ Total(g, S) \in Nat /\ Total(g, T) \in Nat
  BY TotalIsNat
<1> QED
  BY <1>1, <1>2, <1>3, <1>4, <1>5, <1>6

LEMMA SignedTotalOfOne ==
  ASSUME NEW f, NEW x, f[x] \in Amounts
  PROVE  SignedTotal(f, {x}) = f[x]
<1> DEFINE g == [y \in {x} |-> -f[y]]
<1>0. f[x] \in Int /\ -MaxCredit <= f[x] /\ f[x] <= MaxCredit /\ MaxCredit \in Nat /\ g[x] = -f[x]
  BY ConstantsAssumption DEF Amounts
<1>1. SignedTotal(f, {x}) = Total(f, {x}) - Total(g, {x})
  BY DEF SignedTotal
<1> HIDE DEF g
<1>2. CASE f[x] >= 0
  <2>1. Total(f, {x}) = f[x]
    BY <1>0, <1>2, TotalOfOne DEF Credits
  <2>2. Total(g, {x}) = 0
    BY <1>0, <1>2, TotalOfNothing
  <2> QED
    BY <1>0, <1>1, <2>1, <2>2
<1>3. CASE f[x] < 0
  <2>1. Total(g, {x}) = g[x]
    BY <1>0, <1>3, TotalOfOne DEF Credits
  <2>2. Total(f, {x}) = 0
    BY <1>0, <1>3, TotalOfNothing
  <2> QED
    BY <1>0, <1>1, <2>1, <2>2
<1> QED
  BY <1>0, <1>2, <1>3

LEMMA SignedTotalOfNone ==
  ASSUME NEW f
  PROVE  SignedTotal(f, {}) = 0
<1> DEFINE g == [y \in {} |-> -f[y]]
<1>1. SignedTotal(f, {}) = Total(f, {}) - Total(g, {})
  BY DEF SignedTotal
<1> HIDE DEF g
<1> QED
  BY <1>1, TotalOfNone

\* The sum of debits is what they take, negated.
LEMMA SignedTotalOfDebits ==
  ASSUME NEW f, NEW g, NEW S, IsFiniteSet(S), \A x \in S : f[x] = -g[x] /\ g[x] \in Credits
  PROVE  SignedTotal(f, S) = -Total(g, S)
<1> DEFINE n == [x \in S |-> -f[x]]
<1>0. \A x \in S : g[x] \in Nat
  BY ConstantsAssumption DEF Credits
<1>1. SignedTotal(f, S) = Total(f, S) - Total(n, S)
  BY DEF SignedTotal
<1>2. \A x \in S : n[x] = g[x]
  BY <1>0
<1> HIDE DEF n
<1>3. Total(n, S) = Total(g, S) /\ Total(g, S) \in Nat
  BY <1>2, TotalOfSame, TotalIsNat
<1>4. Total(f, S) = 0
  BY <1>0, TotalOfNothing
<1> QED
  BY <1>1, <1>3, <1>4

-----------------------------------------------------------------------------
(* What a greedy pass over the buckets takes.                              *)

\* E gives every bucket the buckets that come before it: a strict order, in
\* which any two buckets of S are comparable.
Ordering(E, S) ==
  /\ E \in [BucketId -> SUBSET BucketId]
  /\ \A b \in BucketId : b \notin E[b]
  /\ \A b, c \in BucketId : c \in E[b] => E[c] \subseteq E[b]
  /\ \A b, c \in S : b # c => b \in E[c] \/ c \in E[b]

LEMMA LastBucket ==
  ASSUME NEW E, NEW S \in SUBSET BucketId, Ordering(E, S), NEW D \in SUBSET S, D # {}
  PROVE  \E m \in D : \A b \in D \ {m} : b \in E[m]
<1> DEFINE F == {BucketId \ E[b] : b \in D}
<1>0. \A b \in D : IsFiniteSet(BucketId \ E[b])
  <2> SUFFICES ASSUME NEW b \in D PROVE IsFiniteSet(BucketId \ E[b])
    OBVIOUS
  <2>1. BucketId \ E[b] \in SUBSET BucketId
    OBVIOUS
  <2> HIDE DEF F
  <2> QED
    BY <2>1, FiniteBuckets, FS_Subset
<1>1. F # {} /\ \A U \in F : IsFiniteSet(U)
  BY <1>0
<1>2. PICK U \in F : \A V \in F : Cardinality(U) <= Cardinality(V)
  <2> HIDE DEF F
  <2> QED
    BY <1>1, SmallestSet
<1>3. PICK m \in D : U = BucketId \ E[m]
  BY <1>2
<1>4. ASSUME NEW b \in D \ {m} PROVE b \in E[m]
  <2> SUFFICES ASSUME m \in E[b] PROVE FALSE
    BY DEF Ordering
  <2> DEFINE V == BucketId \ E[b]
  <2>1. V \in SUBSET U /\ m \in U /\ m \notin V /\ V \in F
    BY <1>3 DEF Ordering
  <2> HIDE DEF V, F
  <2>2. IsFiniteSet(U) /\ IsFiniteSet(V)
    BY <1>1, <1>2, <2>1
  <2>3. Cardinality(V) <= Cardinality(U) /\ Cardinality(U) # Cardinality(V)
    BY <2>1, <2>2, FS_Subset
  <2>4. Cardinality(V) \in Nat /\ Cardinality(U) \in Nat
    BY <2>2, FS_CardinalityType
  <2> QED
    BY <1>2, <2>1, <2>3, <2>4
<1> QED
  BY <1>4

Stocked(bk) == {b \in BucketId : bk[b].available > 0}

\* What is available in all of BucketId is in the buckets that have any.
LEMMA AvailableIsStocked ==
  ASSUME NEW bk \in Buckets, NEW S \in SUBSET BucketId
  PROVE  Available(bk, S) = Available(bk, S \cap Stocked(bk)) /\ Available(bk, S) \in Nat
<1> DEFINE f == [b \in BucketId |-> bk[b].available]
           P == S \cap Stocked(bk)
           Q == S \ Stocked(bk)
<1>1. IsFiniteSet(P) /\ IsFiniteSet(Q) /\ P \cap Q = {} /\ S = P \cup Q
  BY FiniteBuckets, FS_Subset
<1>2. \A b \in Q : f[b] \in Int /\ f[b] <= 0
  BY DEF Stocked, Buckets, Bucket
<1>3. Available(bk, S) = Total(f, S) /\ Available(bk, P) = Total(f, P)
  BY DEF Available
<1> HIDE DEF f, P, Q
<1>4. Total(f, S) = Total(f, P) + Total(f, Q) /\ Total(f, P) \in Nat
  BY <1>1, TotalOfUnion, TotalIsNat
<1>5. Total(f, Q) = 0
  BY <1>2, TotalOfNothing
<1> QED
  BY <1>3, <1>4, <1>5 DEF P

\* A greedy pass takes what it needs, or everything there is.
LEMMA GreedyTakes ==
  ASSUME NEW bk \in Buckets, \A b \in BucketId : bk[b].available \in Credits,
         NEW E, Ordering(E, Stocked(bk)), NEW n \in Nat
  PROVE  Total([b \in BucketId |-> Take(bk, b, E[b], n)], BucketId)
           = Min2(n, Available(bk, BucketId))
<1> DEFINE S == Stocked(bk)
           t == [b \in BucketId |-> Take(bk, b, E[b], n)]
           f == [b \in BucketId |-> bk[b].available]
           Initial(D) == \A b \in D : E[b] \cap S \subseteq D
           F == {D \in SUBSET S : Initial(D) /\ Total(t, D) # Min2(n, Available(bk, D))}
<1>1. S \in SUBSET BucketId /\ IsFiniteSet(S) /\ IsFiniteSet(BucketId)
  BY FiniteBuckets, FS_Subset DEF Stocked
<1>2. \A b \in BucketId : bk[b].available \in Nat /\ bk[b].available <= MaxCredit /\ MaxCredit \in Nat
  BY ConstantsAssumption DEF Credits
<1>3. \A b \in BucketId : E[b] \in SUBSET BucketId
  BY DEF Ordering
<1>4. ASSUME NEW b \in BucketId
      PROVE  /\ t[b] = Min2(bk[b].available, Max2(0, n - Available(bk, E[b])))
             /\ t[b] \in Credits
  <2>1. t[b] = Min2(bk[b].available, Max2(0, n - Available(bk, E[b])))
    BY DEF Take
  <2>2. Available(bk, E[b]) \in Nat
    BY <1>3, AvailableIsStocked
  <2> QED
    BY <1>2, <2>1, <2>2 DEF Min2, Max2, Credits
<1>5. F = {}
  <2> SUFFICES ASSUME F # {} PROVE FALSE
    OBVIOUS
  <2>1. \A D \in F : IsFiniteSet(D)
    BY <1>1, FS_Subset
  <2>2. PICK D \in F : \A V \in F : Cardinality(D) <= Cardinality(V)
    <3> HIDE DEF F
    <3> QED
      BY <2>1, SmallestSet
  <2>3. D # {}
    <3> SUFFICES ASSUME D = {} PROVE FALSE
      OBVIOUS
    <3>1. Total(t, {}) = 0
      BY TotalOfNone
    <3>2. Available(bk, {}) = 0
      BY TotalOfNone DEF Available
    <3> QED
      BY <2>2, <3>1, <3>2 DEF Min2
  <2>4. PICK m \in D : \A b \in D \ {m} : b \in E[m]
    BY <1>1, <2>2, <2>3, LastBucket
  <2> DEFINE R == D \ {m}
             a == Available(bk, R)
  <2>5. D \in SUBSET S /\ m \in BucketId /\ m \in S /\ D = R \cup {m} /\ m \notin R
    BY <1>1, <2>2
  <2>6. Initial(R)
    BY <1>1, <2>2, <2>4 DEF Ordering
  <2>7. E[m] \cap S = R
    BY <1>1, <2>2, <2>4, <2>5 DEF Ordering
  <2>8. IsFiniteSet(D) /\ IsFiniteSet(R) /\ Cardinality(R) = Cardinality(D) - 1
        /\ Cardinality(D) \in Nat
    BY <2>1, <2>2, FS_RemoveElement, FS_CardinalityType
  <2>9. Total(t, R) = Min2(n, a)
    <3>1. R \notin F
      <4> HIDE DEF F, R
      <4> QED
        BY <2>2, <2>8
    <3> QED
      BY <2>5, <2>6, <3>1
  <2>10. Available(bk, E[m]) = a /\ a \in Nat
    <3>1. R \in SUBSET BucketId
      BY <1>1
    <3> HIDE DEF R
    <3> QED
      BY <1>3, <2>5, <2>7, <3>1, AvailableIsStocked
  <2>11. Available(bk, D) = a + bk[m].available
    <3>1. f[m] \in Credits /\ f[m] = bk[m].available
      BY <2>5
    <3>2. Total(f, R \cup {m}) = Total(f, R) + f[m]
      <4> HIDE DEF f, R
      <4> QED
        BY <2>5, <2>8, <3>1, TotalWithOneMore
    <3> QED
      BY <2>5, <3>1, <3>2 DEF Available
  <2>12. Total(t, D) = Total(t, R) + t[m]
    <3> HIDE DEF t, R
    <3> QED
      BY <1>4, <2>5, <2>8, TotalWithOneMore
  <2>13. t[m] = Min2(bk[m].available, Max2(0, n - a))
    <3> HIDE DEF t
    <3> QED
      BY <1>4, <2>5, <2>10
  <2>14. bk[m].available \in Nat
    BY <1>2, <2>5
  <2>15. Total(t, D) # Min2(n, Available(bk, D))
    BY <2>2
  <2> HIDE DEF a, t, F
  <2> QED
    BY <2>9, <2>10, <2>11, <2>12, <2>13, <2>14, <2>15 DEF Min2, Max2
<1>6. Total(t, S) = Min2(n, Available(bk, S))
  <2>1. Initial(S)
    OBVIOUS
  <2>2. S \notin F
    BY <1>5
  <2> QED
    BY <2>1, <2>2
<1>7. Available(bk, BucketId) = Available(bk, S)
  <2>1. BucketId \cap S = S
    BY <1>1
  <2> QED
    BY <2>1, AvailableIsStocked
<1>8. Total(t, BucketId) = Total(t, S)
  <2> DEFINE Q == BucketId \ S
  <2>1. IsFiniteSet(Q) /\ BucketId = S \cup Q /\ S \cap Q = {}
    BY <1>1, FS_Subset
  <2>2. \A b \in Q : t[b] \in Int /\ t[b] <= 0
    <3> SUFFICES ASSUME NEW b \in Q PROVE t[b] \in Int /\ t[b] <= 0
      OBVIOUS
    <3>1. b \in BucketId /\ bk[b].available = 0
      BY <1>2 DEF Stocked
    <3>2. Available(bk, E[b]) \in Nat
      BY <1>3, <3>1, AvailableIsStocked
    <3>3. t[b] = Min2(bk[b].available, Max2(0, n - Available(bk, E[b])))
      BY <1>4, <3>1
    <3> HIDE DEF t
    <3> QED
      BY <3>1, <3>2, <3>3 DEF Min2, Max2
  <2> HIDE DEF t, Q, S
  <2>3. Total(t, Q) = 0
    BY <2>2, TotalOfNothing
  <2>4. Total(t, BucketId) = Total(t, S) + Total(t, Q) /\ Total(t, S) \in Nat
    BY <1>1, <2>1, TotalOfUnion, TotalIsNat
  <2> QED
    BY <2>3, <2>4
<1> QED
  BY <1>6, <1>7, <1>8

-----------------------------------------------------------------------------
(* The age and the size of what was granted.                               *)

GrantedBuckets(bk) == {b \in BucketId : bk[b].granted # 0}

\* Buckets are numbered in the order of their grants, and no grant is larger
\* than the credits a constant allows.
GrantsInOrder(bk) ==
  \A b \in GrantedBuckets(bk) :
    /\ bk[b].created \in 1 .. Cardinality(GrantedBuckets(bk))
    /\ \A c \in GrantedBuckets(bk) : bk[c].created = bk[b].created => c = b
GrantsInBounds(bk) ==
  /\ \A b \in BucketId : bk[b].granted <= MaxCredit
  /\ \A p \in Period : bk[PaymentBucket(p)].granted \in {0, PeriodGrant[p]}

SameGrants(bk, bk2) ==
  \A b \in BucketId : bk2[b].granted = bk[b].granted /\ bk2[b].created = bk[b].created

LEMMA GrantsKept ==
  ASSUME NEW bk, NEW bk2, SameGrants(bk, bk2), GrantsInOrder(bk), GrantsInBounds(bk)
  PROVE  GrantsInOrder(bk2) /\ GrantsInBounds(bk2)
<1>1. GrantedBuckets(bk2) = GrantedBuckets(bk)
  BY DEF GrantedBuckets, SameGrants
<1>2. GrantsInOrder(bk2)
  BY <1>1 DEF GrantsInOrder, GrantedBuckets, SameGrants
<1>3. \A p \in Period : PaymentBucket(p) \in BucketId
  BY DEF PaymentBucket, BucketId
<1> QED
  BY <1>2, <1>3 DEF GrantsInBounds, SameGrants

LEMMA GrantsAdded ==
  ASSUME NEW bk \in Buckets, GrantsInOrder(bk), GrantsInBounds(bk),
         NEW c \in BucketId, NEW amount \in 1 .. MaxCredit, NEW expires \in Nat,
         \A p \in Period : c = PaymentBucket(p) => amount = PeriodGrant[p]
  PROVE  /\ GrantsInOrder(Grant(bk, c, amount, expires))
         /\ GrantsInBounds(Grant(bk, c, amount, expires))
<1> DEFINE bk2 == Grant(bk, c, amount, expires)
           G == GrantedBuckets(bk)
           n == Cardinality(G)
           row == [granted |-> amount, available |-> amount, reserved |-> 0,
                   expires |-> expires, created |-> 1 + n]
<1>1. CASE bk[c].granted # 0
  BY <1>1 DEF Grant
<1>2. CASE bk[c].granted = 0
  <2>1. bk2 = [bk EXCEPT ![c] = row]
    BY <1>2 DEF Grant, GrantedBuckets
  <2>2. IsFiniteSet(G) /\ c \notin G
    BY <1>2, FiniteBuckets, FS_Subset DEF GrantedBuckets
  <2>3. n \in Nat /\ Cardinality(G \cup {c}) = n + 1
    <3> HIDE DEF G
    <3> QED
      BY <2>2, FS_AddElement, FS_CardinalityType
  <2> HIDE DEF bk2
  <2>4. /\ bk2[c].granted = amount /\ bk2[c].created = 1 + n
        /\ \A b \in BucketId \ {c} : bk2[b] = bk[b]
    <3> HIDE DEF row
    <3>1. bk2[c] = row /\ \A b \in BucketId \ {c} : bk2[b] = bk[b]
      BY <2>1 DEF Buckets
    <3> QED
      BY <3>1 DEF row
  <2>5. amount \in Nat /\ amount # 0 /\ amount <= MaxCredit /\ MaxCredit \in Nat
    BY ConstantsAssumption
  <2>6. GrantedBuckets(bk2) = G \cup {c}
    BY <2>4, <2>5 DEF GrantedBuckets
  <2>7. \A b \in G : b \in BucketId \ {c} /\ bk[b].created \in 1 .. n
                     /\ \A d \in G : bk[d].created = bk[b].created => d = b
    BY <2>2 DEF GrantsInOrder, GrantedBuckets
  <2> HIDE DEF n, G
  <2>8. GrantsInOrder(bk2)
    <3> SUFFICES ASSUME NEW b \in G \cup {c}
                 PROVE  /\ bk2[b].created \in 1 .. n + 1
                        /\ \A d \in G \cup {c} : bk2[d].created = bk2[b].created => d = b
      BY <2>3, <2>6 DEF GrantsInOrder
    <3>1. \A d \in G : bk2[d].created = bk[d].created /\ bk[d].created \in 1 .. n
      BY <2>4, <2>7
    <3>2. CASE b = c
      BY <2>3, <2>4, <3>1, <3>2
    <3>3. CASE b \in G
      BY <2>3, <2>4, <2>7, <3>1, <3>3
    <3> QED
      BY <3>2, <3>3
  <2>9. GrantsInBounds(bk2)
    <3>1. \A p \in Period : PaymentBucket(p) \in BucketId
      BY DEF PaymentBucket, BucketId
    <3>2. \A b \in BucketId : bk2[b].granted <= MaxCredit
      BY <2>4, <2>5 DEF GrantsInBounds
    <3>3. \A p \in Period : bk2[PaymentBucket(p)].granted \in {0, PeriodGrant[p]}
      BY <2>4, <3>1 DEF GrantsInBounds
    <3> QED
      BY <3>2, <3>3 DEF GrantsInBounds
  <2> QED
    BY <2>8, <2>9 DEF bk2
<1> QED
  BY <1>1, <1>2

LEMMA TrialAdded ==
  ASSUME NEW bk \in Buckets, GrantsInOrder(bk), GrantsInBounds(bk), now \in Nat, NEW verified
  PROVE  GrantsInOrder(WithTrial(bk, verified)) /\ GrantsInBounds(WithTrial(bk, verified))
<1>1. Trial \in BucketId /\ TrialGrant \in 1 .. MaxCredit /\ now + TrialDays \in Nat
      /\ \A p \in Period : Trial # PaymentBucket(p)
  BY ConstantsAssumption DEF BucketId, Trial, PaymentBucket
<1> QED
  BY <1>1, GrantsAdded DEF WithTrial

LEMMA ExpiredKeepsGrants ==
  ASSUME NEW bk \in Buckets
  PROVE  SameGrants(bk, Expired(bk))
BY DEF SameGrants, Expired, Buckets, Bucket

LEMMA SettleKeepsGrants ==
  ASSUME bucket \in Buckets, NEW C, NEW R
  PROVE  SameGrants(bucket, Settle(bucket, C, R))
BY DEF SameGrants, Settle, Buckets, Bucket

\* No bucket has more available than any grant may have.
LEMMA AvailableInBounds ==
  ASSUME NEW bk \in Buckets, NEW h \in Holds, Sound(bk, h), GrantsInBounds(bk)
  PROVE  \A b \in BucketId : /\ bk[b].available \in Credits /\ bk[b].reserved \in Credits
                             /\ bk[b].available + bk[b].reserved \in Credits
                             /\ bk[b].available > 0 => b \in GrantedBuckets(bk)
<1> SUFFICES ASSUME NEW b \in BucketId
             PROVE  /\ bk[b].available \in Credits /\ bk[b].reserved \in Credits
                    /\ bk[b].available + bk[b].reserved \in Credits
                    /\ bk[b].available > 0 => b \in GrantedBuckets(bk)
  OBVIOUS
<1>1. Allocated(h, Charged(h), b) \in Nat
  BY AllocatedIsNat DEF Charged, WithStatus
<1>2. bk[b] \in Bucket /\ MaxCredit \in Nat
  BY ConstantsAssumption DEF Buckets
<1>3. bk[b].available + bk[b].reserved + Allocated(h, Charged(h), b) <= bk[b].granted
  BY DEF Sound
<1>4. bk[b].granted <= MaxCredit
  BY DEF GrantsInBounds
<1> QED
  BY <1>1, <1>2, <1>3, <1>4 DEF Bucket, Credits, GrantedBuckets

LEMMA RankIsInt == \A b \in BucketId : Rank(b) \in Int
BY DEF Rank

\* The order in which reserve spends the buckets.
SpendOrder(bk) == [b \in BucketId |-> {c \in BucketId : SpentBefore(bk, c, b)}]

LEMMA SpendOrderOrders ==
  ASSUME NEW bk \in Buckets, NEW h \in Holds, Sound(bk, h),
         GrantsInOrder(bk), GrantsInBounds(bk)
  PROVE  Ordering(SpendOrder(bk), Stocked(bk))
<1> DEFINE E == SpendOrder(bk)
<1>1. \A b \in BucketId : /\ Rank(b) \in Int /\ bk[b].expires \in Int /\ bk[b].created \in Int
                          /\ E[b] = {c \in BucketId : SpentBefore(bk, c, b)}
  BY RankIsInt DEF SpendOrder, Buckets, Bucket
<1>2. E \in [BucketId -> SUBSET BucketId]
  BY DEF SpendOrder
<1> HIDE DEF E
<1>3. \A b \in BucketId : b \notin E[b]
  BY <1>1 DEF SpentBefore
<1>4. ASSUME NEW b \in BucketId, NEW c \in BucketId, c \in E[b] PROVE E[c] \subseteq E[b]
  <2> SUFFICES ASSUME NEW d \in E[c] PROVE d \in E[b]
    OBVIOUS
  <2>1. SpentBefore(bk, c, b) /\ SpentBefore(bk, d, c) /\ d \in BucketId
    BY <1>1, <1>4
  <2>2. SpentBefore(bk, d, b)
    BY <1>1, <2>1 DEF SpentBefore
  <2> QED
    BY <1>1, <2>1, <2>2
<1>5. ASSUME NEW b \in Stocked(bk), NEW c \in Stocked(bk), b # c PROVE b \in E[c] \/ c \in E[b]
  <2>1. b \in GrantedBuckets(bk) /\ c \in GrantedBuckets(bk) /\ b \in BucketId /\ c \in BucketId
    BY AvailableInBounds DEF Stocked
  <2>2. bk[b].created # bk[c].created
    BY <1>5, <2>1 DEF GrantsInOrder
  <2>3. SpentBefore(bk, b, c) \/ SpentBefore(bk, c, b)
    BY <1>1, <2>1, <2>2 DEF SpentBefore
  <2> QED
    BY <1>1, <2>1, <2>3
<1> QED
  BY <1>2, <1>3, <1>4, <1>5 DEF Ordering, E

\* A reservation that the account can afford takes its price.
LEMMA SpendsCost ==
  ASSUME NEW bk \in Buckets, NEW h \in Holds, Sound(bk, h),
         GrantsInOrder(bk), GrantsInBounds(bk),
         NEW n \in Nat, Available(bk, BucketId) >= n
  PROVE  Total(Spend(bk, n), BucketId) = n
<1> DEFINE E == SpendOrder(bk)
<1>1. Ordering(E, Stocked(bk)) /\ \A b \in BucketId : bk[b].available \in Credits
  BY SpendOrderOrders, AvailableInBounds
<1>2. Spend(bk, n) = [b \in BucketId |-> Take(bk, b, E[b], n)]
  BY DEF Spend, SpendOrder
<1>3. Available(bk, BucketId) \in Nat
  BY AvailableIsStocked
<1> HIDE DEF E
<1>4. Total(Spend(bk, n), BucketId) = Min2(n, Available(bk, BucketId))
  BY <1>1, <1>2, GreedyTakes
<1> QED
  BY <1>3, <1>4 DEF Min2

\* A negative adjustment that the account can afford takes its amount.
LEMMA DrainsAmount ==
  ASSUME NEW bk \in Buckets, NEW h \in Holds, Sound(bk, h),
         GrantsInOrder(bk), GrantsInBounds(bk),
         NEW n \in Nat, Available(bk, BucketId) >= n
  PROVE  Total(Drain(bk, n), BucketId) = n
<1> DEFINE E == [b \in BucketId |-> {c \in BucketId : OlderThan(bk, c, b)}]
<1>1. \A b \in BucketId : /\ bk[b].created \in Int
                          /\ E[b] = {c \in BucketId : OlderThan(bk, c, b)}
  BY DEF Buckets, Bucket
<1>2. Drain(bk, n) = [b \in BucketId |-> Take(bk, b, E[b], n)]
  BY DEF Drain
<1>3. E \in [BucketId -> SUBSET BucketId]
  OBVIOUS
<1> HIDE DEF E
<1>4. /\ \A b \in BucketId : b \notin E[b]
      /\ \A b, c \in BucketId : c \in E[b] => E[c] \subseteq E[b]
  BY <1>1 DEF OlderThan
<1>5. ASSUME NEW b \in Stocked(bk), NEW c \in Stocked(bk), b # c PROVE b \in E[c] \/ c \in E[b]
  <2>1. b \in GrantedBuckets(bk) /\ c \in GrantedBuckets(bk) /\ b \in BucketId /\ c \in BucketId
    BY AvailableInBounds DEF Stocked
  <2>2. bk[b].created # bk[c].created
    BY <1>5, <2>1 DEF GrantsInOrder
  <2> QED
    BY <1>1, <2>1, <2>2 DEF OlderThan
<1>6. Ordering(E, Stocked(bk))
  BY <1>3, <1>4, <1>5 DEF Ordering
<1>7. Total(Drain(bk, n), BucketId) = Min2(n, Available(bk, BucketId))
  <2>1. \A b \in BucketId : bk[b].available \in Credits
    BY AvailableInBounds
  <2> QED
    BY <1>2, <1>6, <2>1, GreedyTakes
<1>8. Available(bk, BucketId) \in Nat
  BY AvailableIsStocked
<1> QED
  BY <1>7, <1>8 DEF Min2

-----------------------------------------------------------------------------
(* What a reservation holds is its price.                                  *)

Funded ==
  /\ GrantsInOrder(bucket)
  /\ GrantsInBounds(bucket)
  /\ HoldCoversCost

\* Ending reservations changes no allocation.
LEMMA CoverKept ==
  ASSUME HoldCoversCost,
         \A r \in Reference : /\ hold'[r].allocated = hold[r].allocated
                              /\ hold'[r].status # "none" => hold[r].status # "none"
  PROVE  HoldCoversCost'
BY DEF HoldCoversCost

LEMMA SettledKeeps ==
  ASSUME hold \in Holds, NEW C \in SUBSET Reserved(hold), NEW R \in SUBSET Reserved(hold),
         C \cap R = {}
  PROVE  \A r \in Reference :
           /\ Settled(C, R)[r].allocated = hold[r].allocated
           /\ Settled(C, R)[r].expires = hold[r].expires
           /\ Settled(C, R)[r].status = IF r \in C THEN "captured"
                                        ELSE IF r \in R THEN "released" ELSE hold[r].status
           /\ Settled(C, R)[r].status # "none" => hold[r].status # "none"
<1> SUFFICES ASSUME NEW r \in Reference
             PROVE  LET g == Settled(C, R)
                    IN  /\ g[r].allocated = hold[r].allocated
                        /\ g[r].expires = hold[r].expires
                        /\ g[r].status = IF r \in C THEN "captured"
                                         ELSE IF r \in R THEN "released" ELSE hold[r].status
                        /\ g[r].status # "none" => hold[r].status # "none"
  OBVIOUS
<1>1. hold[r] \in Hold /\ (r \in C \cup R => hold[r].status = "reserved")
  BY DEF Holds, Reserved, WithStatus
<1>2. CASE r \in C
  <2>1. Settled(C, R)[r] = [hold[r] EXCEPT !.status = "captured"]
    BY <1>2 DEF Settled
  <2> QED
    BY <1>1, <1>2, <2>1 DEF Hold
<1>3. CASE r \notin C /\ r \in R
  <2>1. Settled(C, R)[r] = [hold[r] EXCEPT !.status = "released"]
    BY <1>3 DEF Settled
  <2> QED
    BY <1>1, <1>3, <2>1 DEF Hold
<1>4. CASE r \notin C /\ r \notin R
  <2>1. Settled(C, R)[r] = hold[r]
    BY <1>4 DEF Settled
  <2> QED
    BY <1>4, <2>1
<1> QED
  BY <1>2, <1>3, <1>4

LEMMA SameGrantsTwice ==
  ASSUME NEW bk, NEW bk2, NEW bk3, SameGrants(bk, bk2), SameGrants(bk2, bk3)
  PROVE  SameGrants(bk, bk3)
BY DEF SameGrants

\* The buckets a reservation is made from: after the trial and the expiry.
LEMMA LiveBuckets ==
  ASSUME IInv, GrantsInOrder(bucket), GrantsInBounds(bucket), NEW verified
  PROVE  LET granted == WithTrial(bucket, verified)
             live == Expired(granted)
         IN  /\ granted \in Buckets /\ Sound(granted, hold)
             /\ GrantsInOrder(granted) /\ GrantsInBounds(granted)
             /\ live \in Buckets /\ Sound(live, hold)
             /\ GrantsInOrder(live) /\ GrantsInBounds(live)
<1> DEFINE granted == WithTrial(bucket, verified)
           live == Expired(granted)
<1>1. granted \in Buckets /\ Sound(granted, hold)
  BY TrialSound DEF IInv
<1>2. GrantsInOrder(granted) /\ GrantsInBounds(granted)
  BY TrialAdded DEF IInv
<1> HIDE DEF granted
<1>3. live \in Buckets /\ Sound(live, hold)
  BY <1>1, ExpiredSound DEF IInv
<1>4. SameGrants(granted, live)
  BY <1>1, ExpiredKeepsGrants
<1> HIDE DEF live
<1>5. GrantsInOrder(live) /\ GrantsInBounds(live)
  BY <1>2, <1>4, GrantsKept
<1> QED
  BY <1>1, <1>2, <1>3, <1>5 DEF granted, live

LEMMA CreditAccountFunded ==
  ASSUME IInv, Funded, NEW verified \in BOOLEAN, CreditAccount(verified)
  PROVE  Funded'
<1> DEFINE live == Expired(WithTrial(bucket, verified))
<1>1. GrantsInOrder(live) /\ GrantsInBounds(live)
  BY LiveBuckets DEF Funded
<1>2. bucket' = live /\ hold' = hold
  BY DEF CreditAccount
<1> HIDE DEF live
<1> QED
  BY <1>1, <1>2 DEF Funded, HoldCoversCost

LEMMA ReserveFunded ==
  ASSUME IInv, Funded, NEW r \in Reference, NEW verified \in BOOLEAN, Reserve(r, verified)
  PROVE  Funded'
<1> DEFINE granted == WithTrial(bucket, verified)
           live == Expired(granted)
           spend == Spend(live, Cost[r])
<1>1. /\ GrantsInOrder(granted) /\ GrantsInBounds(granted)
      /\ live \in Buckets /\ Sound(live, hold) /\ GrantsInOrder(live) /\ GrantsInBounds(live)
  BY LiveBuckets DEF Funded
<1>2. CASE bucket' = granted /\ hold' = hold
  BY <1>1, <1>2 DEF Funded, HoldCoversCost
<1>3. CASE /\ Available(live, BucketId) >= Cost[r]
           /\ bucket' = [b \in BucketId |-> [live[b] EXCEPT !.available = @ - spend[b],
                                                            !.reserved = @ + spend[b]]]
           /\ hold' = [hold EXCEPT ![r] = [status |-> "reserved", allocated |-> spend,
                                           expires |-> now + HoldTime]]
  <2>1. Cost[r] \in Nat
    BY ConstantsAssumption
  <2> HIDE DEF granted, live
  <2>2. Total(spend, BucketId) = Cost[r]
    BY <1>1, <1>3, <2>1, SpendsCost DEF IInv
  <2> HIDE DEF spend
  <2>3. SameGrants(live, bucket')
    BY <1>1, <1>3 DEF SameGrants, Buckets, Bucket
  <2>4. GrantsInOrder(bucket') /\ GrantsInBounds(bucket')
    BY <1>1, <2>3, GrantsKept
  <2>5. HoldCoversCost'
    <3> SUFFICES ASSUME NEW s \in Reference, hold'[s].status # "none"
                 PROVE  Total(hold'[s].allocated, BucketId) = Cost[s]
      BY DEF HoldCoversCost
    <3>1. CASE s = r
      <4>1. hold'[s].allocated = spend
        BY <1>3, <3>1 DEF IInv, Holds
      <4> QED
        BY <2>2, <3>1, <4>1
    <3>2. CASE s # r
      <4>1. hold'[s] = hold[s]
        BY <1>3, <3>2 DEF IInv, Holds
      <4> QED
        BY <4>1 DEF Funded, HoldCoversCost
    <3> QED
      BY <3>1, <3>2
  <2> QED
    BY <2>4, <2>5 DEF Funded
<1> QED
  BY <1>2, <1>3 DEF Reserve

LEMMA SettleFunded ==
  ASSUME IInv, Funded, NEW C \in SUBSET Reserved(hold), NEW R \in SUBSET Reserved(hold),
         C \cap R = {}, bucket' = Settle(bucket, C, R), hold' = Settled(C, R)
  PROVE  Funded'
<1>1. SameGrants(bucket, bucket')
  BY SettleKeepsGrants DEF IInv
<1>2. GrantsInOrder(bucket') /\ GrantsInBounds(bucket')
  BY <1>1, GrantsKept DEF Funded
<1>3. HoldCoversCost'
  BY SettledKeeps, CoverKept DEF IInv, Funded
<1> QED
  BY <1>2, <1>3 DEF Funded

LEMMA ReconcileFunded ==
  ASSUME IInv, Funded, NEW C \in SUBSET Overdue, NEW R \in SUBSET (Overdue \ C),
         NEW D \in SUBSET (Overdue \ (C \cup R)), ReconcileExpiredReservations(C, R, D)
  PROVE  Funded'
<1>1. C \in SUBSET Reserved(hold) /\ R \in SUBSET Reserved(hold) /\ C \cap R = {}
  BY DEF Overdue
<1>2. SameGrants(bucket, bucket')
  BY SettleKeepsGrants DEF IInv, ReconcileExpiredReservations
<1>3. GrantsInOrder(bucket') /\ GrantsInBounds(bucket')
  BY <1>2, GrantsKept DEF Funded
<1> DEFINE g == Settled(C, R)
<1>4. hold' = [r \in Reference |->
                IF r \in D THEN [hold[r] EXCEPT !.expires = now + DeferTime]
                ELSE g[r]]
  BY DEF ReconcileExpiredReservations, Reconciled
<1>5. \A r \in Reference : /\ g[r].allocated = hold[r].allocated
                           /\ g[r].status # "none" => hold[r].status # "none"
  BY <1>1, SettledKeeps DEF IInv
<1> HIDE DEF g
<1>6. \A r \in Reference : /\ hold'[r].allocated = hold[r].allocated
                           /\ hold'[r].status # "none" => hold[r].status # "none"
  BY <1>4, <1>5 DEF IInv, Holds, Hold
<1> QED
  BY <1>3, <1>6, CoverKept DEF Funded

LEMMA PaymentSucceededFunded ==
  ASSUME IInv, Funded, NEW p \in Period, PaymentSucceeded(p)
  PROVE  Funded'
<1> DEFINE expires == IF PeriodKind[p] = "subscription" THEN now + PeriodDays ELSE Never
<1>1. /\ PaymentBucket(p) \in BucketId /\ PeriodGrant[p] \in 1 .. MaxCredit /\ expires \in Nat
      /\ \A q \in Period : PaymentBucket(p) = PaymentBucket(q) => p = q
  BY ConstantsAssumption DEF IInv, BucketId, PaymentBucket, Never
<1>2. bucket' = Grant(bucket, PaymentBucket(p), PeriodGrant[p], expires) /\ hold' = hold
  BY DEF PaymentSucceeded
<1> HIDE DEF expires
<1>3. GrantsInOrder(bucket') /\ GrantsInBounds(bucket')
  BY <1>1, <1>2, GrantsAdded DEF IInv, Funded
<1> QED
  BY <1>2, <1>3 DEF Funded, HoldCoversCost

\* What a refund writes; the rest that cannot go back is no more than the price.
LEMMA RefundWrites ==
  ASSUME IInv, Funded, NEW r \in Reference, Refund(r)
  PROVE  LET rest == Total(hold[r].allocated, Lapsed)
         IN  /\ hold[r].status = "captured"
             /\ bucket' = IF rest = 0 THEN Returned(r)
                          ELSE Grant(Returned(r), RefundBucket(r), rest, Never)
             /\ hold' = [hold EXCEPT ![r].status = "refunded"]
             /\ ledger' = Post(ledger, Entry(<<"REFUND", r>>, Cost[r]))
             /\ rest \in Credits
             /\ Returned(r) \in Buckets /\ SameGrants(bucket, Returned(r))
<1> DEFINE rest == Total(hold[r].allocated, Lapsed)
<1>1. /\ hold[r].status = "captured"
      /\ bucket' = IF rest = 0 THEN Returned(r)
                   ELSE Grant(Returned(r), RefundBucket(r), rest, Never)
      /\ hold' = [hold EXCEPT ![r].status = "refunded"]
      /\ ledger' = Post(ledger, Entry(<<"REFUND", r>>, Cost[r]))
  BY DEF Refund, Returned, Lapsed
<1>2. rest \in Credits
  <2>1. Total(hold[r].allocated, BucketId) = Cost[r]
    BY <1>1 DEF Funded, HoldCoversCost
  <2>2. Lapsed \in SUBSET BucketId /\ IsFiniteSet(Lapsed)
    BY FiniteBuckets, FS_Subset DEF Lapsed
  <2>3. rest <= Total(hold[r].allocated, BucketId) /\ rest \in Nat
    BY <2>2, FiniteBuckets, TotalOfSubset, TotalIsNat
  <2> QED
    BY <2>1, <2>3, ConstantsAssumption DEF Credits
<1>3. Returned(r) \in Buckets
  BY <1>1, ReturnedSound
<1>4. SameGrants(bucket, Returned(r))
  BY DEF IInv, Returned, SameGrants, Buckets, Bucket
<1> QED
  BY <1>1, <1>2, <1>3, <1>4

LEMMA RefundFunded ==
  ASSUME IInv, Funded, NEW r \in Reference, Refund(r)
  PROVE  Funded'
<1> DEFINE rest == Total(hold[r].allocated, Lapsed)
           returned == Returned(r)
<1>1. /\ bucket' = IF rest = 0 THEN returned ELSE Grant(returned, RefundBucket(r), rest, Never)
      /\ hold[r].status = "captured" /\ hold' = [hold EXCEPT ![r].status = "refunded"]
      /\ rest \in Credits
      /\ returned \in Buckets /\ SameGrants(bucket, returned)
  BY RefundWrites
<1> HIDE DEF returned, rest
<1>2. GrantsInOrder(returned) /\ GrantsInBounds(returned)
  BY <1>1, GrantsKept DEF Funded
<1>3. GrantsInOrder(bucket') /\ GrantsInBounds(bucket')
  <2>1. CASE rest = 0
    BY <1>1, <1>2, <2>1
  <2>2. CASE rest # 0
    <3>1. /\ RefundBucket(r) \in BucketId /\ Never \in Nat
          /\ \A p \in Period : RefundBucket(r) # PaymentBucket(p)
      BY ConstantsAssumption DEF BucketId, RefundBucket, PaymentBucket, Never
    <3>2. rest \in 1 .. MaxCredit
      BY <1>1, <2>2, ConstantsAssumption DEF Credits
    <3> QED
      BY <1>1, <1>2, <2>2, <3>1, <3>2, GrantsAdded
  <2> QED
    BY <2>1, <2>2
<1>4. \A s \in Reference : /\ hold'[s].allocated = hold[s].allocated
                           /\ hold'[s].status # "none" => hold[s].status # "none"
  BY <1>1 DEF IInv, Holds, Hold
<1> QED
  BY <1>3, <1>4, CoverKept DEF Funded

LEMMA PaymentReversedFunded ==
  ASSUME IInv, Funded, NEW p \in Period, NEW amount \in 1 .. PeriodPrice[p], PaymentReversed(p, amount)
  PROVE  Funded'
<1> DEFINE b == PaymentBucket(p)
           R == OpenHolds(b)
           freed == Settle(bucket, {}, R)
<1>1. PICK unspent : /\ bucket' = [freed EXCEPT ![b].available = @ - unspent]
                     /\ hold' = Settled({}, R)
  BY DEF PaymentReversed
<1>2. b \in BucketId /\ R \in SUBSET Reserved(hold) /\ {} \in SUBSET Reserved(hold)
      /\ {} \cap R = {}
  BY DEF PaymentBucket, BucketId, OpenHolds
<1>3. freed \in Buckets /\ SameGrants(bucket, freed)
  BY <1>2, SettleSound, SettleKeepsGrants DEF IInv
<1> HIDE DEF b, R, freed
<1>4. SameGrants(freed, bucket')
  BY <1>1, <1>2, <1>3 DEF SameGrants, Buckets, Bucket
<1>5. GrantsInOrder(bucket') /\ GrantsInBounds(bucket')
  BY <1>3, <1>4, SameGrantsTwice, GrantsKept DEF Funded
<1>6. HoldCoversCost'
  BY <1>1, <1>2, SettledKeeps, CoverKept DEF IInv, Funded
<1> QED
  BY <1>5, <1>6 DEF Funded

LEMMA AdjustFunded ==
  ASSUME IInv, Funded, NEW a \in Adjustment, Adjust(a)
  PROVE  Funded'
<1> DEFINE amount == AdjustmentAmount[a]
           drain == Drain(bucket, -amount)
<1>1. hold' = hold
  BY DEF Adjust
<1>2. CASE amount > 0 /\ bucket' = Grant(bucket, AdjustmentBucket(a), amount, Never)
  <2>1. /\ AdjustmentBucket(a) \in BucketId /\ Never \in Nat /\ amount \in 1 .. MaxCredit
        /\ \A p \in Period : AdjustmentBucket(a) # PaymentBucket(p)
    BY <1>2, ConstantsAssumption DEF BucketId, AdjustmentBucket, PaymentBucket, Never
  <2>2. GrantsInOrder(bucket') /\ GrantsInBounds(bucket')
    BY <1>2, <2>1, GrantsAdded DEF IInv, Funded
  <2> QED
    BY <1>1, <2>2 DEF Funded, HoldCoversCost
<1>3. CASE bucket' = [b \in BucketId |-> [bucket[b] EXCEPT !.available = @ - drain[b]]]
  <2> HIDE DEF drain
  <2>1. SameGrants(bucket, bucket')
    BY <1>3 DEF IInv, SameGrants, Buckets, Bucket
  <2>2. GrantsInOrder(bucket') /\ GrantsInBounds(bucket')
    BY <2>1, GrantsKept DEF Funded
  <2> QED
    BY <1>1, <2>2 DEF Funded, HoldCoversCost
<1> QED
  BY <1>2, <1>3 DEF Adjust

LEMMA InitFunded == Init => Funded
<1> SUFFICES ASSUME Init PROVE Funded
  OBVIOUS
<1>1. \A b \in BucketId : bucket[b].granted = 0
  BY DEF Init, NoBucket
<1>2. \A p \in Period : PaymentBucket(p) \in BucketId
  BY DEF PaymentBucket, BucketId
<1>3. \A r \in Reference : hold[r].status = "none"
  BY DEF Init, NoHold
<1> QED
  BY <1>1, <1>2, <1>3, ConstantsAssumption
  DEF Funded, GrantsInOrder, GrantsInBounds, GrantedBuckets, HoldCoversCost

LEMMA FundedInductive == IInv /\ Funded /\ [Next]_vars => Funded'
<1> SUFFICES ASSUME IInv, Funded, [Next]_vars PROVE Funded'
  OBVIOUS
<1>1. ASSUME NEW verified \in BOOLEAN, CreditAccount(verified) PROVE Funded'
  BY <1>1, CreditAccountFunded
<1>2. ASSUME NEW r \in Reference, NEW verified \in BOOLEAN, Reserve(r, verified) PROVE Funded'
  BY <1>2, ReserveFunded
<1>3. ASSUME NEW r \in Reference, Capture(r) \/ Release(r) \/ Refund(r) PROVE Funded'
  <2>1. /\ {} \in SUBSET Reserved(hold) /\ {r} \cap {} = {}
        /\ hold[r].status = "reserved" => {r} \in SUBSET Reserved(hold)
    BY DEF Reserved, WithStatus
  <2>2. CASE Capture(r)
    BY <2>1, <2>2, SettleFunded DEF Capture
  <2>3. CASE Release(r)
    BY <2>1, <2>3, SettleFunded DEF Release
  <2> QED
    BY <1>3, <2>2, <2>3, RefundFunded
<1>4. ASSUME NEW C \in SUBSET Overdue, NEW R \in SUBSET (Overdue \ C),
             NEW D \in SUBSET (Overdue \ (C \cup R)), ReconcileExpiredReservations(C, R, D)
      PROVE  Funded'
  BY <1>4, ReconcileFunded
<1>5. ASSUME NEW p \in Period, PaymentSucceeded(p) PROVE Funded'
  BY <1>5, PaymentSucceededFunded
<1>6. ASSUME NEW p \in Period, NEW amount \in 1 .. PeriodPrice[p], PaymentReversed(p, amount)
      PROVE  Funded'
  BY <1>6, PaymentReversedFunded
<1>7. ASSUME NEW a \in Adjustment, Adjust(a) PROVE Funded'
  BY <1>7, AdjustFunded
<1>8. CASE Tick \/ UNCHANGED vars
  <2>1. bucket' = bucket /\ hold' = hold
    BY <1>8 DEF Tick, vars
  <2> QED
    BY <2>1 DEF Funded, HoldCoversCost
<1> QED
  BY <1>1, <1>2, <1>3, <1>4, <1>5, <1>6, <1>7, <1>8 DEF Next

LEMMA AlwaysFunded == Spec => []Funded
BY AlwaysIInv, InitFunded, FundedInductive, PTL DEF Spec

\* A reservation holds the price of its feature, no more and no less, however
\* reserve splits the price over any number of buckets and whatever ends the
\* reservation.
THEOREM HoldsCoverTheirCost == Spec => []HoldCoversCost
<1>1. Funded => HoldCoversCost
  BY DEF Funded
<1> QED
  BY <1>1, AlwaysFunded, PTL

-----------------------------------------------------------------------------
(* What a new reservation is paid with.                                    *)

\* The step of reserve that makes a reservation.
Reserves(r, verified) ==
  LET live == Expired(WithTrial(bucket, verified))
      spend == Spend(live, Cost[r])
  IN  /\ bucket' = [b \in BucketId |-> [live[b] EXCEPT !.available = @ - spend[b],
                                                       !.reserved = @ + spend[b]]]
      /\ hold'[r].allocated = spend
      /\ UNCHANGED now

LEMMA OnlyReserveHolds ==
  ASSUME IInv, [Next]_vars, NEW r \in Reference, NewlyHeld(r)
  PROVE  \E verified \in BOOLEAN : Reserves(r, verified)
<1>0. hold \in Holds /\ hold[r].status = "none" /\ hold'[r].status = "reserved"
  BY DEF IInv, NewlyHeld
<1>1. hold' # hold
  BY <1>0
<1>2. ASSUME NEW s \in Reference, NEW verified \in BOOLEAN, Reserve(s, verified)
      PROVE  Reserves(r, verified)
  <2> DEFINE live == Expired(WithTrial(bucket, verified))
             spend == Spend(live, Cost[s])
             row == [status |-> "reserved", allocated |-> spend, expires |-> now + HoldTime]
  <2>1. /\ bucket' = [b \in BucketId |-> [live[b] EXCEPT !.available = @ - spend[b],
                                                         !.reserved = @ + spend[b]]]
        /\ hold' = [hold EXCEPT ![s] = row]
        /\ UNCHANGED now
    BY <1>1, <1>2 DEF Reserve
  <2> HIDE DEF row
  <2>2. s = r /\ hold'[s] = row
    BY <1>0, <2>1 DEF Holds
  <2>3. hold'[s].allocated = spend
    BY <2>2 DEF row
  <2> QED
    BY <2>1, <2>2, <2>3 DEF Reserves
<1>3. ASSUME NEW C \in SUBSET Reserved(hold), NEW R \in SUBSET Reserved(hold), C \cap R = {},
             hold'[r] = Settled(C, R)[r]
      PROVE  FALSE
  <2>1. r \notin C \cup R
    BY <1>0 DEF Reserved, WithStatus
  <2> QED
    BY <1>0, <1>3, <2>1, SettledKeeps
<1>4. ASSUME NEW s \in Reference, Capture(s) \/ Release(s) \/ Refund(s) PROVE FALSE
  <2>1. {} \in SUBSET Reserved(hold) /\ {s} \cap {} = {}
    OBVIOUS
  <2>2. CASE Capture(s)
    <3>1. {s} \in SUBSET Reserved(hold)
      BY <2>2 DEF Capture, Reserved, WithStatus
    <3> QED
      BY <1>3, <2>1, <2>2, <3>1 DEF Capture
  <2>3. CASE Release(s)
    <3>1. {s} \in SUBSET Reserved(hold)
      BY <2>3 DEF Release, Reserved, WithStatus
    <3> QED
      BY <1>3, <2>1, <2>3, <3>1 DEF Release
  <2>4. CASE Refund(s)
    BY <1>0, <2>4 DEF Refund, Holds, Hold
  <2> QED
    BY <1>4, <2>2, <2>3, <2>4
<1>5. ASSUME NEW C \in SUBSET Overdue, NEW R \in SUBSET (Overdue \ C),
             NEW D \in SUBSET (Overdue \ (C \cup R)), ReconcileExpiredReservations(C, R, D)
      PROVE  FALSE
  <2>1. C \in SUBSET Reserved(hold) /\ R \in SUBSET Reserved(hold) /\ C \cap R = {}
    BY DEF Overdue
  <2>2. r \notin Overdue
    BY <1>0 DEF Overdue, Reserved, WithStatus
  <2>3. hold'[r] = Settled(C, R)[r]
    BY <1>5, <2>2 DEF ReconcileExpiredReservations, Reconciled
  <2> QED
    BY <1>3, <2>1, <2>3
<1>6. ASSUME NEW p \in Period, NEW amount \in 1 .. PeriodPrice[p], PaymentReversed(p, amount)
      PROVE  FALSE
  <2> DEFINE R == OpenHolds(PaymentBucket(p))
  <2>1. {} \in SUBSET Reserved(hold) /\ R \in SUBSET Reserved(hold) /\ {} \cap R = {}
    BY DEF OpenHolds
  <2>2. hold' = Settled({}, R)
    BY <1>6 DEF PaymentReversed
  <2> HIDE DEF R
  <2> QED
    BY <1>3, <2>1, <2>2
<1>7. \/ \E s \in Reference, verified \in BOOLEAN : Reserve(s, verified)
      \/ \E s \in Reference : Capture(s) \/ Release(s) \/ Refund(s)
      \/ \E C \in SUBSET Overdue : \E R \in SUBSET (Overdue \ C) :
           \E D \in SUBSET (Overdue \ (C \cup R)) : ReconcileExpiredReservations(C, R, D)
      \/ \E p \in Period : \E amount \in 1 .. PeriodPrice[p] : PaymentReversed(p, amount)
      \/ hold' = hold
  BY DEF Next, vars, CreditAccount, PaymentSucceeded, Adjust, Tick
<1> QED
  BY <1>1, <1>2, <1>4, <1>5, <1>6, <1>7

\* A bucket that is spent had credits that had not expired.
LEMMA SpentIsLive ==
  ASSUME IInv, Funded, NEW r \in Reference, NEW verified \in BOOLEAN, Reserves(r, verified),
         NEW b \in BucketId, hold'[r].allocated[b] > 0
  PROVE  bucket'[b].expires > now
<1> DEFINE granted == WithTrial(bucket, verified)
           live == Expired(granted)
           spend == Spend(live, Cost[r])
           E == {c \in BucketId : SpentBefore(live, c, b)}
<1>1. granted \in Buckets /\ live \in Buckets
  BY LiveBuckets DEF Funded
<1>2. /\ bucket'[b] = [live[b] EXCEPT !.available = @ - spend[b], !.reserved = @ + spend[b]]
      /\ spend[b] > 0
  BY DEF Reserves
<1>3. spend[b] = Take(live, b, E, Cost[r]) /\ E \in SUBSET BucketId /\ Cost[r] \in Nat
  BY ConstantsAssumption DEF Spend
<1>4. live[b] = IF b \in Expirable(granted) THEN [granted[b] EXCEPT !.available = 0] ELSE granted[b]
  BY DEF Expired
<1> HIDE DEF spend, live, E
<1>5. Take(live, b, E, Cost[r]) \in 0 .. Min2(live[b].available, Cost[r])
  BY <1>1, <1>3, TakeBounds DEF Buckets
<1>6. live[b].available > 0
  BY <1>1, <1>2, <1>3, <1>5 DEF Min2, Buckets, Bucket
<1> HIDE DEF granted
<1>7. granted[b] \in Bucket /\ live[b] \in Bucket
  BY <1>1 DEF Buckets
<1>8. b \notin Expirable(granted)
  BY <1>4, <1>6, <1>7 DEF Bucket
<1>9. live[b] = granted[b] /\ granted[b].expires > now
  BY <1>4, <1>6, <1>7, <1>8 DEF Expirable, Bucket, IInv
<1> QED
  BY <1>2, <1>7, <1>9 DEF Bucket

\* A bucket that comes before one that is spent is spent to the end.
LEMMA EarlierIsEmptied ==
  ASSUME IInv, Funded, NEW r \in Reference, NEW verified \in BOOLEAN, Reserves(r, verified),
         NEW b \in BucketId, NEW c \in BucketId, hold'[r].allocated[c] > 0,
         SpentBefore(Expired(WithTrial(bucket, verified)), b, c)
  PROVE  bucket'[b].available = 0
<1> DEFINE live == Expired(WithTrial(bucket, verified))
           spend == Spend(live, Cost[r])
           E == SpendOrder(live)
           f == [x \in BucketId |-> live[x].available]
<1>1. /\ live \in Buckets /\ Sound(live, hold)
      /\ GrantsInOrder(live) /\ GrantsInBounds(live)
  BY LiveBuckets DEF Funded
<1>2. /\ bucket'[b] = [live[b] EXCEPT !.available = @ - spend[b], !.reserved = @ + spend[b]]
      /\ spend[c] > 0
  BY DEF Reserves
<1>3. /\ spend[b] = Take(live, b, E[b], Cost[r]) /\ spend[c] = Take(live, c, E[c], Cost[r])
      /\ E[b] \in SUBSET BucketId /\ E[c] \in SUBSET BucketId /\ b \in E[c] /\ Cost[r] \in Nat
  BY ConstantsAssumption DEF Spend, SpendOrder
<1> HIDE DEF live, E
<1>4. Ordering(E, Stocked(live)) /\ live[b].available \in Credits
  BY <1>1, SpendOrderOrders, AvailableInBounds DEF E, IInv
<1>5. E[b] \cup {b} \in SUBSET E[c] /\ b \notin E[b]
  BY <1>3, <1>4 DEF Ordering
<1>6. Available(live, E[c]) >= Available(live, E[b]) + live[b].available
  <2>1. f[b] = live[b].available /\ IsFiniteSet(E[b]) /\ IsFiniteSet(E[c])
    BY <1>3, FiniteBuckets, FS_Subset
  <2>2. Available(live, E[c]) = Total(f, E[c]) /\ Available(live, E[b]) = Total(f, E[b])
    BY DEF Available
  <2> HIDE DEF f
  <2>3. Total(f, E[b] \cup {b}) = Total(f, E[b]) + live[b].available
    BY <1>4, <1>5, <2>1, TotalWithOneMore
  <2>4. Total(f, E[b] \cup {b}) <= Total(f, E[c])
    BY <1>5, <2>1, TotalOfSubset
  <2>5. Total(f, E[b]) \in Nat /\ Total(f, E[c]) \in Nat
    BY <2>1, TotalIsNat
  <2> QED
    BY <1>4, <2>2, <2>3, <2>4, <2>5, ConstantsAssumption DEF Credits
<1>7. /\ Available(live, E[b]) \in Nat /\ Available(live, E[c]) \in Nat
      /\ live[b] \in Bucket /\ live[c] \in Bucket
  BY <1>1, <1>3, AvailableIsStocked DEF Buckets
<1>8. Cost[r] > Available(live, E[c])
  BY <1>2, <1>3, <1>7 DEF Take, Min2, Max2, Bucket
<1>9. spend[b] = live[b].available
  BY <1>3, <1>6, <1>7, <1>8 DEF Take, Min2, Max2, Bucket
<1> HIDE DEF spend
<1> QED
  BY <1>2, <1>7, <1>9 DEF Bucket

\* What the documentation says of the order is the order of the code.
LEMMA KindsAreRanked ==
  ASSUME NEW bk, NEW b \in BucketId, NEW c \in BucketId,
         \/ KindOf(b) = "trial" /\ KindOf(c) # "trial"
         \/ KindOf(b) = "subscription" /\ KindOf(c) \in {"topup", "adjustment", "refund"}
         \/ KindOf(b) = "subscription" /\ KindOf(c) = "subscription"
            /\ bk[b].expires < bk[c].expires
  PROVE  SpentBefore(bk, b, c)
<1>1. ASSUME NEW x \in BucketId
      PROVE  /\ KindOf(x) = "trial" => Rank(x) = 1
             /\ KindOf(x) = "subscription" => Rank(x) = 2
             /\ KindOf(x) = "topup" => Rank(x) = 3
             /\ KindOf(x) \in {"adjustment", "refund"} => Rank(x) = 4
             /\ KindOf(x) \in {"trial", "subscription", "topup", "adjustment", "refund"}
  <2>1. CASE x = Trial
    BY <2>1 DEF Trial, KindOf, Rank
  <2>2. CASE x \in {"payment"} \X Period
    <3>1. x[1] = "payment" /\ PeriodKind[x[2]] \in {"subscription", "topup"}
      BY <2>2, ConstantsAssumption
    <3> QED
      BY <3>1 DEF KindOf, Rank
  <2>3. CASE x \in ({"adjustment"} \X Adjustment) \cup ({"refund"} \X Reference)
    <3>1. x[1] \in {"adjustment", "refund"}
      BY <2>3
    <3> QED
      BY <3>1 DEF KindOf, Rank
  <2> QED
    BY <2>1, <2>2, <2>3 DEF BucketId
<1>2. CASE KindOf(b) = "trial" /\ KindOf(c) # "trial"
  <2>1. Rank(b) = 1 /\ Rank(c) \in {2, 3, 4}
    BY <1>1, <1>2
  <2> QED
    BY <2>1 DEF SpentBefore
<1>3. CASE KindOf(b) = "subscription" /\ KindOf(c) \in {"topup", "adjustment", "refund"}
  <2>1. Rank(b) = 2 /\ Rank(c) \in {3, 4}
    BY <1>1, <1>3
  <2> QED
    BY <2>1 DEF SpentBefore
<1>4. CASE KindOf(b) = "subscription" /\ KindOf(c) = "subscription"
           /\ bk[b].expires < bk[c].expires
  BY <1>1, <1>4 DEF SpentBefore
<1> QED
  BY <1>2, <1>3, <1>4

\* A reservation is never paid with credits that have expired: reserve
\* settles what has expired before it looks at what is available.
THEOREM ExpiredIsNeverSpent == Spec => NeverSpendsExpired
<1>1. ASSUME IInv, Funded, [Next]_vars, NEW r \in Reference, NEW b \in BucketId,
             NewlyHeld(r), hold'[r].allocated[b] > 0
      PROVE  bucket'[b].expires > now
  BY <1>1, OnlyReserveHolds, SpentIsLive
<1>2. IInv /\ Funded /\ [Next]_vars =>
        [\A r \in Reference, b \in BucketId :
           NewlyHeld(r) /\ hold'[r].allocated[b] > 0 => bucket'[b].expires > now]_vars
  BY <1>1
<1> QED
  BY <1>2, AlwaysIInv, AlwaysFunded, PTL DEF Spec, NeverSpendsExpired

\* The trial is spent before paid credits, a subscription before a top-up,
\* and of two subscriptions the one that expires first, over any number of
\* buckets: when a later bucket is touched the earlier one is empty.
THEOREM CreditsAreSpentInOrder == Spec => SpendsInOrder
<1> DEFINE Before(b, c) ==
             \/ KindOf(b) = "trial" /\ KindOf(c) # "trial"
             \/ KindOf(b) = "subscription" /\ KindOf(c) \in {"topup", "adjustment", "refund"}
             \/ KindOf(b) = "subscription" /\ KindOf(c) = "subscription"
                /\ bucket'[b].expires < bucket'[c].expires
<1>1. ASSUME IInv, Funded, [Next]_vars, NEW r \in Reference,
             NEW b \in BucketId, NEW c \in BucketId,
             NewlyHeld(r), hold'[r].allocated[c] > 0, Before(b, c)
      PROVE  bucket'[b].available = 0
  <2>1. PICK verified \in BOOLEAN : Reserves(r, verified)
    BY <1>1, OnlyReserveHolds
  <2> DEFINE live == Expired(WithTrial(bucket, verified))
             spend == Spend(live, Cost[r])
  <2>2. live \in Buckets
    BY <1>1, LiveBuckets DEF Funded
  <2>3. bucket' = [x \in BucketId |-> [live[x] EXCEPT !.available = @ - spend[x],
                                                      !.reserved = @ + spend[x]]]
    BY <2>1 DEF Reserves
  <2> HIDE DEF live, spend
  <2>4. bucket'[b].expires = live[b].expires /\ bucket'[c].expires = live[c].expires
    BY <2>2, <2>3 DEF Buckets, Bucket
  <2>5. SpentBefore(live, b, c)
    BY <1>1, <2>4, KindsAreRanked
  <2> QED
    BY <1>1, <2>1, <2>5, EarlierIsEmptied DEF live
<1>2. IInv /\ Funded /\ [Next]_vars =>
        [\A r \in Reference, b, c \in BucketId :
           /\ NewlyHeld(r) /\ hold'[r].allocated[c] > 0
           /\ \/ KindOf(b) = "trial" /\ KindOf(c) # "trial"
              \/ KindOf(b) = "subscription" /\ KindOf(c) \in {"topup", "adjustment", "refund"}
              \/ KindOf(b) = "subscription" /\ KindOf(c) = "subscription"
                 /\ bucket'[b].expires < bucket'[c].expires
           => bucket'[b].available = 0]_vars
  BY <1>1
<1> QED
  BY <1>2, AlwaysIInv, AlwaysFunded, PTL DEF Spec, SpendsInOrder

-----------------------------------------------------------------------------
(* When a payment reversal makes debt.                                     *)

LEMMA ReversalDebt ==
  ASSUME IInv, NEW p \in Period, NEW amount \in 1 .. PeriodPrice[p], PaymentReversed(p, amount),
         account'.debt > account.debt
  PROVE  /\ bucket'[PaymentBucket(p)].available = 0
         /\ bucket'[PaymentBucket(p)].reserved = 0
<1> DEFINE b == PaymentBucket(p)
           R == OpenHolds(b)
           freed == Settle(bucket, {}, R)
<1>1. PICK due : LET unspent == Min2(freed[b].available, due)
                     debt == due - unspent
                 IN  /\ bucket' = [freed EXCEPT ![b].available = @ - unspent]
                     /\ hold' = Settled({}, R)
                     /\ account' = IF debt = 0 THEN account
                                   ELSE [status |-> "review", debt |-> account.debt + debt]
                     /\ due = CumulativeCredits(bucket[b].granted, reversal[p].amount + amount,
                                                PeriodPrice[p]) - reversal[p].credits
  BY DEF PaymentReversed
<1> DEFINE unspent == Min2(freed[b].available, due)
           debt == due - unspent
<1>2. b \in BucketId /\ R \in SUBSET Reserved(hold) /\ {} \in SUBSET Reserved(hold)
      /\ {} \cap R = {}
  BY DEF PaymentBucket, BucketId, OpenHolds
<1>3. freed \in Buckets /\ hold' \in Holds
  BY <1>1, <1>2, SettleSound DEF IInv
<1>4. due \in Int
  <2>1. reversal[p].amount + amount \in Nat /\ PeriodPrice[p] \in Nat \ {0}
        /\ bucket[b].granted \in Nat /\ reversal[p].credits \in Nat
    BY <1>2, ConstantsAssumption DEF IInv, Buckets, Bucket
  <2> DEFINE n == reversal[p].amount + amount
  <2> HIDE DEF n, b
  <2>2. CumulativeCredits(bucket[b].granted, n, PeriodPrice[p]) \in Nat
    BY <2>1, CumulativeCreditsIsNat DEF n
  <2> QED
    BY <1>1, <2>1, <2>2 DEF n
<1>5. \A r \in Reserved(hold') : r \in Reference /\ hold'[r].allocated[b] \in Int
                                 /\ hold'[r].allocated[b] <= 0
  <2> SUFFICES ASSUME NEW r \in Reference, hold'[r].status = "reserved"
               PROVE  hold'[r].allocated[b] \in Int /\ hold'[r].allocated[b] <= 0
    BY DEF Reserved, WithStatus
  <2>1. /\ hold'[r].allocated = hold[r].allocated
        /\ hold'[r].status = IF r \in R THEN "released" ELSE hold[r].status
    BY <1>1, <1>2, SettledKeeps DEF IInv
  <2>2. hold[r].status = "reserved" /\ r \notin R
    BY <2>1
  <2>3. hold[r].allocated[b] \in Int
    BY <1>2, ConstantsAssumption DEF IInv, Holds, Hold, Allocation, Credits
  <2> QED
    BY <2>1, <2>2, <2>3 DEF OpenHolds, Reserved, WithStatus
<1>6. bucket'[b].reserved = 0
  <2> DEFINE f == [r \in Reference |-> hold'[r].allocated[b]]
             S == Reserved(hold')
  <2>1. Sound(bucket', hold')
    BY PaymentReversedStep DEF IInv
  <2>2. bucket'[b].reserved = Total(f, S)
    BY <1>2, <2>1 DEF Sound, Allocated
  <2>3. \A r \in S : f[r] \in Int /\ f[r] <= 0
    BY <1>5
  <2> HIDE DEF f, S
  <2> QED
    BY <2>2, <2>3, TotalOfNothing
<1>7. freed[b] \in Bucket /\ account.debt \in Nat
  BY <1>2, <1>3 DEF Buckets, IInv
<1> HIDE DEF b, R, freed
<1>8. debt # 0
  <2>1. account' = IF debt = 0 THEN account
                   ELSE [status |-> "review", debt |-> account.debt + debt]
    BY <1>1
  <2> HIDE DEF debt
  <2> QED
    BY <1>7, <2>1
<1>9. unspent = freed[b].available
  BY <1>4, <1>7, <1>8 DEF Min2, Bucket
<1> HIDE DEF unspent, debt
<1>10. bucket'[b].available = freed[b].available - unspent
  <2>1. bucket' = [freed EXCEPT ![b].available = @ - unspent]
    BY <1>1 DEF unspent
  <2> QED
    BY <1>2, <1>3, <2>1 DEF Buckets, Bucket
<1>11. bucket'[b].available = 0
  BY <1>7, <1>9, <1>10 DEF Bucket
<1> QED
  BY <1>6, <1>11 DEF b

\* A payment reversal makes debt only when nothing of the grant is left: the
\* reservations that held some of it were released first.
THEOREM DebtIsForSpentCredits == Spec => DebtOnlyForSpentCredits
<1>1. ASSUME IInv, [Next]_vars, NEW p \in Period,
             account'.debt > account.debt, reversal'[p] # reversal[p]
      PROVE  bucket'[PaymentBucket(p)].available = 0 /\ bucket'[PaymentBucket(p)].reserved = 0
  <2>1. account.debt \in Nat /\ reversal \in [Period -> [amount: Nat, credits: Nat]]
    BY <1>1 DEF IInv
  <2>2. account' # account
    BY <1>1, <2>1
  <2>3. PICK q \in Period : \E amount \in 1 .. PeriodPrice[q] : PaymentReversed(q, amount)
    BY <1>1, <2>2 DEF Next, vars, CreditAccount, Reserve, Capture, Release, Refund,
         ReconcileExpiredReservations, PaymentSucceeded, Adjust, Tick
  <2>4. p = q
    BY <1>1, <2>1, <2>3 DEF PaymentReversed
  <2> QED
    BY <1>1, <2>3, <2>4, ReversalDebt
<1>2. IInv /\ [Next]_vars =>
        [\A p \in Period :
           account'.debt > account.debt /\ reversal'[p] # reversal[p] =>
             bucket'[PaymentBucket(p)].available = 0
             /\ bucket'[PaymentBucket(p)].reserved = 0]_vars
  BY <1>1
<1> QED
  BY <1>2, AlwaysIInv, PTL DEF Spec, DebtOnlyForSpentCredits

-----------------------------------------------------------------------------
(* What is posted to the ledger.                                           *)

LEMMA PostAdds ==
  ASSUME NEW lg, NEW e
  PROVE  /\ DOMAIN Post(lg, e) = DOMAIN lg \cup DOMAIN e
         /\ \A k \in DOMAIN lg : Post(lg, e)[k] = lg[k]
         /\ \A k \in DOMAIN e \ DOMAIN lg : Post(lg, e)[k] = e[k]
BY DEF Post

LEMMA OneEntry ==
  ASSUME NEW k, NEW v
  PROVE  DOMAIN Entry(k, v) = {k} /\ Entry(k, v)[k] = v
BY DEF Entry

EntryKey == ({"GRANT", "EXPIRE"} \X BucketId) \cup ({"CHARGE", "REFUND"} \X Reference)
              \cup ({"ADJUSTMENT"} \X Adjustment) \cup ({"REVERSAL"} \X (Period \X Nat))

\* Entries have a key of a kind, and an amount within the bounds.
Entries(e) ==
  /\ IsFiniteSet(DOMAIN e)
  /\ DOMAIN e \subseteq EntryKey
  /\ \A k \in DOMAIN e : e[k] \in Amounts

LEMMA PostEntries ==
  ASSUME NEW lg, NEW e, Entries(lg), Entries(e)
  PROVE  Entries(Post(lg, e))
<1> DEFINE lg2 == Post(lg, e)
<1>1. IsFiniteSet(DOMAIN lg \cup DOMAIN e)
  BY FS_Union DEF Entries
<1>2. /\ DOMAIN lg2 = DOMAIN lg \cup DOMAIN e
      /\ \A k \in DOMAIN lg : lg2[k] = lg[k]
      /\ \A k \in DOMAIN e \ DOMAIN lg : lg2[k] = e[k]
  BY PostAdds
<1> HIDE DEF lg2
<1> QED
  BY <1>1, <1>2 DEF Entries, lg2

LEMMA OneEntries ==
  ASSUME NEW k \in EntryKey, NEW v \in Amounts
  PROVE  Entries(Entry(k, v))
<1> DEFINE e == Entry(k, v)
<1>1. IsFiniteSet({k})
  BY FS_Singleton
<1>2. DOMAIN e = {k} /\ e[k] = v
  BY OneEntry
<1> HIDE DEF e
<1> QED
  BY <1>1, <1>2 DEF Entries, e

LEMMA TrialEntries == \A verified : /\ Entries(TrialEntry(verified))
                                    /\ DOMAIN TrialEntry(verified) \subseteq {<<"GRANT", Trial>>}
                                    /\ verified => <<"GRANT", Trial>> \in DOMAIN TrialEntry(verified)
<1> SUFFICES ASSUME NEW verified
             PROVE  /\ Entries(TrialEntry(verified))
                    /\ DOMAIN TrialEntry(verified) \subseteq {<<"GRANT", Trial>>}
                    /\ verified => <<"GRANT", Trial>> \in DOMAIN TrialEntry(verified)
  OBVIOUS
<1>1. CASE verified
  <2>1. <<"GRANT", Trial>> \in EntryKey
    BY DEF EntryKey, BucketId
  <2>2. TrialGrant \in Amounts
    BY ConstantsAssumption DEF Amounts
  <2> QED
    BY <1>1, <2>1, <2>2, OneEntries, OneEntry DEF TrialEntry
<1>2. CASE ~ verified
  <2>1. DOMAIN << >> = {}
    OBVIOUS
  <2>2. TrialEntry(verified) = << >>
    BY <1>2 DEF TrialEntry
  <2> QED
    BY <1>2, <2>1, <2>2, FS_EmptySet DEF Entries
<1> QED
  BY <1>1, <1>2

LEMMA ExpiryEntries ==
  ASSUME NEW bk, \A b \in BucketId : bk[b].available \in Credits
  PROVE  /\ Entries(ExpireEntries(bk))
         /\ DOMAIN ExpireEntries(bk) = {"EXPIRE"} \X Expirable(bk)
         /\ \A b \in Expirable(bk) : ExpireEntries(bk)[<<"EXPIRE", b>>] = -bk[b].available
<1> DEFINE e == ExpireEntries(bk)
           X == Expirable(bk)
<1>1. X \in SUBSET BucketId
  BY DEF Expirable
<1>2. e = [k \in {"EXPIRE"} \X X |-> -bk[k[2]].available]
  BY DEF ExpireEntries
<1> HIDE DEF e, X
<1>3. DOMAIN e = {"EXPIRE"} \X X /\ \A b \in X : e[<<"EXPIRE", b>>] = -bk[b].available
  BY <1>2
<1>4. IsFiniteSet(DOMAIN e)
  <2>1. IsFiniteSet(X) /\ IsFiniteSet({"EXPIRE"})
    BY <1>1, FiniteBuckets, FS_Subset, FS_Singleton
  <2> QED
    BY <1>3, <2>1, FS_Product
<1>5. DOMAIN e \subseteq EntryKey
  BY <1>1, <1>3 DEF EntryKey
<1>6. ASSUME NEW k \in DOMAIN e PROVE e[k] \in Amounts
  <2>1. PICK b \in X : k = <<"EXPIRE", b>>
    BY <1>3
  <2>2. bk[b].available \in Credits
    BY <1>1, <2>1
  <2> QED
    BY <1>3, <2>1, <2>2, ConstantsAssumption DEF Credits, Amounts
<1> QED
  BY <1>3, <1>4, <1>5, <1>6 DEF Entries, e, X

LEMMA Charges ==
  ASSUME NEW C \in SUBSET Reference
  PROVE  /\ Entries(ChargeEntries(C))
         /\ DOMAIN ChargeEntries(C) = {"CHARGE"} \X C
         /\ \A r \in C : ChargeEntries(C)[<<"CHARGE", r>>] = -Cost[r]
<1> DEFINE e == ChargeEntries(C)
<1>1. e = [k \in {"CHARGE"} \X C |-> -Cost[k[2]]]
  BY DEF ChargeEntries
<1> HIDE DEF e
<1>2. DOMAIN e = {"CHARGE"} \X C /\ \A r \in C : e[<<"CHARGE", r>>] = -Cost[r]
  BY <1>1
<1>3. IsFiniteSet(DOMAIN e)
  <2>1. IsFiniteSet(C) /\ IsFiniteSet({"CHARGE"})
    BY ConstantsAssumption, FS_Subset, FS_Singleton
  <2> QED
    BY <1>2, <2>1, FS_Product
<1>4. DOMAIN e \subseteq EntryKey
  BY <1>2 DEF EntryKey
<1>5. ASSUME NEW k \in DOMAIN e PROVE e[k] \in Amounts
  <2>1. PICK r \in C : k = <<"CHARGE", r>>
    BY <1>2
  <2>2. Cost[r] \in 1 .. MaxCredit
    BY ConstantsAssumption
  <2> QED
    BY <1>2, <2>1, <2>2, ConstantsAssumption DEF Amounts
<1> QED
  BY <1>2, <1>3, <1>4, <1>5 DEF Entries, e

-----------------------------------------------------------------------------
(* Which entries are posted.                                               *)

\* A grant is in the ledger when its bucket is, and only then; a bucket that
\* expired was granted.
GrantsPosted(bk, lg) ==
  /\ \A b \in BucketId :
       /\ b[1] \in {"trial", "payment"} => (bk[b].granted # 0 <=> <<"GRANT", b>> \in DOMAIN lg)
       /\ <<"EXPIRE", b>> \in DOMAIN lg => bk[b].granted # 0
  /\ \A a \in Adjustment :
       bk[AdjustmentBucket(a)].granted # 0 => <<"ADJUSTMENT", a>> \in DOMAIN lg
  /\ \A r \in Reference : bk[RefundBucket(r)].granted # 0 => <<"REFUND", r>> \in DOMAIN lg

OutcomesPosted(h, lg) ==
  \A r \in Reference :
    /\ h[r].status \in {"captured", "refunded"} <=> <<"CHARGE", r>> \in DOMAIN lg
    /\ h[r].status = "refunded" <=> <<"REFUND", r>> \in DOMAIN lg

\* The entries in lg2 and not in lg are of the kinds in K.
OnlyPosts(lg, lg2, K) ==
  DOMAIN lg \subseteq DOMAIN lg2 /\ \A k \in DOMAIN lg2 \ DOMAIN lg : k[1] \in K

LEMMA GrantsPostedKept ==
  ASSUME NEW bk, NEW bk2, NEW lg, NEW lg2, GrantsPosted(bk, lg), SameGrants(bk, bk2),
         OnlyPosts(lg, lg2, {"CHARGE", "REFUND", "REVERSAL", "ADJUSTMENT"})
  PROVE  GrantsPosted(bk2, lg2)
<1>1. \A b \in BucketId : bk2[b].granted = bk[b].granted
  BY DEF SameGrants
<1>2. /\ \A a \in Adjustment : AdjustmentBucket(a) \in BucketId
      /\ \A r \in Reference : RefundBucket(r) \in BucketId
  BY DEF BucketId, AdjustmentBucket, RefundBucket
<1>3. \A b : /\ <<"GRANT", b>> \in DOMAIN lg2 => <<"GRANT", b>> \in DOMAIN lg
             /\ <<"EXPIRE", b>> \in DOMAIN lg2 => <<"EXPIRE", b>> \in DOMAIN lg
  BY DEF OnlyPosts
<1>4. DOMAIN lg \subseteq DOMAIN lg2
  BY DEF OnlyPosts
<1> QED
  BY <1>1, <1>2, <1>3, <1>4 DEF GrantsPosted

LEMMA OutcomesKept ==
  ASSUME NEW h, NEW h2, NEW lg, NEW lg2, OutcomesPosted(h, lg),
         \A r \in Reference : /\ h2[r].status = "captured" <=> h[r].status = "captured"
                              /\ h2[r].status = "refunded" <=> h[r].status = "refunded",
         OnlyPosts(lg, lg2, {"GRANT", "EXPIRE", "REVERSAL", "ADJUSTMENT"})
  PROVE  OutcomesPosted(h2, lg2)
<1>1. \A r : /\ <<"CHARGE", r>> \in DOMAIN lg2 <=> <<"CHARGE", r>> \in DOMAIN lg
             /\ <<"REFUND", r>> \in DOMAIN lg2 <=> <<"REFUND", r>> \in DOMAIN lg
  BY DEF OnlyPosts
<1> QED
  BY <1>1 DEF OutcomesPosted

LEMMA GrantPosted ==
  ASSUME NEW bk \in Buckets, NEW lg, GrantsPosted(bk, lg),
         NEW b \in BucketId, NEW amount \in 1 .. MaxCredit, NEW expires \in Nat,
         NEW lg2, DOMAIN lg \subseteq DOMAIN lg2,
         \A k \in DOMAIN lg2 \ DOMAIN lg : k[1] # "EXPIRE" /\ (k[1] = "GRANT" => k = <<"GRANT", b>>),
         b[1] \in {"trial", "payment"} => <<"GRANT", b>> \in DOMAIN lg2,
         \A a \in Adjustment : b = AdjustmentBucket(a) => <<"ADJUSTMENT", a>> \in DOMAIN lg2,
         \A r \in Reference : b = RefundBucket(r) => <<"REFUND", r>> \in DOMAIN lg2
  PROVE  GrantsPosted(Grant(bk, b, amount, expires), lg2)
<1> DEFINE bk2 == Grant(bk, b, amount, expires)
<1>1. /\ bk2[b].granted # 0
      /\ \A c \in BucketId : c # b => bk2[c] = bk[c]
      /\ \A c \in BucketId : bk[c].granted # 0 => bk2[c].granted # 0
  <2> DEFINE row == [granted |-> amount, available |-> amount, reserved |-> 0, expires |-> expires,
                     created |-> 1 + Cardinality({c \in BucketId : bk[c].granted # 0})]
  <2>1. row.granted # 0
    OBVIOUS
  <2>2. bk2 = IF bk[b].granted # 0 THEN bk ELSE [bk EXCEPT ![b] = row]
    BY DEF Grant
  <2> HIDE DEF row, bk2
  <2> QED
    BY <2>1, <2>2 DEF Buckets
<1> HIDE DEF bk2
<1>2. /\ \A a \in Adjustment : AdjustmentBucket(a) \in BucketId
      /\ \A r \in Reference : RefundBucket(r) \in BucketId
  BY DEF BucketId, AdjustmentBucket, RefundBucket
<1>3. \A c : /\ <<"EXPIRE", c>> \in DOMAIN lg2 => <<"EXPIRE", c>> \in DOMAIN lg
             /\ <<"GRANT", c>> \in DOMAIN lg2 => <<"GRANT", c>> \in DOMAIN lg \/ c = b
  OBVIOUS
<1> QED
  BY <1>1, <1>2, <1>3 DEF GrantsPosted, bk2

LEMMA ExpiryPosted ==
  ASSUME NEW bk \in Buckets, NEW lg, GrantsPosted(bk, lg),
         \A b \in BucketId : /\ bk[b].available \in Credits
                             /\ bk[b].available > 0 => b \in GrantedBuckets(bk)
  PROVE  GrantsPosted(Expired(bk), Post(lg, ExpireEntries(bk)))
<1> DEFINE lg2 == Post(lg, ExpireEntries(bk))
           bk2 == Expired(bk)
<1>1. DOMAIN lg2 = DOMAIN lg \cup ({"EXPIRE"} \X Expirable(bk))
  <2>1. DOMAIN ExpireEntries(bk) = {"EXPIRE"} \X Expirable(bk)
    BY ExpiryEntries
  <2>2. DOMAIN lg2 = DOMAIN lg \cup DOMAIN ExpireEntries(bk)
    BY PostAdds
  <2> HIDE DEF lg2
  <2> QED
    BY <2>1, <2>2
<1>2. \A b \in BucketId : bk2[b].granted = bk[b].granted
  BY ExpiredKeepsGrants DEF SameGrants
<1>3. \A b \in Expirable(bk) : b \in BucketId /\ bk[b].granted # 0
  BY DEF Expirable, GrantedBuckets
<1> HIDE DEF lg2, bk2
<1>4. /\ \A a \in Adjustment : AdjustmentBucket(a) \in BucketId
      /\ \A r \in Reference : RefundBucket(r) \in BucketId
  BY DEF BucketId, AdjustmentBucket, RefundBucket
<1>5. \A b : /\ <<"GRANT", b>> \in DOMAIN lg2 => <<"GRANT", b>> \in DOMAIN lg
             /\ <<"EXPIRE", b>> \in DOMAIN lg2 => <<"EXPIRE", b>> \in DOMAIN lg \/ b \in Expirable(bk)
  BY <1>1
<1>6. DOMAIN lg \subseteq DOMAIN lg2
  BY <1>1
<1> QED
  BY <1>2, <1>3, <1>4, <1>5, <1>6 DEF GrantsPosted, lg2, bk2

-----------------------------------------------------------------------------
(* What each transaction posts.                                            *)

Posted ==
  /\ Entries(ledger)
  /\ GrantsPosted(bucket, ledger)
  /\ OutcomesPosted(hold, ledger)

LEMMA OnlyPostsEntries ==
  ASSUME NEW lg, NEW e, NEW K, \A k \in DOMAIN e : k[1] \in K
  PROVE  OnlyPosts(lg, Post(lg, e), K) /\ OnlyPosts(lg, lg, K)
<1>1. DOMAIN Post(lg, e) = DOMAIN lg \cup DOMAIN e
  BY PostAdds
<1> QED
  BY <1>1 DEF OnlyPosts

LEMMA TrialPosted ==
  ASSUME IInv, Posted, NEW verified \in BOOLEAN
  PROVE  LET lg == Post(ledger, TrialEntry(verified))
         IN  /\ Entries(lg)
             /\ GrantsPosted(WithTrial(bucket, verified), lg)
             /\ OnlyPosts(ledger, lg, {"GRANT", "EXPIRE", "REVERSAL", "ADJUSTMENT"})
<1> DEFINE lg == Post(ledger, TrialEntry(verified))
<1>1. Entries(lg)
  BY TrialEntries, PostEntries DEF Posted
<1>2. DOMAIN lg = DOMAIN ledger \cup DOMAIN TrialEntry(verified)
  BY PostAdds
<1> HIDE DEF lg
<1>3. \A k \in DOMAIN lg \ DOMAIN ledger : k = <<"GRANT", Trial>>
  BY <1>2, TrialEntries
<1>4. OnlyPosts(ledger, lg, {"GRANT", "EXPIRE", "REVERSAL", "ADJUSTMENT"})
  BY <1>2, <1>3 DEF OnlyPosts
<1>5. GrantsPosted(WithTrial(bucket, verified), lg)
  <2>1. CASE verified
    <3>1. <<"GRANT", Trial>> \in DOMAIN lg
      BY <1>2, <2>1, TrialEntries
    <3>2. /\ Trial \in BucketId /\ TrialGrant \in 1 .. MaxCredit /\ now + TrialDays \in Nat
          /\ \A a \in Adjustment : Trial # AdjustmentBucket(a)
          /\ \A r \in Reference : Trial # RefundBucket(r)
      BY ConstantsAssumption DEF IInv, BucketId, Trial, AdjustmentBucket, RefundBucket
    <3>3. GrantsPosted(Grant(bucket, Trial, TrialGrant, now + TrialDays), lg)
      BY <1>2, <1>3, <3>1, <3>2, GrantPosted DEF IInv, Posted
    <3> QED
      BY <2>1, <3>3 DEF WithTrial
  <2>2. CASE ~ verified
    <3>1. DOMAIN TrialEntry(verified) = {}
      BY <2>2 DEF TrialEntry
    <3>2. DOMAIN lg = DOMAIN ledger
      BY <1>2, <3>1
    <3> QED
      BY <2>2, <3>2 DEF WithTrial, Posted, GrantsPosted
  <2> QED
    BY <2>1, <2>2
<1> QED
  BY <1>1, <1>4, <1>5 DEF lg

LEMMA LivePosted ==
  ASSUME IInv, Funded, Posted, NEW verified \in BOOLEAN
  PROVE  LET granted == WithTrial(bucket, verified)
             lg == Post(Post(ledger, TrialEntry(verified)), ExpireEntries(granted))
         IN  /\ Entries(lg)
             /\ GrantsPosted(Expired(granted), lg)
             /\ OnlyPosts(ledger, lg, {"GRANT", "EXPIRE", "REVERSAL", "ADJUSTMENT"})
<1> DEFINE granted == WithTrial(bucket, verified)
           lg1 == Post(ledger, TrialEntry(verified))
           lg == Post(lg1, ExpireEntries(granted))
           K == {"GRANT", "EXPIRE", "REVERSAL", "ADJUSTMENT"}
<1>1. Entries(lg1) /\ GrantsPosted(granted, lg1) /\ OnlyPosts(ledger, lg1, K)
  BY TrialPosted
<1>2. /\ granted \in Buckets /\ Sound(granted, hold)
      /\ GrantsInOrder(granted) /\ GrantsInBounds(granted)
  BY LiveBuckets DEF Funded
<1> HIDE DEF granted, lg1
<1>3. \A b \in BucketId : /\ granted[b].available \in Credits
                          /\ granted[b].available > 0 => b \in GrantedBuckets(granted)
  BY <1>2, AvailableInBounds DEF IInv
<1>4. Entries(lg)
  BY <1>1, <1>3, ExpiryEntries, PostEntries
<1>5. GrantsPosted(Expired(granted), lg)
  BY <1>1, <1>2, <1>3, ExpiryPosted
<1>6. DOMAIN lg = DOMAIN lg1 \cup ({"EXPIRE"} \X Expirable(granted))
  <2>1. DOMAIN ExpireEntries(granted) = {"EXPIRE"} \X Expirable(granted)
    BY <1>3, ExpiryEntries
  <2>2. DOMAIN lg = DOMAIN lg1 \cup DOMAIN ExpireEntries(granted)
    BY PostAdds
  <2> HIDE DEF lg
  <2> QED
    BY <2>1, <2>2
<1> HIDE DEF lg
<1>7. OnlyPosts(ledger, lg, K)
  <2>1. \A k \in {"EXPIRE"} \X Expirable(granted) : k[1] = "EXPIRE"
    OBVIOUS
  <2> QED
    BY <1>1, <1>6, <2>1 DEF OnlyPosts
<1> QED
  BY <1>4, <1>5, <1>7 DEF lg, lg1, granted

LEMMA CreditAccountPosted ==
  ASSUME IInv, Funded, Posted, NEW verified \in BOOLEAN, CreditAccount(verified)
  PROVE  Posted'
<1>1. OutcomesPosted(hold', ledger')
  BY LivePosted, OutcomesKept DEF CreditAccount, Posted
<1> QED
  BY <1>1, LivePosted DEF CreditAccount, Posted

LEMMA ReservePosted ==
  ASSUME IInv, Funded, Posted, NEW r \in Reference, NEW verified \in BOOLEAN, Reserve(r, verified)
  PROVE  Posted'
<1> DEFINE granted == WithTrial(bucket, verified)
           live == Expired(granted)
           spend == Spend(live, Cost[r])
           row == [status |-> "reserved", allocated |-> spend, expires |-> now + HoldTime]
<1>1. CASE hold' = hold /\ bucket' = granted /\ ledger' = Post(ledger, TrialEntry(verified))
  <2>1. OutcomesPosted(hold', ledger')
    BY <1>1, TrialPosted, OutcomesKept DEF Posted
  <2> QED
    BY <1>1, <2>1, TrialPosted DEF Posted
<1>2. CASE /\ hold[r].status = "none"
           /\ bucket' = [b \in BucketId |-> [live[b] EXCEPT !.available = @ - spend[b],
                                                            !.reserved = @ + spend[b]]]
           /\ hold' = [hold EXCEPT ![r] = row]
           /\ ledger' = Post(Post(ledger, TrialEntry(verified)), ExpireEntries(granted))
  <2>1. Entries(ledger') /\ GrantsPosted(live, ledger')
        /\ OnlyPosts(ledger, ledger', {"GRANT", "EXPIRE", "REVERSAL", "ADJUSTMENT"})
    BY <1>2, LivePosted
  <2>2. live \in Buckets
    BY LiveBuckets DEF Funded
  <2>3. row.status = "reserved"
    OBVIOUS
  <2> HIDE DEF spend, row, live
  <2>4. SameGrants(live, bucket')
    BY <1>2, <2>2 DEF SameGrants, Buckets, Bucket
  <2>5. GrantsPosted(bucket', ledger')
    BY <2>1, <2>4, GrantsPostedKept DEF OnlyPosts
  <2>6. \A s \in Reference : /\ hold'[s].status = "captured" <=> hold[s].status = "captured"
                             /\ hold'[s].status = "refunded" <=> hold[s].status = "refunded"
    BY <1>2, <2>3 DEF IInv, Holds
  <2>7. OutcomesPosted(hold', ledger')
    BY <2>1, <2>6, OutcomesKept DEF Posted
  <2> QED
    BY <2>1, <2>5, <2>7 DEF Posted
<1> QED
  BY <1>1, <1>2 DEF Reserve

\* Captures and releases, and the reservations a reconciliation gives time.
LEMMA SettlePosted ==
  ASSUME IInv, Posted, NEW C \in SUBSET Reserved(hold), NEW R \in SUBSET Reserved(hold),
         C \cap R = {},
         bucket' = Settle(bucket, C, R),
         \A r \in Reference : hold'[r].status = Settled(C, R)[r].status,
         \/ ledger' = Post(ledger, ChargeEntries(C))
         \/ C = {} /\ ledger' = ledger
  PROVE  Posted'
<1>0. C \in SUBSET Reference
  BY DEF Reserved, WithStatus
<1>1. /\ DOMAIN ledger' = DOMAIN ledger \cup ({"CHARGE"} \X C)
      /\ Entries(ledger')
  <2>1. CASE ledger' = Post(ledger, ChargeEntries(C))
    <3>1. /\ DOMAIN ChargeEntries(C) = {"CHARGE"} \X C
          /\ Entries(ChargeEntries(C))
      BY <1>0, Charges
    <3>2. Entries(ledger)
      BY DEF Posted
    <3>3. DOMAIN ledger' = DOMAIN ledger \cup ({"CHARGE"} \X C)
      BY <2>1, <3>1, PostAdds
    <3>4. Entries(ledger')
      BY <2>1, <3>1, <3>2, PostEntries
    <3> QED
      BY <3>3, <3>4
  <2>2. CASE C = {} /\ ledger' = ledger
    BY <2>2 DEF Posted
  <2> QED
    BY <2>1, <2>2
<1>2. SameGrants(bucket, bucket')
  BY SettleKeepsGrants DEF IInv
<1>3. OnlyPosts(ledger, ledger', {"CHARGE", "REFUND", "REVERSAL", "ADJUSTMENT"})
  <2>1. \A k \in {"CHARGE"} \X C : k[1] = "CHARGE"
    OBVIOUS
  <2> QED
    BY <1>1, <2>1 DEF OnlyPosts
<1>4. GrantsPosted(bucket', ledger')
  BY <1>2, <1>3, GrantsPostedKept DEF Posted
<1>5. ASSUME NEW r \in Reference
      PROVE  /\ hold'[r].status \in {"captured", "refunded"} <=> <<"CHARGE", r>> \in DOMAIN ledger'
             /\ hold'[r].status = "refunded" <=> <<"REFUND", r>> \in DOMAIN ledger'
  <2>1. /\ <<"CHARGE", r>> \in DOMAIN ledger' <=> <<"CHARGE", r>> \in DOMAIN ledger \/ r \in C
        /\ <<"REFUND", r>> \in DOMAIN ledger' <=> <<"REFUND", r>> \in DOMAIN ledger
    BY <1>1
  <2>2. hold'[r].status = IF r \in C THEN "captured" ELSE IF r \in R THEN "released"
                                                     ELSE hold[r].status
    BY SettledKeeps DEF IInv
  <2>3. r \in C \cup R => hold[r].status = "reserved"
    BY DEF Reserved, WithStatus
  <2>4. /\ hold[r].status \in {"captured", "refunded"} <=> <<"CHARGE", r>> \in DOMAIN ledger
        /\ hold[r].status = "refunded" <=> <<"REFUND", r>> \in DOMAIN ledger
    BY DEF Posted, OutcomesPosted
  <2> QED
    BY <2>1, <2>2, <2>3, <2>4
<1> QED
  BY <1>1, <1>4, <1>5 DEF Posted, OutcomesPosted

LEMMA ReconcilePosted ==
  ASSUME IInv, Posted, NEW C \in SUBSET Overdue, NEW R \in SUBSET (Overdue \ C),
         NEW D \in SUBSET (Overdue \ (C \cup R)), ReconcileExpiredReservations(C, R, D)
  PROVE  Posted'
<1> DEFINE g == Settled(C, R)
<1>1. C \in SUBSET Reserved(hold) /\ R \in SUBSET Reserved(hold) /\ C \cap R = {}
  BY DEF Overdue
<1>2. hold' = [r \in Reference |->
                IF r \in D THEN [hold[r] EXCEPT !.expires = now + DeferTime]
                ELSE g[r]]
  BY DEF ReconcileExpiredReservations, Reconciled
<1>3. \A r \in Reference : g[r].status = IF r \in C THEN "captured"
                                        ELSE IF r \in R THEN "released" ELSE hold[r].status
  BY <1>1, SettledKeeps DEF IInv
<1> HIDE DEF g
<1>4. \A r \in Reference : hold'[r].status = g[r].status
  BY <1>2, <1>3 DEF IInv, Holds, Hold
<1> QED
  BY <1>1, <1>4, SettlePosted DEF ReconcileExpiredReservations, g

LEMMA PaymentSucceededPosted ==
  ASSUME IInv, Posted, NEW p \in Period, PaymentSucceeded(p)
  PROVE  Posted'
<1> DEFINE b == PaymentBucket(p)
           expires == IF PeriodKind[p] = "subscription" THEN now + PeriodDays ELSE Never
           e == Entry(<<"GRANT", b>>, PeriodGrant[p])
<1>1. /\ b \in BucketId /\ b[1] = "payment" /\ PeriodGrant[p] \in 1 .. MaxCredit /\ expires \in Nat
      /\ \A a \in Adjustment : b # AdjustmentBucket(a)
      /\ \A r \in Reference : b # RefundBucket(r)
  BY ConstantsAssumption DEF IInv, BucketId, PaymentBucket, AdjustmentBucket, RefundBucket, Never
<1>2. bucket' = Grant(bucket, b, PeriodGrant[p], expires) /\ hold' = hold /\ ledger' = Post(ledger, e)
  BY DEF PaymentSucceeded
<1> HIDE DEF expires, b
<1>3. DOMAIN e = {<<"GRANT", b>>} /\ Entries(e)
  <2>1. <<"GRANT", b>> \in EntryKey
    BY <1>1 DEF EntryKey
  <2>2. PeriodGrant[p] \in Amounts
    BY <1>1, ConstantsAssumption DEF Amounts
  <2> QED
    BY <2>1, <2>2, OneEntries, OneEntry
<1> HIDE DEF e
<1>4. DOMAIN ledger' = DOMAIN ledger \cup {<<"GRANT", b>>} /\ Entries(ledger')
  BY <1>2, <1>3, PostAdds, PostEntries DEF Posted
<1>5. OutcomesPosted(hold', ledger')
  <2>1. OnlyPosts(ledger, ledger', {"GRANT", "EXPIRE", "REVERSAL", "ADJUSTMENT"})
    BY <1>4 DEF OnlyPosts
  <2> QED
    BY <1>2, <2>1, OutcomesKept DEF Posted
<1>6. GrantsPosted(bucket', ledger')
  <2> DEFINE lg == ledger'
  <2>1. /\ DOMAIN ledger \subseteq DOMAIN lg /\ <<"GRANT", b>> \in DOMAIN lg
        /\ \A k \in DOMAIN lg \ DOMAIN ledger :
             k[1] # "EXPIRE" /\ (k[1] = "GRANT" => k = <<"GRANT", b>>)
    BY <1>4
  <2>2. bucket \in Buckets /\ GrantsPosted(bucket, ledger)
    BY DEF IInv, Posted
  <2> HIDE DEF lg
  <2>3. GrantsPosted(Grant(bucket, b, PeriodGrant[p], expires), lg)
    BY <1>1, <2>1, <2>2, GrantPosted
  <2> QED
    BY <1>2, <2>3 DEF lg
<1> QED
  BY <1>4, <1>5, <1>6 DEF Posted

\* The grant of a refund or an adjustment, whose own entry is posted with it.
LEMMA RefundPosted ==
  ASSUME IInv, Funded, Posted, NEW r \in Reference, Refund(r)
  PROVE  Posted'
<1> DEFINE rest == Total(hold[r].allocated, Lapsed)
           returned == Returned(r)
           e == Entry(<<"REFUND", r>>, Cost[r])
           lg == ledger'
<1>1. /\ hold[r].status = "captured"
      /\ bucket' = IF rest = 0 THEN returned ELSE Grant(returned, RefundBucket(r), rest, Never)
      /\ hold' = [hold EXCEPT ![r].status = "refunded"]
      /\ lg = Post(ledger, e)
      /\ rest \in Credits
      /\ returned \in Buckets /\ SameGrants(bucket, returned)
  BY RefundWrites
<1>2. rest \in Nat /\ rest <= MaxCredit
  BY <1>1, ConstantsAssumption DEF Credits
<1> HIDE DEF rest
<1>3. returned \in Buckets /\ SameGrants(bucket, returned)
  BY <1>1
<1>4. DOMAIN lg = DOMAIN ledger \cup {<<"REFUND", r>>} /\ Entries(lg)
  <2>1. <<"REFUND", r>> \in EntryKey
    BY DEF EntryKey
  <2>2. Cost[r] \in Amounts
    BY ConstantsAssumption DEF Amounts
  <2>3. DOMAIN e = {<<"REFUND", r>>} /\ Entries(e)
    BY <2>1, <2>2, OneEntries, OneEntry
  <2> HIDE DEF e, lg
  <2> QED
    BY <1>1, <2>3, PostAdds, PostEntries DEF Posted
<1> HIDE DEF returned, lg
<1>5. OnlyPosts(ledger, lg, {"CHARGE", "REFUND", "REVERSAL", "ADJUSTMENT"})
  BY <1>4 DEF OnlyPosts
<1>6. GrantsPosted(returned, ledger) /\ GrantsPosted(returned, lg)
  <2>1. OnlyPosts(ledger, ledger, {"CHARGE", "REFUND", "REVERSAL", "ADJUSTMENT"})
    BY DEF OnlyPosts
  <2> QED
    BY <1>3, <1>5, <2>1, GrantsPostedKept DEF Posted
<1>7. GrantsPosted(bucket', lg)
  <2>1. CASE rest = 0
    BY <1>1, <1>6, <2>1
  <2>2. CASE rest # 0
    <3>1. /\ RefundBucket(r) \in BucketId /\ Never \in Nat /\ RefundBucket(r)[1] = "refund"
          /\ \A a \in Adjustment : RefundBucket(r) # AdjustmentBucket(a)
          /\ \A s \in Reference : RefundBucket(r) = RefundBucket(s) => r = s
      BY ConstantsAssumption DEF BucketId, RefundBucket, AdjustmentBucket, Never
    <3>2. rest \in 1 .. MaxCredit
      BY <1>2, <2>2, ConstantsAssumption
    <3>3. /\ DOMAIN ledger \subseteq DOMAIN lg /\ <<"REFUND", r>> \in DOMAIN lg
          /\ \A k \in DOMAIN lg \ DOMAIN ledger : k[1] # "EXPIRE" /\ k[1] # "GRANT"
      BY <1>4
    <3> DEFINE c == RefundBucket(r)
    <3> HIDE DEF c
    <3>4. GrantsPosted(Grant(returned, c, rest, Never), lg)
      <4>1. /\ c \in BucketId /\ Never \in Nat /\ c[1] \notin {"trial", "payment"}
            /\ \A a \in Adjustment : c # AdjustmentBucket(a)
            /\ \A s \in Reference : c = RefundBucket(s) => <<"REFUND", s>> \in DOMAIN lg
        BY <3>1, <3>3 DEF c
      <4> QED
        BY <1>3, <1>6, <3>2, <3>3, <4>1, GrantPosted
    <3> QED
      BY <1>1, <2>2, <3>4 DEF c
  <2> QED
    BY <2>1, <2>2
<1>8. ASSUME NEW s \in Reference
      PROVE  /\ hold'[s].status \in {"captured", "refunded"} <=> <<"CHARGE", s>> \in DOMAIN lg
             /\ hold'[s].status = "refunded" <=> <<"REFUND", s>> \in DOMAIN lg
  <2>1. /\ <<"CHARGE", s>> \in DOMAIN lg <=> <<"CHARGE", s>> \in DOMAIN ledger
        /\ <<"REFUND", s>> \in DOMAIN lg <=> <<"REFUND", s>> \in DOMAIN ledger \/ s = r
    BY <1>4
  <2>2. hold'[s].status = IF s = r THEN "refunded" ELSE hold[s].status
    BY <1>1 DEF IInv, Holds, Hold
  <2> QED
    BY <1>1, <2>1, <2>2 DEF Posted, OutcomesPosted
<1> QED
  BY <1>4, <1>7, <1>8 DEF Posted, OutcomesPosted, lg

LEMMA PaymentReversedPosted ==
  ASSUME IInv, Funded, Posted, NEW p \in Period, NEW amount \in 1 .. PeriodPrice[p],
         PaymentReversed(p, amount)
  PROVE  Posted'
<1> DEFINE b == PaymentBucket(p)
           R == OpenHolds(b)
           freed == Settle(bucket, {}, R)
           cumulative == reversal[p].amount + amount
           due == CumulativeCredits(bucket[b].granted, cumulative, PeriodPrice[p])
                    - reversal[p].credits
           unspent == Min2(freed[b].available, due)
           key == <<"REVERSAL", <<p, cumulative>>>>
           e == Entry(key, -unspent)
<1>1. /\ bucket' = [freed EXCEPT ![b].available = @ - unspent]
      /\ hold' = Settled({}, R)
      /\ ledger' = IF unspent = 0 THEN ledger ELSE Post(ledger, e)
      /\ CumulativeCredits(bucket[b].granted, cumulative, PeriodPrice[p]) >= reversal[p].credits
  BY DEF PaymentReversed
<1>2. b \in BucketId /\ R \in SUBSET Reserved(hold) /\ {} \in SUBSET Reserved(hold)
      /\ {} \cap R = {}
  BY DEF PaymentBucket, BucketId, OpenHolds
<1>3. freed \in Buckets /\ SameGrants(bucket, freed) /\ Sound(freed, hold') /\ hold' \in Holds
  BY <1>1, <1>2, SettleSound, SettleKeepsGrants DEF IInv
<1>4. freed[b].available \in Credits
  <2>1. GrantsInBounds(freed)
    BY <1>3, GrantsKept DEF Funded
  <2> HIDE DEF freed
  <2> QED
    BY <1>2, <1>3, <2>1, AvailableInBounds
<1>5. cumulative \in Nat /\ due \in Nat
  <2>1. /\ cumulative \in Nat /\ PeriodPrice[p] \in Nat \ {0} /\ bucket[b].granted \in Nat
        /\ reversal[p].credits \in Nat
    BY <1>2, ConstantsAssumption DEF IInv, Buckets, Bucket
  <2> HIDE DEF cumulative, b
  <2>2. CumulativeCredits(bucket[b].granted, cumulative, PeriodPrice[p]) \in Nat
    BY <2>1, CumulativeCreditsIsNat
  <2> QED
    BY <1>1, <2>1, <2>2
<1> HIDE DEF due, freed, cumulative, b, R
<1>6. unspent \in Credits
  BY <1>4, <1>5, ConstantsAssumption DEF Min2, Credits
<1> HIDE DEF unspent
<1>7. DOMAIN e = {key} /\ Entries(e)
  <2>1. key \in EntryKey
    BY <1>5 DEF EntryKey
  <2>2. -unspent \in Amounts
    BY <1>6, ConstantsAssumption DEF Amounts, Credits
  <2> HIDE DEF key
  <2> QED
    BY <2>1, <2>2, OneEntries, OneEntry
<1> HIDE DEF e
<1>8. /\ DOMAIN ledger \subseteq DOMAIN ledger' /\ Entries(ledger')
      /\ \A k \in DOMAIN ledger' \ DOMAIN ledger : k[1] = "REVERSAL"
  <2>1. CASE unspent = 0
    BY <1>1, <2>1 DEF Posted
  <2>2. CASE unspent # 0
    <3>1. ledger' = Post(ledger, e)
      BY <1>1, <2>2
    <3>2. DOMAIN ledger' = DOMAIN ledger \cup {key}
      BY <1>7, <3>1, PostAdds
    <3>3. Entries(ledger')
      BY <1>7, <3>1, PostEntries DEF Posted
    <3> QED
      BY <3>2, <3>3
  <2> QED
    BY <2>1, <2>2
<1>9. OutcomesPosted(hold', ledger')
  <2>1. \A s \in Reference : /\ hold'[s].status = "captured" <=> hold[s].status = "captured"
                             /\ hold'[s].status = "refunded" <=> hold[s].status = "refunded"
    <3> SUFFICES ASSUME NEW s \in Reference
                 PROVE  /\ hold'[s].status = "captured" <=> hold[s].status = "captured"
                        /\ hold'[s].status = "refunded" <=> hold[s].status = "refunded"
      OBVIOUS
    <3>1. hold'[s].status = IF s \in R THEN "released" ELSE hold[s].status
      BY <1>1, <1>2, SettledKeeps DEF IInv
    <3>2. s \in R => hold[s].status = "reserved"
      BY <1>2 DEF Reserved, WithStatus
    <3> QED
      BY <3>1, <3>2
  <2>2. OnlyPosts(ledger, ledger', {"GRANT", "EXPIRE", "REVERSAL", "ADJUSTMENT"})
    BY <1>8 DEF OnlyPosts
  <2> QED
    BY <2>1, <2>2, OutcomesKept DEF Posted
<1>10. GrantsPosted(bucket', ledger')
  <2>1. OnlyPosts(ledger, ledger', {"CHARGE", "REFUND", "REVERSAL", "ADJUSTMENT"})
    BY <1>8 DEF OnlyPosts
  <2>2. SameGrants(bucket, bucket')
    <3>1. SameGrants(freed, bucket')
      BY <1>1, <1>2, <1>3 DEF SameGrants, Buckets, Bucket
    <3> QED
      BY <1>3, <3>1, SameGrantsTwice
  <2> QED
    BY <2>1, <2>2, GrantsPostedKept DEF Posted
<1> QED
  BY <1>8, <1>9, <1>10 DEF Posted

LEMMA AdjustPosted ==
  ASSUME IInv, Posted, NEW a \in Adjustment, Adjust(a)
  PROVE  Posted'
<1> DEFINE amount == AdjustmentAmount[a]
           drain == Drain(bucket, -amount)
           key == <<"ADJUSTMENT", a>>
           e == Entry(key, amount)
<1>1. hold' = hold /\ ledger' = Post(ledger, e)
  BY DEF Adjust
<1>2. DOMAIN ledger' = DOMAIN ledger \cup {key} /\ Entries(ledger')
  <2>1. key \in EntryKey
    BY DEF EntryKey
  <2>2. amount \in Amounts
    BY ConstantsAssumption DEF Amounts
  <2> HIDE DEF key, amount
  <2>3. DOMAIN e = {key} /\ Entries(e)
    BY <2>1, <2>2, OneEntries, OneEntry
  <2> HIDE DEF e
  <2> QED
    BY <1>1, <2>3, PostAdds, PostEntries DEF Posted
<1>3. OutcomesPosted(hold', ledger')
  <2>1. OnlyPosts(ledger, ledger', {"GRANT", "EXPIRE", "REVERSAL", "ADJUSTMENT"})
    BY <1>2 DEF OnlyPosts
  <2> QED
    BY <1>1, <2>1, OutcomesKept DEF Posted
<1>4. CASE amount > 0 /\ bucket' = Grant(bucket, AdjustmentBucket(a), amount, Never)
  <2> DEFINE c == AdjustmentBucket(a)
             lg == ledger'
  <2>1. /\ c \in BucketId /\ Never \in Nat /\ c[1] \notin {"trial", "payment"}
        /\ \A d \in Adjustment : c = AdjustmentBucket(d) => <<"ADJUSTMENT", d>> \in DOMAIN lg
        /\ \A s \in Reference : c # RefundBucket(s)
    BY <1>2, ConstantsAssumption DEF BucketId, AdjustmentBucket, RefundBucket, Never
  <2>2. /\ DOMAIN ledger \subseteq DOMAIN lg
        /\ \A k \in DOMAIN lg \ DOMAIN ledger : k[1] # "EXPIRE" /\ k[1] # "GRANT"
    BY <1>2
  <2>3. amount \in 1 .. MaxCredit
    BY <1>4, ConstantsAssumption
  <2>4. bucket \in Buckets /\ GrantsPosted(bucket, ledger)
    BY DEF IInv, Posted
  <2> HIDE DEF c, lg, amount
  <2>5. GrantsPosted(Grant(bucket, c, amount, Never), lg)
    BY <2>1, <2>2, <2>3, <2>4, GrantPosted
  <2>6. GrantsPosted(bucket', ledger')
    BY <1>4, <2>5 DEF c, lg
  <2> QED
    BY <1>2, <1>3, <2>6 DEF Posted
<1>5. CASE bucket' = [b \in BucketId |-> [bucket[b] EXCEPT !.available = @ - drain[b]]]
  <2> HIDE DEF drain
  <2>1. SameGrants(bucket, bucket')
    BY <1>5 DEF IInv, SameGrants, Buckets, Bucket
  <2>2. OnlyPosts(ledger, ledger', {"CHARGE", "REFUND", "REVERSAL", "ADJUSTMENT"})
    BY <1>2 DEF OnlyPosts
  <2>3. GrantsPosted(bucket', ledger')
    BY <2>1, <2>2, GrantsPostedKept DEF Posted
  <2> QED
    BY <1>2, <1>3, <2>3 DEF Posted
<1> QED
  BY <1>4, <1>5 DEF Adjust

LEMMA InitPosted == Init => Posted
<1> SUFFICES ASSUME Init PROVE Posted
  OBVIOUS
<1>1. DOMAIN ledger = {}
  BY DEF Init
<1>2. Entries(ledger)
  BY <1>1, FS_EmptySet DEF Entries
<1>3. \A b \in BucketId : bucket[b].granted = 0
  BY DEF Init, NoBucket
<1>4. /\ \A a \in Adjustment : AdjustmentBucket(a) \in BucketId
      /\ \A r \in Reference : RefundBucket(r) \in BucketId
  BY DEF BucketId, AdjustmentBucket, RefundBucket
<1>5. GrantsPosted(bucket, ledger)
  BY <1>1, <1>3, <1>4 DEF GrantsPosted
<1>6. \A r \in Reference : hold[r].status = "none"
  BY DEF Init, NoHold
<1>7. OutcomesPosted(hold, ledger)
  BY <1>1, <1>6 DEF OutcomesPosted
<1> QED
  BY <1>2, <1>5, <1>7 DEF Posted

LEMMA PostedInductive == IInv /\ Funded /\ Posted /\ [Next]_vars => Posted'
<1> SUFFICES ASSUME IInv, Funded, Posted, [Next]_vars PROVE Posted'
  OBVIOUS
<1>1. ASSUME NEW verified \in BOOLEAN, CreditAccount(verified) PROVE Posted'
  BY <1>1, CreditAccountPosted
<1>2. ASSUME NEW r \in Reference, NEW verified \in BOOLEAN, Reserve(r, verified) PROVE Posted'
  BY <1>2, ReservePosted
<1>3. ASSUME NEW r \in Reference, Capture(r) \/ Release(r) \/ Refund(r) PROVE Posted'
  <2>1. /\ {} \in SUBSET Reserved(hold) /\ {r} \cap {} = {} /\ {} \cap {r} = {}
        /\ hold[r].status = "reserved" => {r} \in SUBSET Reserved(hold)
    BY DEF Reserved, WithStatus
  <2>2. CASE Capture(r)
    BY <2>1, <2>2, SettlePosted DEF Capture
  <2>3. CASE Release(r)
    BY <2>1, <2>3, SettlePosted DEF Release
  <2> QED
    BY <1>3, <2>2, <2>3, RefundPosted
<1>4. ASSUME NEW C \in SUBSET Overdue, NEW R \in SUBSET (Overdue \ C),
             NEW D \in SUBSET (Overdue \ (C \cup R)), ReconcileExpiredReservations(C, R, D)
      PROVE  Posted'
  BY <1>4, ReconcilePosted
<1>5. ASSUME NEW p \in Period, PaymentSucceeded(p) PROVE Posted'
  BY <1>5, PaymentSucceededPosted
<1>6. ASSUME NEW p \in Period, NEW amount \in 1 .. PeriodPrice[p], PaymentReversed(p, amount)
      PROVE  Posted'
  BY <1>6, PaymentReversedPosted
<1>7. ASSUME NEW a \in Adjustment, Adjust(a) PROVE Posted'
  BY <1>7, AdjustPosted
<1>8. CASE Tick \/ UNCHANGED vars
  <2>1. bucket' = bucket /\ hold' = hold /\ ledger' = ledger
    BY <1>8 DEF Tick, vars
  <2> QED
    BY <2>1 DEF Posted
<1> QED
  BY <1>1, <1>2, <1>3, <1>4, <1>5, <1>6, <1>7, <1>8 DEF Next

LEMMA AlwaysPosted == Spec => []Posted
BY AlwaysIInv, AlwaysFunded, InitPosted, PostedInductive, PTL DEF Spec

\* The charge of a reservation is in the ledger exactly when it was captured,
\* its refund exactly when it was refunded, whichever of capture and
\* reconciliation charged it.
THEOREM ChargesAreOutcomes == Spec => []ChargesMatchOutcomes
<1>1. Posted => ChargesMatchOutcomes
  BY DEF Posted, OutcomesPosted, ChargesMatchOutcomes
<1> QED
  BY <1>1, AlwaysPosted, PTL

-----------------------------------------------------------------------------
(* What is reversed of a payment.                                          *)

\* lg2 has what lg has, and entries of the kinds in K.
Appends(lg, lg2, K) == OnlyPosts(lg, lg2, K) /\ \A k \in DOMAIN lg : lg2[k] = lg[k]

OtherKinds == {"GRANT", "EXPIRE", "CHARGE", "REFUND", "ADJUSTMENT"}

LEMMA PostAppends ==
  ASSUME NEW lg, NEW e, NEW K, \A k \in DOMAIN e : k[1] \in K
  PROVE  Appends(lg, Post(lg, e), K) /\ Appends(lg, lg, K)
BY OnlyPostsEntries, PostAdds DEF Appends, OnlyPosts

LEMMA AppendsTwice ==
  ASSUME NEW lg, NEW lg2, NEW lg3, NEW K, Appends(lg, lg2, K), Appends(lg2, lg3, K)
  PROVE  Appends(lg, lg3, K)
BY DEF Appends, OnlyPosts

\* Nothing but a payment reversal touches reversals, reviews and debt, or
\* posts a reversal; and no transaction changes an entry that is posted.
LEMMA OtherSteps ==
  ASSUME [Next]_vars, ~ \E p \in Period : \E amount \in 1 .. PeriodPrice[p] : PaymentReversed(p, amount)
  PROVE  /\ Appends(ledger, ledger', OtherKinds)
         /\ UNCHANGED <<account, reversal, review>>
<1> DEFINE K == OtherKinds
<1>1. UNCHANGED <<account, reversal, review>>
  BY DEF Next, vars, CreditAccount, Reserve, Capture, Release, Refund,
     ReconcileExpiredReservations, PaymentSucceeded, Adjust, Tick
<1>2. ASSUME NEW verified \in BOOLEAN, NEW bk
      PROVE  /\ Appends(ledger, Post(ledger, TrialEntry(verified)), K)
             /\ Appends(ledger, Post(Post(ledger, TrialEntry(verified)), ExpireEntries(bk)), K)
  <2> DEFINE lg == Post(ledger, TrialEntry(verified))
  <2>1. \A k \in DOMAIN TrialEntry(verified) : k[1] \in K
    BY TrialEntries DEF OtherKinds
  <2>2. \A k \in DOMAIN ExpireEntries(bk) : k[1] \in K
    BY DEF ExpireEntries, OtherKinds
  <2> HIDE DEF K
  <2>3. Appends(ledger, lg, K)
    BY <2>1, PostAppends
  <2> HIDE DEF lg
  <2>4. Appends(lg, Post(lg, ExpireEntries(bk)), K)
    BY <2>2, PostAppends
  <2>5. Appends(ledger, Post(lg, ExpireEntries(bk)), K)
    BY <2>3, <2>4, AppendsTwice
  <2> QED
    BY <2>3, <2>5 DEF lg
<1>3. ASSUME NEW C PROVE Appends(ledger, Post(ledger, ChargeEntries(C)), K)
  <2>1. \A k \in DOMAIN ChargeEntries(C) : k[1] \in K
    BY DEF ChargeEntries, OtherKinds
  <2> HIDE DEF K
  <2> QED
    BY <2>1, PostAppends
<1>4. ASSUME NEW k, NEW v, k[1] \in K PROVE Appends(ledger, Post(ledger, Entry(k, v)), K)
  <2>1. \A j \in DOMAIN Entry(k, v) : j[1] \in K
    <3>1. DOMAIN Entry(k, v) = {k}
      BY OneEntry
    <3> HIDE DEF K
    <3> QED
      BY <1>4, <3>1
  <2> HIDE DEF K
  <2> QED
    BY <2>1, PostAppends
<1>5. Appends(ledger, ledger, K)
  BY DEF Appends, OnlyPosts
<1>6. /\ \A r : <<"REFUND", r>>[1] \in K
      /\ \A b : <<"GRANT", b>>[1] \in K
      /\ \A a : <<"ADJUSTMENT", a>>[1] \in K
  BY DEF OtherKinds
<1> HIDE DEF K
<1>7. ASSUME NEW verified \in BOOLEAN, CreditAccount(verified) PROVE Appends(ledger, ledger', K)
  BY <1>2, <1>7 DEF CreditAccount
<1>8. ASSUME NEW r \in Reference, NEW verified \in BOOLEAN, Reserve(r, verified)
      PROVE  Appends(ledger, ledger', K)
  <2>1. \/ ledger' = Post(ledger, TrialEntry(verified))
        \/ ledger' = Post(Post(ledger, TrialEntry(verified)),
                          ExpireEntries(WithTrial(bucket, verified)))
    BY <1>8 DEF Reserve
  <2> QED
    BY <1>2, <2>1
<1>9. ASSUME NEW r \in Reference, Capture(r) \/ Release(r) \/ Refund(r)
      PROVE  Appends(ledger, ledger', K)
  BY <1>3, <1>4, <1>5, <1>6, <1>9 DEF Capture, Release, Refund
<1>10. ASSUME NEW C \in SUBSET Overdue, NEW R \in SUBSET (Overdue \ C),
              NEW D \in SUBSET (Overdue \ (C \cup R)), ReconcileExpiredReservations(C, R, D)
       PROVE  Appends(ledger, ledger', K)
  BY <1>3, <1>10 DEF ReconcileExpiredReservations
<1>11. ASSUME NEW p \in Period, PaymentSucceeded(p) PROVE Appends(ledger, ledger', K)
  BY <1>4, <1>6, <1>11 DEF PaymentSucceeded
<1>12. ASSUME NEW a \in Adjustment, Adjust(a) PROVE Appends(ledger, ledger', K)
  BY <1>4, <1>6, <1>12 DEF Adjust
<1>13. ASSUME Tick \/ UNCHANGED vars PROVE Appends(ledger, ledger', K)
  BY <1>5, <1>13 DEF Tick, vars
<1>14. Appends(ledger, ledger', K)
  BY <1>7, <1>8, <1>9, <1>10, <1>11, <1>12, <1>13 DEF Next
<1> QED
  BY <1>1, <1>14 DEF K

Taken(lg, p) == {k \in DOMAIN lg : k[1] = "REVERSAL" /\ k[2][1] = p}
Owed(rv, p) == {v \in rv : v.event[1] = p}
Debts(S) == Total([v \in S |-> v.debt], S)

\* Events are numbered by the amount reversed so far, so that an event that
\* is posted or under review never comes again.
Reversals ==
  /\ IsFiniteSet(review)
  /\ review \subseteq [event: Period \X Nat, debt: Credits]
  /\ \A v \in review : v.event[2] <= reversal[v.event[1]].amount
  /\ \A p \in Period, n \in Nat :
       <<"REVERSAL", <<p, n>>>> \in DOMAIN ledger => n <= reversal[p].amount
  /\ ReversalAccounted

\* A payment reversed in full has its whole grant reversed.
LEMMA CumulativeInFull ==
  ASSUME NEW g \in Nat, NEW price \in Nat \ {0}
  PROVE  CumulativeCredits(g, price, price) = g
<1> DEFINE n == g * price
           d == (n + price - 1) \div price
<1>1. n \in Nat
  OBVIOUS
<1>2. d \in Nat /\ n + price - 1 < d * price + price
  <2> HIDE DEF n
  <2> QED
    BY <1>1
<1>3. n < (d + 1) * price
  <2>1. (d + 1) * price = d * price + price
    <3> HIDE DEF d
    <3> QED
      BY <1>2
  <2> DEFINE m == d * price
  <2>2. m \in Nat
    BY <1>2
  <2> HIDE DEF m, n, d
  <2> QED
    BY <1>1, <1>2, <2>1, <2>2 DEF m
<1>4. g < d + 1
  <2> HIDE DEF d
  <2> SUFFICES ASSUME d + 1 <= g PROVE FALSE
    BY <1>2
  <2>1. (d + 1) * price <= g * price
    BY <1>2
  <2> QED
    BY <1>1, <1>2, <1>3, <2>1
<1>5. CumulativeCredits(g, price, price) = Min2(g, d)
  BY DEF CumulativeCredits
<1> HIDE DEF d
<1> QED
  BY <1>2, <1>4, <1>5 DEF Min2

LEMMA OtherStepsAccounted ==
  ASSUME Reversals, Appends(ledger, ledger', OtherKinds), UNCHANGED <<account, reversal, review>>
  PROVE  Reversals'
<1>1. \A p : Taken(ledger', p) = Taken(ledger, p)
  BY DEF Taken, Appends, OnlyPosts, OtherKinds
<1>2. \A p : SignedTotal(ledger', Taken(ledger, p)) = SignedTotal(ledger, Taken(ledger, p))
  <2> SUFFICES ASSUME NEW p
               PROVE  SignedTotal(ledger', Taken(ledger, p)) = SignedTotal(ledger, Taken(ledger, p))
    OBVIOUS
  <2>1. \A k \in Taken(ledger, p) : ledger'[k] = ledger[k]
    BY DEF Taken, Appends
  <2> DEFINE lg == ledger'
  <2>2. \A k \in Taken(ledger, p) : lg[k] = ledger[k]
    BY <2>1
  <2> HIDE DEF lg
  <2>3. SignedTotal(lg, Taken(ledger, p)) = SignedTotal(ledger, Taken(ledger, p))
    BY <2>2, SignedTotalOfSame
  <2> QED
    BY <2>3 DEF lg
<1>3. ReversalAccounted'
  <2>1. \A p \in Period :
          /\ reversal[p].credits = Debts(Owed(review, p)) - SignedTotal(ledger, Taken(ledger, p))
          /\ reversal[p].amount = PeriodPrice[p] => reversal[p].credits = PeriodGrant[p]
    BY DEF Reversals, ReversalAccounted, Taken, Owed, Debts
  <2>2. \A p \in Period :
          /\ reversal'[p].credits
               = Debts(Owed(review', p)) - SignedTotal(ledger', Taken(ledger', p))
          /\ reversal'[p].amount = PeriodPrice[p] => reversal'[p].credits = PeriodGrant[p]
    BY <1>1, <1>2, <2>1
  <2>3. /\ account'.debt = Total([v \in review' |-> v.debt], review')
        /\ account'.debt > 0 <=> account'.status = "review"
    BY DEF Reversals, ReversalAccounted
  <2> QED
    BY <2>2, <2>3 DEF ReversalAccounted, Taken, Owed, Debts
<1>4. \A p \in Period, n \in Nat :
        <<"REVERSAL", <<p, n>>>> \in DOMAIN ledger' => <<"REVERSAL", <<p, n>>>> \in DOMAIN ledger
  BY DEF Appends, OnlyPosts, OtherKinds
<1> QED
  BY <1>3, <1>4 DEF Reversals

LEMMA PaymentReversedAccounted ==
  ASSUME IInv, Funded, Posted, Reversals,
         NEW p \in Period, NEW amount \in 1 .. PeriodPrice[p], PaymentReversed(p, amount)
  PROVE  Reversals'
<1> DEFINE b == PaymentBucket(p)
           R == OpenHolds(b)
           freed == Settle(bucket, {}, R)
           cumulative == reversal[p].amount + amount
           credits == CumulativeCredits(bucket[b].granted, cumulative, PeriodPrice[p])
           due == credits - reversal[p].credits
           unspent == Min2(freed[b].available, due)
           debt == due - unspent
           event == <<p, cumulative>>
           key == <<"REVERSAL", event>>
           e == Entry(key, -unspent)
           v == [event |-> event, debt |-> debt]
           row == [amount |-> cumulative, credits |-> credits]
<1>1. /\ bucket[b].granted # 0
      /\ credits >= reversal[p].credits
      /\ reversal' = [reversal EXCEPT ![p] = row]
      /\ hold' = Settled({}, R)
      /\ account' = IF debt = 0 THEN account
                    ELSE [status |-> "review", debt |-> account.debt + debt]
      /\ review' = IF debt = 0 THEN review ELSE review \cup {v}
      /\ ledger' = IF unspent = 0 THEN ledger ELSE Post(ledger, e)
  BY DEF PaymentReversed
<1>2. b \in BucketId /\ R \in SUBSET Reserved(hold) /\ {} \in SUBSET Reserved(hold)
      /\ {} \cap R = {}
  BY DEF PaymentBucket, BucketId, OpenHolds
<1>3. freed \in Buckets /\ SameGrants(bucket, freed) /\ Sound(freed, hold') /\ hold' \in Holds
  BY <1>1, <1>2, SettleSound, SettleKeepsGrants DEF IInv
<1>4. freed[b].available \in Credits
  <2>1. GrantsInBounds(freed)
    BY <1>3, GrantsKept DEF Funded
  <2> HIDE DEF freed
  <2> QED
    BY <1>2, <1>3, <2>1, AvailableInBounds
<1>5. /\ cumulative \in Nat /\ cumulative > reversal[p].amount /\ reversal[p].amount \in Nat
      /\ PeriodPrice[p] \in Nat \ {0} /\ reversal[p].credits \in Nat
      /\ bucket[b].granted \in Nat
  BY <1>2, ConstantsAssumption DEF IInv, Buckets, Bucket
<1>6. bucket[b].granted = PeriodGrant[p] /\ PeriodGrant[p] \in Nat /\ PeriodGrant[p] <= MaxCredit
  BY <1>1, ConstantsAssumption DEF Funded, GrantsInBounds
<1>7. /\ credits \in Nat /\ credits <= PeriodGrant[p]
      /\ cumulative = PeriodPrice[p] => credits = PeriodGrant[p]
  <2> HIDE DEF cumulative, b
  <2>1. credits \in Nat
    BY <1>5, CumulativeCreditsIsNat
  <2>2. credits <= PeriodGrant[p]
    <3> DEFINE d == (bucket[b].granted * cumulative + PeriodPrice[p] - 1) \div PeriodPrice[p]
    <3>1. credits = Min2(bucket[b].granted, d)
      BY DEF CumulativeCredits
    <3> HIDE DEF d
    <3>2. credits = bucket[b].granted \/ (credits = d /\ ~ (bucket[b].granted <= d))
      BY <3>1 DEF Min2
    <3> HIDE DEF credits
    <3> QED
      BY <1>6, <2>1, <3>2
  <2>3. ASSUME cumulative = PeriodPrice[p] PROVE credits = PeriodGrant[p]
    BY <1>5, <1>6, <2>3, CumulativeInFull
  <2> QED
    BY <2>1, <2>2, <2>3
<1> HIDE DEF credits, cumulative, b, R, freed
<1>8. due \in Nat /\ due <= MaxCredit /\ credits = reversal[p].credits + due
  <2>1. credits >= reversal[p].credits /\ MaxCredit \in Nat
    BY <1>1, ConstantsAssumption
  <2> QED
    BY <1>5, <1>6, <1>7, <2>1
<1> HIDE DEF due
<1>9. unspent \in Credits /\ debt \in Credits /\ due = unspent + debt /\ MaxCredit \in Nat
  BY <1>4, <1>8, ConstantsAssumption DEF Min2, Credits
<1> HIDE DEF unspent, debt
<1>10. /\ key \notin DOMAIN ledger /\ v \notin review /\ event \in Period \X Nat
       /\ event[1] = p /\ event[2] = cumulative /\ key[1] = "REVERSAL" /\ key[2] = event
  <2>1. key \notin DOMAIN ledger
    BY <1>5 DEF Reversals
  <2>2. v \notin review
    BY <1>5 DEF Reversals
  <2> QED
    BY <1>5, <2>1, <2>2
<1>11. /\ reversal'[p] = row /\ \A q \in Period \ {p} : reversal'[q] = reversal[q]
       /\ row.amount = cumulative /\ row.credits = credits
  <2>1. row.amount = cumulative /\ row.credits = credits
    OBVIOUS
  <2> HIDE DEF row
  <2> QED
    BY <1>1, <2>1 DEF IInv
<1>12. v.event = event /\ v.debt = debt /\ v \in [event: Period \X Nat, debt: Credits]
  BY <1>9, <1>10
<1>13. DOMAIN e = {key} /\ e[key] = -unspent
  <2> HIDE DEF key
  <2> QED
    BY OneEntry
<1> HIDE DEF e, v, key, event, row
\* The ledger.
<1>14. /\ \A q \in Period \ {p} : Taken(ledger', q) = Taken(ledger, q)
       /\ Taken(ledger', p) = IF unspent = 0 THEN Taken(ledger, p) ELSE Taken(ledger, p) \cup {key}
       /\ key \notin Taken(ledger, p)
       /\ \A k \in DOMAIN ledger : ledger'[k] = ledger[k]
       /\ unspent # 0 => ledger'[key] = -unspent
       /\ DOMAIN ledger' \subseteq DOMAIN ledger \cup {key}
  <2>1. CASE unspent = 0
    BY <1>1, <1>10, <2>1 DEF Taken
  <2>2. CASE unspent # 0
    <3>1. ledger' = Post(ledger, e)
      BY <1>1, <2>2
    <3> DEFINE lg == Post(ledger, e)
    <3>2. /\ DOMAIN lg = DOMAIN ledger \cup DOMAIN e
          /\ \A k \in DOMAIN ledger : lg[k] = ledger[k]
          /\ \A k \in DOMAIN e \ DOMAIN ledger : lg[k] = e[k]
      BY PostAdds
    <3> HIDE DEF lg
    <3>3. /\ DOMAIN lg = DOMAIN ledger \cup {key} /\ lg[key] = -unspent
          /\ ledger' = lg
      BY <1>10, <1>13, <3>1, <3>2 DEF lg
    <3> QED
      BY <1>10, <2>2, <3>2, <3>3 DEF Taken
  <2> QED
    BY <2>1, <2>2
<1>15. /\ \A q \in Period : IsFiniteSet(Taken(ledger, q))
  BY FS_Subset DEF Taken, Posted, Entries
<1>16. \A q \in Period : SignedTotal(ledger', Taken(ledger, q)) = SignedTotal(ledger, Taken(ledger, q))
  <2> DEFINE lg == ledger'
  <2>1. \A q \in Period : \A k \in Taken(ledger, q) : lg[k] = ledger[k]
    BY <1>14 DEF Taken
  <2> HIDE DEF lg
  <2>2. \A q \in Period : SignedTotal(lg, Taken(ledger, q)) = SignedTotal(ledger, Taken(ledger, q))
    BY <2>1, SignedTotalOfSame
  <2> QED
    BY <2>2 DEF lg
<1>17. SignedTotal(ledger', Taken(ledger', p)) = SignedTotal(ledger, Taken(ledger, p)) - unspent
  <2>0. SignedTotal(ledger, Taken(ledger, p)) \in Int /\ unspent \in Int
    BY <1>9, <1>15, SignedTotalIsInt DEF Credits
  <2>1. CASE unspent = 0
    BY <1>14, <1>16, <2>0, <2>1
  <2>2. CASE unspent # 0
    <3> DEFINE lg == ledger'
               T == Taken(ledger, p)
    <3>1. Taken(lg, p) = T \cup {key} /\ T \cap {key} = {} /\ IsFiniteSet(T) /\ IsFiniteSet({key})
      BY <1>14, <1>15, <2>2, FS_Singleton
    <3>2. lg[key] = -unspent /\ lg[key] \in Amounts
      BY <1>9, <1>14, <2>2 DEF Credits, Amounts
    <3>3. SignedTotal(lg, T) = SignedTotal(ledger, T)
      BY <1>16
    <3> HIDE DEF lg, T
    <3>4. SignedTotal(lg, T \cup {key}) = SignedTotal(lg, T) + SignedTotal(lg, {key})
      BY <3>1, SignedTotalOfUnion
    <3>5. SignedTotal(lg, {key}) = -unspent
      BY <3>2, SignedTotalOfOne
    <3>6. SignedTotal(lg, Taken(lg, p)) = SignedTotal(ledger, T) - unspent
      BY <2>0, <3>1, <3>3, <3>4, <3>5 DEF T
    <3> QED
      BY <3>6 DEF lg, T
  <2> QED
    BY <2>1, <2>2
\* The reviews.
<1>18. /\ IsFiniteSet(review') /\ review' \subseteq [event: Period \X Nat, debt: Credits]
       /\ review \subseteq review' /\ review' \subseteq review \cup {v}
       /\ \A q \in Period \ {p} : Owed(review', q) = Owed(review, q)
       /\ Owed(review', p) = IF debt = 0 THEN Owed(review, p) ELSE Owed(review, p) \cup {v}
  <2>1. IsFiniteSet(review \cup {v})
    BY FS_AddElement DEF Reversals
  <2> QED
    BY <1>1, <1>10, <1>12, <2>1 DEF Reversals, Owed
<1>19. ASSUME NEW S \in SUBSET review
       PROVE  Debts(S \cup {v}) = Debts(S) + debt /\ Debts(S) \in Nat
  <2> DEFINE f == [w \in S \cup {v} |-> w.debt]
             g == [w \in S |-> w.debt]
  <2>1. IsFiniteSet(S) /\ v \notin S
    BY <1>10, FS_Subset DEF Reversals
  <2>2. f[v] = debt /\ f[v] \in Credits /\ \A w \in S : f[w] = g[w]
    BY <1>9, <1>12
  <2>3. Debts(S \cup {v}) = Total(f, S \cup {v}) /\ Debts(S) = Total(g, S)
    BY DEF Debts
  <2> HIDE DEF f, g
  <2>4. Total(f, S \cup {v}) = Total(f, S) + f[v]
    BY <2>1, <2>2, TotalWithOneMore
  <2>5. Total(f, S) = Total(g, S) /\ Total(g, S) \in Nat
    BY <2>1, <2>2, TotalOfSame, TotalIsNat
  <2> QED
    BY <2>2, <2>3, <2>4, <2>5
<1>20. Owed(review, p) \in SUBSET review
  BY DEF Owed
<1>21. Debts(Owed(review', p)) = Debts(Owed(review, p)) + debt /\ Debts(Owed(review, p)) \in Nat
  <2>1. debt \in Nat
    BY <1>9 DEF Credits
  <2>2. Debts(Owed(review, p) \cup {v}) = Debts(Owed(review, p)) + debt
        /\ Debts(Owed(review, p)) \in Nat
    BY <1>19, <1>20
  <2> QED
    BY <1>18, <2>1, <2>2
\* The accounts.
<1>22. \A q \in Period :
         /\ reversal[q].credits = Debts(Owed(review, q)) - SignedTotal(ledger, Taken(ledger, q))
         /\ reversal[q].amount = PeriodPrice[q] => reversal[q].credits = PeriodGrant[q]
  BY DEF Reversals, ReversalAccounted, Taken, Owed, Debts
<1>23. ASSUME NEW q \in Period
       PROVE  /\ reversal'[q].credits
                   = Debts(Owed(review', q)) - SignedTotal(ledger', Taken(ledger', q))
              /\ reversal'[q].amount = PeriodPrice[q] => reversal'[q].credits = PeriodGrant[q]
  <2>1. CASE q = p
    <3>1. SignedTotal(ledger, Taken(ledger, p)) \in Int /\ unspent \in Int /\ debt \in Int
      BY <1>9, <1>15, SignedTotalIsInt DEF Credits
    <3>2. credits = Debts(Owed(review', p)) - SignedTotal(ledger', Taken(ledger', p))
      BY <1>5, <1>8, <1>9, <1>17, <1>21, <1>22, <3>1
    <3> QED
      BY <1>7, <1>11, <2>1, <3>2
  <2>2. CASE q # p
    BY <1>11, <1>14, <1>16, <1>18, <1>22, <2>2
  <2> QED
    BY <2>1, <2>2
<1>24. account'.debt = Debts(review') /\ (account'.debt > 0 <=> account'.status = "review")
  <2>1. account.debt = Debts(review) /\ (account.debt > 0 <=> account.status = "review")
        /\ account.debt \in Nat
    BY DEF Reversals, ReversalAccounted, Debts, IInv
  <2>2. CASE debt = 0
    BY <1>1, <2>1, <2>2
  <2>3. CASE debt # 0
    <3>1. account' = [status |-> "review", debt |-> account.debt + debt] /\ review' = review \cup {v}
      BY <1>1, <2>3
    <3>2. Debts(review \cup {v}) = Debts(review) + debt
      BY <1>19
    <3>3. debt \in Nat /\ debt > 0
      BY <1>9, <2>3 DEF Credits
    <3> QED
      BY <2>1, <3>1, <3>2, <3>3
  <2> QED
    BY <2>2, <2>3
<1>25. ReversalAccounted'
  BY <1>23, <1>24 DEF ReversalAccounted, Taken, Owed, Debts
<1>26. \A w \in review' : w.event[2] <= reversal'[w.event[1]].amount
  <2> SUFFICES ASSUME NEW w \in review' PROVE w.event[2] <= reversal'[w.event[1]].amount
    OBVIOUS
  <2>1. CASE w = v
    BY <1>5, <1>10, <1>11, <1>12, <2>1
  <2>2. CASE w \in review
    <3>1. w.event \in Period \X Nat /\ w.event[2] <= reversal[w.event[1]].amount
      BY <2>2 DEF Reversals
    <3>2. w.event[1] \in Period /\ w.event[2] \in Nat
      BY <3>1
    <3> QED
      BY <1>5, <1>11, <3>1, <3>2
  <2> QED
    BY <1>18, <2>1, <2>2
<1>27. ASSUME NEW q \in Period, NEW n \in Nat, <<"REVERSAL", <<q, n>>>> \in DOMAIN ledger'
       PROVE  n <= reversal'[q].amount
  <2>1. CASE <<"REVERSAL", <<q, n>>>> = key
    <3>1. q = p /\ n = cumulative
      BY <2>1 DEF key, event
    <3> QED
      BY <1>5, <1>11, <3>1
  <2>2. CASE <<"REVERSAL", <<q, n>>>> # key
    <3>1. n <= reversal[q].amount
      BY <1>14, <1>27, <2>2 DEF Reversals
    <3> QED
      BY <1>5, <1>11, <3>1
  <2> QED
    BY <2>1, <2>2
<1> QED
  BY <1>18, <1>25, <1>26, <1>27 DEF Reversals

LEMMA InitReversals == Init => Reversals
<1> SUFFICES ASSUME Init PROVE Reversals
  OBVIOUS
<1>1. /\ DOMAIN ledger = {} /\ review = {}
      /\ \A p \in Period : reversal[p].amount = 0 /\ reversal[p].credits = 0
      /\ account.status = "active" /\ account.debt = 0
  BY DEF Init
<1>2. \A p \in Period : Taken(ledger, p) = {} /\ Owed(review, p) = {}
  BY <1>1 DEF Taken, Owed
<1>3. Debts({}) = 0 /\ SignedTotal(ledger, {}) = 0
  BY TotalOfNone, SignedTotalOfNone DEF Debts
<1>4. \A p \in Period :
        /\ reversal[p].credits = Debts(Owed(review, p)) - SignedTotal(ledger, Taken(ledger, p))
        /\ reversal[p].amount = PeriodPrice[p] => reversal[p].credits = PeriodGrant[p]
  <2> SUFFICES ASSUME NEW p \in Period
               PROVE  /\ reversal[p].credits
                           = Debts(Owed(review, p)) - SignedTotal(ledger, Taken(ledger, p))
                      /\ reversal[p].amount = PeriodPrice[p] => reversal[p].credits = PeriodGrant[p]
    OBVIOUS
  <2>1. PeriodPrice[p] # 0 /\ reversal[p].amount = 0 /\ reversal[p].credits = 0
    BY <1>1, ConstantsAssumption
  <2>2. Debts(Owed(review, p)) = 0 /\ SignedTotal(ledger, Taken(ledger, p)) = 0
    BY <1>2, <1>3
  <2> QED
    BY <2>1, <2>2
<1>5. account.debt = Debts(review)
  BY <1>1, TotalOfNone DEF Debts
<1>6. ReversalAccounted
  BY <1>1, <1>4, <1>5 DEF ReversalAccounted, Taken, Owed, Debts
<1> QED
  BY <1>1, <1>6, FS_EmptySet DEF Reversals

LEMMA ReversalsInductive == IInv /\ Funded /\ Posted /\ Reversals /\ [Next]_vars => Reversals'
<1> SUFFICES ASSUME IInv, Funded, Posted, Reversals, [Next]_vars PROVE Reversals'
  OBVIOUS
<1>1. CASE \E p \in Period : \E amount \in 1 .. PeriodPrice[p] : PaymentReversed(p, amount)
  BY <1>1, PaymentReversedAccounted
<1>2. CASE ~ \E p \in Period : \E amount \in 1 .. PeriodPrice[p] : PaymentReversed(p, amount)
  BY <1>2, OtherSteps, OtherStepsAccounted
<1> QED
  BY <1>1, <1>2

LEMMA AlwaysReversals == Spec => []Reversals
BY AlwaysIInv, AlwaysFunded, AlwaysPosted, InitReversals, ReversalsInductive, PTL DEF Spec

\* What is reversed of a payment, in any number of parts, is taken back or
\* under review as debt, and a payment reversed in full has its whole grant
\* reversed whatever the rounding of the parts was.
THEOREM ReversalsAreAccounted == Spec => []ReversalAccounted
<1>1. Reversals => ReversalAccounted
  BY DEF Reversals
<1> QED
  BY <1>1, AlwaysReversals, PTL

-----------------------------------------------------------------------------
(* The balance and the ledger.                                             *)

Worth(bk) == Total([b \in BucketId |-> bk[b].available + bk[b].reserved], BucketId)
LedgerTotal(lg) == SignedTotal(lg, DOMAIN lg)

\* What is posted from lg to lg2 is the change from bk to bk2.
Balanced(bk, lg, bk2, lg2) == LedgerTotal(lg2) - LedgerTotal(lg) = Worth(bk2) - Worth(bk)

LEMMA WorthIsNat == \A bk : Worth(bk) \in Nat
<1> SUFFICES ASSUME NEW bk PROVE Worth(bk) \in Nat
  OBVIOUS
<1> DEFINE f == [b \in BucketId |-> bk[b].available + bk[b].reserved]
<1>1. Total(f, BucketId) \in Nat
  <2> HIDE DEF f
  <2> QED
    BY FiniteBuckets, TotalIsNat
<1> QED
  BY <1>1 DEF Worth

LEMMA LedgerTotalIsInt ==
  ASSUME NEW lg, Entries(lg)
  PROVE  LedgerTotal(lg) \in Int
BY SignedTotalIsInt DEF LedgerTotal, Entries

LEMMA BalancedTwice ==
  ASSUME NEW bk, NEW lg, NEW bk2, NEW lg2, NEW bk3, NEW lg3,
         Entries(lg), Entries(lg2), Entries(lg3),
         Balanced(bk, lg, bk2, lg2), Balanced(bk2, lg2, bk3, lg3)
  PROVE  Balanced(bk, lg, bk3, lg3)
<1>1. /\ LedgerTotal(lg) \in Int /\ LedgerTotal(lg2) \in Int /\ LedgerTotal(lg3) \in Int
      /\ Worth(bk) \in Nat /\ Worth(bk2) \in Nat /\ Worth(bk3) \in Nat
  BY LedgerTotalIsInt, WorthIsNat
<1> QED
  BY <1>1 DEF Balanced

LEMMA PostNew ==
  ASSUME NEW lg, NEW e, Entries(lg), Entries(e), DOMAIN lg \cap DOMAIN e = {}
  PROVE  LedgerTotal(Post(lg, e)) = LedgerTotal(lg) + LedgerTotal(e)
<1> DEFINE lg2 == Post(lg, e)
           S == DOMAIN lg
           T == DOMAIN e
<1>1. /\ DOMAIN lg2 = S \cup T
      /\ \A k \in S : lg2[k] = lg[k]
      /\ \A k \in T : lg2[k] = e[k]
  <2>1. /\ DOMAIN lg2 = S \cup T
        /\ \A k \in S : lg2[k] = lg[k]
        /\ \A k \in T \ S : lg2[k] = e[k]
    BY PostAdds
  <2> HIDE DEF lg2
  <2> QED
    BY <2>1
<1>2. IsFiniteSet(S) /\ IsFiniteSet(T) /\ S \cap T = {}
  BY DEF Entries
<1> HIDE DEF lg2, S, T
<1>3. SignedTotal(lg2, S \cup T) = SignedTotal(lg2, S) + SignedTotal(lg2, T)
  BY <1>2, SignedTotalOfUnion
<1>4. SignedTotal(lg2, S) = SignedTotal(lg, S) /\ SignedTotal(lg2, T) = SignedTotal(e, T)
  BY <1>1, SignedTotalOfSame
<1> QED
  BY <1>1, <1>3, <1>4 DEF LedgerTotal, lg2, S, T

LEMMA PostOld ==
  ASSUME NEW lg, NEW e, DOMAIN e \subseteq DOMAIN lg
  PROVE  LedgerTotal(Post(lg, e)) = LedgerTotal(lg)
<1> DEFINE lg2 == Post(lg, e)
           S == DOMAIN lg
<1>1. DOMAIN lg2 = S /\ \A k \in S : lg2[k] = lg[k]
  BY PostAdds
<1> HIDE DEF lg2, S
<1>2. SignedTotal(lg2, S) = SignedTotal(lg, S)
  BY <1>1, SignedTotalOfSame
<1> QED
  BY <1>1, <1>2 DEF LedgerTotal, lg2, S

LEMMA PostOne ==
  ASSUME NEW lg, Entries(lg), NEW k \in EntryKey, NEW v \in Amounts
  PROVE  LedgerTotal(Post(lg, Entry(k, v)))
           = IF k \in DOMAIN lg THEN LedgerTotal(lg) ELSE LedgerTotal(lg) + v
<1> DEFINE e == Entry(k, v)
<1>1. DOMAIN e = {k} /\ e[k] = v /\ Entries(e)
  BY OneEntry, OneEntries
<1> HIDE DEF e
<1>2. CASE k \in DOMAIN lg
  BY <1>1, <1>2, PostOld DEF e
<1>3. CASE k \notin DOMAIN lg
  <2>1. LedgerTotal(Post(lg, e)) = LedgerTotal(lg) + LedgerTotal(e)
    BY <1>1, <1>3, PostNew
  <2>2. LedgerTotal(e) = v
    BY <1>1, SignedTotalOfOne DEF LedgerTotal
  <2> QED
    BY <1>3, <2>1, <2>2 DEF e
<1> QED
  BY <1>2, <1>3

\* Buckets that give up d of their worth.
LEMMA WorthGivenUp ==
  ASSUME NEW bk, NEW bk2, NEW d,
         \A b \in BucketId :
           /\ bk[b].available + bk[b].reserved \in Credits
           /\ bk2[b].available + bk2[b].reserved \in Credits
           /\ d[b] \in Credits
           /\ bk[b].available + bk[b].reserved = (bk2[b].available + bk2[b].reserved) + d[b]
  PROVE  Worth(bk) = Worth(bk2) + Total(d, BucketId) /\ Total(d, BucketId) \in Nat
<1> DEFINE f == [b \in BucketId |-> bk[b].available + bk[b].reserved]
           f2 == [b \in BucketId |-> bk2[b].available + bk2[b].reserved]
<1>1. \A b \in BucketId : /\ f[b] \in Credits /\ f2[b] \in Credits /\ d[b] \in Credits
                          /\ f[b] = f2[b] + d[b]
  OBVIOUS
<1>2. Worth(bk) = Total(f, BucketId) /\ Worth(bk2) = Total(f2, BucketId)
  BY DEF Worth
<1> HIDE DEF f, f2
<1>3. Total(f, BucketId) = Total(f2, BucketId) + Total(d, BucketId)
  BY <1>1, FiniteBuckets, TotalOfSum
<1>4. Total(d, BucketId) \in Nat
  BY FiniteBuckets, TotalIsNat
<1> QED
  BY <1>2, <1>3, <1>4

LEMMA WorthOfSame ==
  ASSUME NEW bk, NEW bk2,
         \A b \in BucketId :
           bk2[b].available + bk2[b].reserved = bk[b].available + bk[b].reserved
  PROVE  Worth(bk2) = Worth(bk)
<1> DEFINE f == [b \in BucketId |-> bk[b].available + bk[b].reserved]
           f2 == [b \in BucketId |-> bk2[b].available + bk2[b].reserved]
<1>1. f2 = f
  OBVIOUS
<1> QED
  BY <1>1 DEF Worth

LEMMA WorthOfGrant ==
  ASSUME NEW bk \in Buckets, NEW h \in Holds, Sound(bk, h), NEW c \in BucketId,
         NEW amount \in Credits, NEW expires
  PROVE  Worth(Grant(bk, c, amount, expires))
           = IF bk[c].granted # 0 THEN Worth(bk) ELSE Worth(bk) + amount
<1>1. CASE bk[c].granted # 0
  BY <1>1 DEF Grant
<1>2. CASE bk[c].granted = 0
  <2> DEFINE bk2 == Grant(bk, c, amount, expires)
             row == [granted |-> amount, available |-> amount, reserved |-> 0, expires |-> expires,
                     created |-> 1 + Cardinality({b \in BucketId : bk[b].granted # 0})]
             f == [b \in BucketId |-> bk[b].available + bk[b].reserved]
             f2 == [b \in BucketId |-> bk2[b].available + bk2[b].reserved]
             S == BucketId \ {c}
  <2>1. bk2 = [bk EXCEPT ![c] = row] /\ row.available = amount /\ row.reserved = 0
    BY <1>2 DEF Grant
  <2>2. bk[c].available + bk[c].reserved = 0
    <3>1. bk[c] \in Bucket /\ Allocated(h, Charged(h), c) \in Nat
      BY AllocatedIsNat DEF Buckets, Charged, WithStatus
    <3>2. bk[c].available + bk[c].reserved + Allocated(h, Charged(h), c) <= bk[c].granted
      BY DEF Sound
    <3> QED
      BY <1>2, <3>1, <3>2 DEF Bucket
  <2>3. amount \in Nat /\ amount + 0 = amount
    BY ConstantsAssumption DEF Credits
  <2> HIDE DEF row, bk2
  <2>4. bk2[c] = row /\ \A b \in S : bk2[b] = bk[b]
    BY <2>1 DEF Buckets
  <2>5. f[c] = 0 /\ f2[c] = amount /\ \A b \in S : f2[b] = f[b]
    BY <2>1, <2>2, <2>3, <2>4
  <2>6. 0 \in Credits /\ amount \in Credits
    BY ConstantsAssumption DEF Credits
  <2>7. IsFiniteSet(S) /\ c \notin S /\ BucketId = S \cup {c}
    BY FiniteBuckets, FS_Subset
  <2>8. Worth(bk) = Total(f, BucketId) /\ Worth(bk2) = Total(f2, BucketId)
    BY DEF Worth
  <2> HIDE DEF f, f2, S
  <2>9. /\ Total(f, BucketId) = Total(f, S) + 0 /\ Total(f, S) \in Nat
        /\ Total(f2, BucketId) = Total(f2, S) + amount
    BY <2>5, <2>6, <2>7, TotalWithOneMore
  <2>10. Total(f2, S) = Total(f, S)
    BY <2>5, TotalOfSame
  <2>11. Worth(bk2) = Worth(bk) + amount
    BY <2>8, <2>9, <2>10
  <2> QED
    BY <1>2, <2>11 DEF bk2
<1> QED
  BY <1>1, <1>2

\* A grant whose entry is posted with it.
LEMMA GrantBalanced ==
  ASSUME NEW bk \in Buckets, NEW h \in Holds, Sound(bk, h), NEW lg, Entries(lg),
         NEW c \in BucketId, NEW amount \in 1 .. MaxCredit, NEW expires,
         NEW k \in EntryKey, bk[c].granted # 0 <=> k \in DOMAIN lg
  PROVE  Balanced(bk, lg, Grant(bk, c, amount, expires), Post(lg, Entry(k, amount)))
<1>1. amount \in Credits /\ amount \in Amounts /\ amount \in Nat
  BY ConstantsAssumption DEF Credits, Amounts
<1>2. Worth(Grant(bk, c, amount, expires))
        = IF bk[c].granted # 0 THEN Worth(bk) ELSE Worth(bk) + amount
  BY <1>1, WorthOfGrant
<1>3. LedgerTotal(Post(lg, Entry(k, amount)))
        = IF k \in DOMAIN lg THEN LedgerTotal(lg) ELSE LedgerTotal(lg) + amount
  BY <1>1, PostOne
<1>4. LedgerTotal(lg) \in Int /\ Worth(bk) \in Nat
  BY LedgerTotalIsInt, WorthIsNat
<1> QED
  BY <1>1, <1>2, <1>3, <1>4 DEF Balanced

LEMMA TrialBalanced ==
  ASSUME IInv, Posted, NEW verified \in BOOLEAN
  PROVE  Balanced(bucket, ledger, WithTrial(bucket, verified), Post(ledger, TrialEntry(verified)))
<1>1. CASE verified
  <2> DEFINE k == <<"GRANT", Trial>>
  <2>1. /\ Trial \in BucketId /\ TrialGrant \in 1 .. MaxCredit /\ k \in EntryKey
        /\ Trial[1] = "trial"
    BY ConstantsAssumption DEF BucketId, EntryKey, Trial
  <2>2. bucket[Trial].granted # 0 <=> k \in DOMAIN ledger
    BY <2>1 DEF Posted, GrantsPosted
  <2> HIDE DEF k
  <2>3. Balanced(bucket, ledger, Grant(bucket, Trial, TrialGrant, now + TrialDays),
                 Post(ledger, Entry(k, TrialGrant)))
    BY <2>1, <2>2, GrantBalanced DEF IInv, Posted
  <2> QED
    BY <1>1, <2>3 DEF WithTrial, TrialEntry, k
<1>2. CASE ~ verified
  <2>1. WithTrial(bucket, verified) = bucket /\ TrialEntry(verified) = << >>
    BY <1>2 DEF WithTrial, TrialEntry
  <2>2. DOMAIN << >> \subseteq DOMAIN ledger
    OBVIOUS
  <2>3. LedgerTotal(Post(ledger, << >>)) = LedgerTotal(ledger)
    BY <2>2, PostOld
  <2>4. LedgerTotal(ledger) \in Int /\ Worth(bucket) \in Nat
    BY LedgerTotalIsInt, WorthIsNat DEF Posted
  <2> QED
    BY <2>1, <2>3, <2>4 DEF Balanced
<1> QED
  BY <1>1, <1>2

-----------------------------------------------------------------------------
(* What an expiry posts.                                                   *)

LEMMA Expiries ==
  ASSUME NEW bk \in Buckets, \A b \in BucketId : bk[b].available \in Credits
  PROVE  LedgerTotal(ExpireEntries(bk)) = -Available(bk, Expirable(bk))
         /\ Available(bk, Expirable(bk)) \in Nat
<1> DEFINE X == Expirable(bk)
           e == ExpireEntries(bk)
           f == [b \in BucketId |-> bk[b].available]
           g == [k \in {"EXPIRE"} \X X |-> bk[k[2]].available]
<1>1. X \in SUBSET BucketId /\ IsFiniteSet(X)
  BY FiniteBuckets, FS_Subset DEF Expirable
<1>2. DOMAIN e = {"EXPIRE"} \X X /\ IsFiniteSet(DOMAIN e)
      /\ \A b \in X : e[<<"EXPIRE", b>>] = -bk[b].available
  BY ExpiryEntries DEF Entries
<1>3. /\ \A k \in {"EXPIRE"} \X X : e[k] = -g[k] /\ g[k] \in Credits
      /\ \A b \in X : g[<<"EXPIRE", b>>] = f[b] /\ f[b] \in Credits
  <2>1. ASSUME NEW k \in {"EXPIRE"} \X X PROVE e[k] = -g[k] /\ g[k] \in Credits
    <3>1. PICK b \in X : k = <<"EXPIRE", b>>
      OBVIOUS
    <3>2. g[k] = bk[b].available
      BY <3>1
    <3> HIDE DEF g, e
    <3> QED
      BY <1>1, <1>2, <3>1, <3>2
  <2>2. \A b \in X : g[<<"EXPIRE", b>>] = f[b] /\ f[b] \in Credits
    BY <1>1
  <2> QED
    BY <2>1, <2>2
<1>4. Available(bk, X) = Total(f, X)
  BY DEF Available
<1> HIDE DEF X, e, f, g
<1>5. SignedTotal(e, {"EXPIRE"} \X X) = -Total(g, {"EXPIRE"} \X X)
  BY <1>2, <1>3, SignedTotalOfDebits
<1>6. Total(g, {"EXPIRE"} \X X) = Total(f, X)
  <2>1. Total(g, Pairs("EXPIRE", X)) = Total(f, X)
    BY <1>1, <1>3, TotalOfPairs
  <2> QED
    BY <2>1 DEF Pairs
<1>7. Total(f, X) \in Nat
  BY <1>1, TotalIsNat
<1> QED
  BY <1>2, <1>4, <1>5, <1>6, <1>7 DEF LedgerTotal, X, e

\* An expiry of buckets none of which has expired before.
LEMMA ExpiryBalanced ==
  ASSUME NEW bk \in Buckets, NEW h \in Holds, Sound(bk, h), GrantsInBounds(bk),
         NEW lg, Entries(lg), \A b \in Expirable(bk) : <<"EXPIRE", b>> \notin DOMAIN lg
  PROVE  Balanced(bk, lg, Expired(bk), Post(lg, ExpireEntries(bk)))
<1> DEFINE X == Expirable(bk)
           e == ExpireEntries(bk)
           f == [b \in BucketId |-> bk[b].available]
           bk2 == Expired(bk)
           d == [b \in BucketId |-> IF b \in X THEN bk[b].available ELSE 0]
<1>1. \A b \in BucketId : /\ bk[b].available \in Credits /\ bk[b].available \in Nat
                          /\ bk[b].available + bk[b].reserved \in Credits
                          /\ bk[b].reserved \in Credits /\ bk[b].reserved \in Nat
                          /\ 0 + bk[b].reserved \in Credits /\ 0 \in Credits
  BY AvailableInBounds, ConstantsAssumption DEF Credits
<1>2. X \in SUBSET BucketId /\ IsFiniteSet(X)
  BY FiniteBuckets, FS_Subset DEF Expirable
<1>3. /\ DOMAIN e = {"EXPIRE"} \X X /\ Entries(e)
      /\ LedgerTotal(e) = -Available(bk, X) /\ Available(bk, X) \in Nat
  BY <1>1, ExpiryEntries, Expiries
<1>4. LedgerTotal(Post(lg, e)) = LedgerTotal(lg) + LedgerTotal(e)
  <2>1. DOMAIN lg \cap DOMAIN e = {}
    BY <1>3
  <2> HIDE DEF e
  <2> QED
    BY <1>3, <2>1, PostNew
<1>5. ASSUME NEW b \in BucketId
      PROVE  /\ bk2[b].available + bk2[b].reserved \in Credits
             /\ d[b] \in Credits
             /\ bk[b].available + bk[b].reserved = (bk2[b].available + bk2[b].reserved) + d[b]
  <2>1. bk[b] \in Bucket
    BY DEF Buckets
  <2>2. bk2[b] = IF b \in X THEN [bk[b] EXCEPT !.available = 0] ELSE bk[b]
    BY DEF Expired
  <2>3. d[b] = IF b \in X THEN bk[b].available ELSE 0
    OBVIOUS
  <2> HIDE DEF d, bk2, X
  <2>4. bk2[b].available = (IF b \in X THEN 0 ELSE bk[b].available) /\ bk2[b].reserved = bk[b].reserved
    BY <2>1, <2>2 DEF Bucket
  <2> QED
    BY <1>1, <2>3, <2>4
<1>6. Worth(bk) = Worth(bk2) + Total(d, BucketId) /\ Total(d, BucketId) \in Nat
  <2> HIDE DEF bk2, d
  <2> QED
    BY <1>1, <1>5, WorthGivenUp
<1>7. Total(d, BucketId) = Available(bk, X)
  <2> DEFINE Y == BucketId \ X
  <2>1. IsFiniteSet(Y) /\ X \cap Y = {} /\ BucketId = X \cup Y
    BY <1>2, FiniteBuckets, FS_Subset
  <2>2. (\A b \in Y : d[b] = 0) /\ (\A b \in X : d[b] = f[b])
    BY <1>2
  <2>3. Available(bk, X) = Total(f, X)
    BY DEF Available
  <2> HIDE DEF d, f, X, Y
  <2>4. Total(d, BucketId) = Total(d, X) + Total(d, Y) /\ Total(d, X) \in Nat
    BY <1>2, <2>1, TotalOfUnion, TotalIsNat
  <2>5. Total(d, Y) = 0
    BY <2>2, TotalOfNothing
  <2>6. Total(d, X) = Total(f, X)
    BY <2>2, TotalOfSame
  <2> QED
    BY <2>3, <2>4, <2>5, <2>6
<1>8. LedgerTotal(lg) \in Int /\ Worth(bk) \in Nat /\ Worth(bk2) \in Nat
  BY LedgerTotalIsInt, WorthIsNat
<1> HIDE DEF bk2, e, d, X
<1> QED
  BY <1>3, <1>4, <1>6, <1>7, <1>8 DEF Balanced, bk2, e

\* A bucket that is expirable once the trial is granted, and expired before,
\* was there before the trial was granted.
LEMMA ExpiredBefore ==
  ASSUME IInv, Posted, NEW verified, NEW b \in Expirable(WithTrial(bucket, verified)),
         <<"EXPIRE", b>> \in DOMAIN ledger
  PROVE  b \in BucketId /\ WithTrial(bucket, verified)[b] = bucket[b]
         /\ bucket[b].available > 0 /\ bucket[b].expires <= now
<1> DEFINE granted == WithTrial(bucket, verified)
<1>1. b \in BucketId /\ granted[b].expires <= now /\ granted[b].available > 0
  BY DEF Expirable
<1>2. bucket[b].granted # 0
  BY <1>1 DEF Posted, GrantsPosted
<1>3. granted[b] = bucket[b]
  <2>1. CASE ~ verified \/ bucket[Trial].granted # 0
    BY <2>1 DEF WithTrial, Grant
  <2>2. CASE verified /\ bucket[Trial].granted = 0
    <3> DEFINE row == [granted |-> TrialGrant, available |-> TrialGrant, reserved |-> 0,
                       expires |-> now + TrialDays,
                       created |-> 1 + Cardinality({c \in BucketId : bucket[c].granted # 0})]
    <3>1. granted = [bucket EXCEPT ![Trial] = row]
      BY <2>2 DEF WithTrial, Grant
    <3>2. b # Trial
      BY <1>2, <2>2
    <3> HIDE DEF granted, row
    <3> QED
      BY <1>1, <3>1, <3>2 DEF IInv, Buckets
  <2> QED
    BY <2>1, <2>2
<1> QED
  BY <1>1, <1>3

LEMMA CreditAccountBalanced ==
  ASSUME IInv, Funded, Posted, NEW verified \in BOOLEAN, CreditAccount(verified)
  PROVE  Balanced(bucket, ledger, bucket', ledger') \/ ExpiresAgain
<1> DEFINE granted == WithTrial(bucket, verified)
           lg1 == Post(ledger, TrialEntry(verified))
<1>1. /\ granted \in Buckets /\ Sound(granted, hold) /\ GrantsInBounds(granted) /\ hold \in Holds
      /\ bucket' = Expired(granted) /\ ledger' = Post(lg1, ExpireEntries(granted))
  BY LiveBuckets DEF Funded, CreditAccount, IInv
<1>2. Entries(ledger) /\ Entries(lg1) /\ Entries(ledger')
  BY CreditAccountPosted, TrialPosted DEF Posted
<1>3. Balanced(bucket, ledger, granted, lg1)
  BY TrialBalanced
<1>4. \A k \in DOMAIN lg1 : k \in DOMAIN ledger \/ k = <<"GRANT", Trial>>
  <2>1. DOMAIN lg1 = DOMAIN ledger \cup DOMAIN TrialEntry(verified)
    BY PostAdds
  <2> HIDE DEF lg1
  <2> QED
    BY <2>1, TrialEntries
<1>5. CASE \E b \in Expirable(granted) : <<"EXPIRE", b>> \in DOMAIN lg1
  <2>1. PICK b \in Expirable(granted) : <<"EXPIRE", b>> \in DOMAIN lg1
    BY <1>5
  <2>2. <<"EXPIRE", b>> \in DOMAIN ledger
    BY <1>4, <2>1
  <2>3. b \in BucketId /\ bucket[b].available > 0 /\ bucket[b].expires <= now
    BY <2>2, ExpiredBefore
  <2>4. bucket'[b].available = 0
    <3>1. bucket'[b] = [granted[b] EXCEPT !.available = 0]
      BY <1>1, <2>1, <2>3 DEF Expired
    <3> HIDE DEF granted
    <3> QED
      BY <1>1, <2>3, <3>1 DEF Buckets, Bucket
  <2> QED
    BY <2>2, <2>3, <2>4 DEF ExpiresAgain
<1>6. CASE \A b \in Expirable(granted) : <<"EXPIRE", b>> \notin DOMAIN lg1
  <2> HIDE DEF granted, lg1
  <2>1. Balanced(granted, lg1, bucket', ledger')
    BY <1>1, <1>2, <1>6, ExpiryBalanced
  <2>2. Balanced(bucket, ledger, bucket', ledger')
    BY <1>2, <1>3, <2>1, BalancedTwice
  <2> QED
    BY <2>2
<1> QED
  BY <1>5, <1>6

LEMMA ReserveBalanced ==
  ASSUME IInv, Funded, Posted, NEW r \in Reference, NEW verified \in BOOLEAN, Reserve(r, verified)
  PROVE  Balanced(bucket, ledger, bucket', ledger') \/ ExpiresAgain
<1> DEFINE granted == WithTrial(bucket, verified)
           live == Expired(granted)
           spend == Spend(live, Cost[r])
           lg1 == Post(ledger, TrialEntry(verified))
<1>1. /\ granted \in Buckets /\ Sound(granted, hold) /\ GrantsInBounds(granted) /\ hold \in Holds
      /\ live \in Buckets
  BY LiveBuckets DEF Funded, IInv
<1>2. Entries(ledger) /\ Entries(lg1) /\ Entries(ledger')
  BY ReservePosted, TrialPosted DEF Posted
<1>3. Balanced(bucket, ledger, granted, lg1)
  BY TrialBalanced
<1>4. \A k \in DOMAIN lg1 : k \in DOMAIN ledger \/ k = <<"GRANT", Trial>>
  <2>1. DOMAIN lg1 = DOMAIN ledger \cup DOMAIN TrialEntry(verified)
    BY PostAdds
  <2> HIDE DEF lg1
  <2> QED
    BY <2>1, TrialEntries
<1>5. CASE bucket' = granted /\ ledger' = lg1
  BY <1>3, <1>5
<1>6. CASE /\ bucket' = [b \in BucketId |-> [live[b] EXCEPT !.available = @ - spend[b],
                                                            !.reserved = @ + spend[b]]]
           /\ ledger' = Post(lg1, ExpireEntries(granted))
  <2>0. \A b \in BucketId : spend[b] \in Nat /\ spend[b] <= live[b].available
                            /\ live[b] \in Bucket
    <3> SUFFICES ASSUME NEW b \in BucketId
                 PROVE  spend[b] \in Nat /\ spend[b] <= live[b].available /\ live[b] \in Bucket
      OBVIOUS
    <3> DEFINE earlier == {c \in BucketId : SpentBefore(live, c, b)}
    <3>1. spend[b] = Take(live, b, earlier, Cost[r]) /\ earlier \in SUBSET BucketId
      BY DEF Spend
    <3>2. Cost[r] \in Nat /\ live[b] \in Bucket
      BY <1>1, ConstantsAssumption DEF Buckets
    <3> HIDE DEF spend, live, earlier
    <3>3. Take(live, b, earlier, Cost[r]) \in 0 .. Min2(live[b].available, Cost[r])
      BY <1>1, <3>1, <3>2, TakeBounds DEF Buckets
    <3> QED
      BY <3>1, <3>2, <3>3 DEF Min2, Bucket
  <2>1. \A b \in BucketId : /\ bucket'[b].available = live[b].available - spend[b]
                            /\ bucket'[b].reserved = live[b].reserved + spend[b]
    <3> HIDE DEF live, spend
    <3> QED
      BY <1>6, <2>0 DEF Bucket
  <2>2. CASE \E b \in Expirable(granted) : <<"EXPIRE", b>> \in DOMAIN lg1
    <3>1. PICK b \in Expirable(granted) : <<"EXPIRE", b>> \in DOMAIN lg1
      BY <2>2
    <3>2. <<"EXPIRE", b>> \in DOMAIN ledger
      BY <1>4, <3>1
    <3>3. b \in BucketId /\ bucket[b].available > 0 /\ bucket[b].expires <= now
      BY <3>2, ExpiredBefore
    <3>4. live[b].available = 0
      <4>1. live[b] = [granted[b] EXCEPT !.available = 0]
        BY <3>1, <3>3 DEF Expired
      <4> HIDE DEF granted, live
      <4> QED
        BY <1>1, <3>3, <4>1 DEF Buckets, Bucket
    <3>5. bucket'[b].available = 0
      <4> HIDE DEF live, spend
      <4> QED
        BY <2>0, <2>1, <3>3, <3>4
    <3> QED
      BY <3>2, <3>3, <3>5 DEF ExpiresAgain
  <2>3. CASE \A b \in Expirable(granted) : <<"EXPIRE", b>> \notin DOMAIN lg1
    <3> HIDE DEF granted, lg1, spend
    <3>1. Balanced(granted, lg1, live, ledger')
      BY <1>1, <1>2, <1>6, <2>3, ExpiryBalanced
    <3> DEFINE bk2 == bucket'
    <3>2. \A b \in BucketId :
            bk2[b].available + bk2[b].reserved = live[b].available + live[b].reserved
      <4> HIDE DEF live
      <4> QED
        BY <2>0, <2>1 DEF Bucket
    <3> HIDE DEF live, bk2
    <3>3. Worth(bk2) = Worth(live)
      BY <3>2, WorthOfSame
    <3>4. Balanced(bucket, ledger, live, ledger')
      BY <1>2, <1>3, <3>1, BalancedTwice
    <3> QED
      BY <3>3, <3>4 DEF Balanced, bk2
  <2> QED
    BY <2>2, <2>3
<1> QED
  BY <1>5, <1>6 DEF Reserve

-----------------------------------------------------------------------------
(* What a settlement posts.                                                *)

\* What the reservations in C hold, bucket by bucket or one by one, is the sum
\* of their prices.
LEMMA HeldIsTheirPrice ==
  ASSUME IInv, Funded, NEW C \in SUBSET Reserved(hold)
  PROVE  /\ \A b \in BucketId : Allocated(hold, C, b) \in Credits
         /\ Total([b \in BucketId |-> Allocated(hold, C, b)], BucketId) = Total(Cost, C)
         /\ Total(Cost, C) \in Nat
<1> DEFINE f(U) == [b \in BucketId |-> Allocated(hold, U, b)]
           H == {U \in SUBSET C : Total(f(U), BucketId) = Total(Cost, U)}
<1>1. C \in SUBSET Reference /\ IsFiniteSet(C) /\ Reserved(hold) \in SUBSET Reference
      /\ IsFiniteSet(Reserved(hold))
  BY ConstantsAssumption, FS_Subset DEF Reserved, WithStatus
<1>2. ASSUME NEW U \in SUBSET C, NEW b \in BucketId
      PROVE  Allocated(hold, U, b) \in Credits
  <2>1. Allocated(hold, U, b) <= Allocated(hold, Reserved(hold), b)
    BY <1>1, TotalOfSubset DEF Allocated
  <2>2. Allocated(hold, U, b) \in Nat
    BY <1>1, AllocatedIsNat
  <2>3. Allocated(hold, Reserved(hold), b) = bucket[b].reserved /\ bucket[b].reserved \in Credits
    BY AvailableInBounds DEF IInv, Funded, Sound
  <2> QED
    BY <2>1, <2>2, <2>3, ConstantsAssumption DEF Credits
<1>3. {} \in H
  <2>1. \A b \in BucketId : f({})[b] = 0
    BY TotalOfNone DEF Allocated
  <2> DEFINE g == f({})
  <2>2. \A b \in BucketId : g[b] \in Int /\ g[b] <= 0
    BY <2>1
  <2> HIDE DEF g
  <2>3. Total(g, BucketId) = 0
    BY <2>2, TotalOfNothing
  <2>4. Total(Cost, {}) = 0
    BY TotalOfNone
  <2> QED
    BY <2>3, <2>4 DEF g
<1>4. ASSUME NEW U \in SUBSET C, NEW r \in C \ U, U \in H
      PROVE  U \cup {r} \in H
  <2> DEFINE g == f(U)
             h == f(U \cup {r})
             a == hold[r].allocated
  <2>1. /\ r \in Reference /\ U \in SUBSET Reference /\ {r} \in SUBSET Reference
        /\ U \cap {r} = {} /\ IsFiniteSet(U)
    BY <1>1, FS_Subset
  <2>2. hold[r].status = "reserved" /\ a \in Allocation
    BY <2>1 DEF Reserved, WithStatus, IInv, Holds, Hold
  <2>3. \A b \in BucketId : /\ g[b] \in Credits /\ a[b] \in Credits /\ h[b] \in Credits
                            /\ h[b] = g[b] + a[b]
    <3> SUFFICES ASSUME NEW b \in BucketId
                 PROVE  /\ g[b] \in Credits /\ a[b] \in Credits /\ h[b] \in Credits
                        /\ h[b] = g[b] + a[b]
      OBVIOUS
    <3>1. g[b] = Allocated(hold, U, b) /\ h[b] = Allocated(hold, U \cup {r}, b)
      OBVIOUS
    <3>2. U \cup {r} \in SUBSET C
      OBVIOUS
    <3>3. Allocated(hold, U \cup {r}, b) = Allocated(hold, U, b) + Allocated(hold, {r}, b)
      BY <2>1, AllocatedOfUnion
    <3>4. Allocated(hold, {r}, b) = a[b]
      BY <2>1, AllocatedOfOne DEF IInv
    <3>5. a[b] \in Credits
      BY <2>2 DEF Allocation
    <3>6. Allocated(hold, U, b) \in Credits /\ Allocated(hold, U \cup {r}, b) \in Credits
      BY <1>2, <3>2
    <3> QED
      BY <3>1, <3>3, <3>4, <3>5, <3>6
  <2>4. Total(g, BucketId) = Total(Cost, U)
    BY <1>4
  <2>5. U \cup {r} \in SUBSET C
    OBVIOUS
  <2>6. Total(a, BucketId) = Cost[r]
    BY <2>1, <2>2 DEF Funded, HoldCoversCost
  <2> HIDE DEF g, h, a
  <2>7. Total(h, BucketId) = Total(g, BucketId) + Total(a, BucketId)
    BY <2>3, FiniteBuckets, TotalOfSum
  <2>8. Cost[r] \in Credits
    BY <2>1, ConstantsAssumption DEF Credits
  <2>9. Total(Cost, U \cup {r}) = Total(Cost, U) + Cost[r]
    BY <2>1, <2>8, TotalWithOneMore
  <2>10. Total(h, BucketId) = Total(Cost, U \cup {r})
    BY <2>4, <2>6, <2>7, <2>9
  <2> QED
    BY <2>5, <2>10 DEF h
<1> HIDE DEF H
<1>5. C \in H
  BY <1>1, <1>3, <1>4, SubsetInduction
<1>6. Total(f(C), BucketId) = Total(Cost, C)
  BY <1>5 DEF H
<1>7. Total(Cost, C) \in Nat
  BY <1>1, TotalIsNat
<1> QED
  BY <1>2, <1>6, <1>7

\* A capture posts the prices of what it captures.
LEMMA ChargesTotal ==
  ASSUME NEW C \in SUBSET Reference
  PROVE  LedgerTotal(ChargeEntries(C)) = -Total(Cost, C)
<1> DEFINE e == ChargeEntries(C)
           g == [k \in {"CHARGE"} \X C |-> Cost[k[2]]]
<1>1. IsFiniteSet(C)
  BY ConstantsAssumption, FS_Subset
<1>2. DOMAIN e = {"CHARGE"} \X C /\ IsFiniteSet(DOMAIN e)
      /\ \A r \in C : e[<<"CHARGE", r>>] = -Cost[r]
  BY Charges DEF Entries
<1>3. \A r \in C : Cost[r] \in Credits
  BY ConstantsAssumption DEF Credits
<1>4. ASSUME NEW k \in {"CHARGE"} \X C PROVE e[k] = -g[k] /\ g[k] \in Credits
  <2>1. PICK r \in C : k = <<"CHARGE", r>>
    OBVIOUS
  <2>2. g[k] = Cost[r]
    BY <2>1
  <2> HIDE DEF g, e
  <2> QED
    BY <1>2, <1>3, <2>1, <2>2
<1>5. \A r \in C : Cost[r] \in Credits /\ g[<<"CHARGE", r>>] = Cost[r]
  BY <1>3
<1> HIDE DEF e, g
<1>6. SignedTotal(e, {"CHARGE"} \X C) = -Total(g, {"CHARGE"} \X C)
  BY <1>2, <1>4, SignedTotalOfDebits
<1>7. Total(g, {"CHARGE"} \X C) = Total(Cost, C)
  <2>1. Total(g, Pairs("CHARGE", C)) = Total(Cost, C)
    BY <1>1, <1>5, TotalOfPairs
  <2> QED
    BY <2>1 DEF Pairs
<1> QED
  BY <1>2, <1>6, <1>7 DEF LedgerTotal, e

\* A settlement takes the prices of what it captures out of the buckets.
LEMMA SettleWorth ==
  ASSUME IInv, Funded, NEW C \in SUBSET Reserved(hold), NEW R \in SUBSET Reserved(hold),
         C \cap R = {}
  PROVE  Worth(bucket) = Worth(Settle(bucket, C, R)) + Total(Cost, C)
<1> DEFINE bk == Settle(bucket, C, R)
           d == [b \in BucketId |-> Allocated(hold, C, b)]
<1>1. C \in SUBSET Reference /\ R \in SUBSET Reference
  BY DEF Reserved, WithStatus
<1>2. bk \in Buckets /\ Settled(C, R) \in Holds /\ Sound(bk, Settled(C, R)) /\ GrantsInBounds(bk)
  BY SettleSound, SettleKeepsGrants, GrantsKept DEF IInv, Funded
<1>3. \A b \in BucketId : /\ bucket[b].available + bucket[b].reserved \in Credits
                          /\ bk[b].available + bk[b].reserved \in Credits
  <2> HIDE DEF bk
  <2> QED
    BY <1>2, AvailableInBounds DEF IInv, Funded
<1>4. ASSUME NEW b \in BucketId
      PROVE  /\ d[b] \in Credits
             /\ bucket[b].available + bucket[b].reserved
                  = (bk[b].available + bk[b].reserved) + d[b]
  <2> DEFINE c == Allocated(hold, C, b)
             r == Allocated(hold, R, b)
             cr == Allocated(hold, C \cup R, b)
  <2>1. d[b] = c /\ c \in Credits /\ c \in Nat /\ r \in Nat
    BY <1>1, HeldIsTheirPrice, AllocatedIsNat
  <2>2. cr = c + r
    BY <1>1, AllocatedOfUnion
  <2>3. bucket[b] \in Bucket
    BY DEF IInv, Buckets
  <2>4. bk[b] = [bucket[b] EXCEPT !.reserved = @ - cr, !.available = @ + r]
    BY DEF Settle
  <2> HIDE DEF d, c, r, cr, bk
  <2>5. bk[b].reserved = bucket[b].reserved - cr /\ bk[b].available = bucket[b].available + r
    BY <2>3, <2>4 DEF Bucket
  <2>6. bucket[b].reserved \in Nat /\ bucket[b].available \in Nat
    BY <2>3 DEF Bucket
  <2> QED
    BY <2>1, <2>2, <2>5, <2>6
<1>5. Total(d, BucketId) = Total(Cost, C)
  BY HeldIsTheirPrice
<1> HIDE DEF bk, d
<1>6. Worth(bucket) = Worth(bk) + Total(d, BucketId)
  BY <1>3, <1>4, WorthGivenUp
<1> QED
  BY <1>5, <1>6 DEF bk

LEMMA SettleBalanced ==
  ASSUME IInv, Funded, Posted, NEW C \in SUBSET Reserved(hold), NEW R \in SUBSET Reserved(hold),
         C \cap R = {}
  PROVE  Balanced(bucket, ledger, Settle(bucket, C, R), Post(ledger, ChargeEntries(C)))
<1> DEFINE bk == Settle(bucket, C, R)
           e == ChargeEntries(C)
<1>1. C \in SUBSET Reference
  BY DEF Reserved, WithStatus
<1>2. Worth(bucket) = Worth(bk) + Total(Cost, C) /\ Total(Cost, C) \in Nat
  BY SettleWorth, HeldIsTheirPrice
<1>3. LedgerTotal(e) = -Total(Cost, C) /\ Entries(e) /\ DOMAIN e = {"CHARGE"} \X C
  BY <1>1, ChargesTotal, Charges
<1>4. ASSUME NEW r \in C PROVE <<"CHARGE", r>> \notin DOMAIN ledger
  <2>1. r \in Reference /\ hold[r].status = "reserved"
    BY DEF Reserved, WithStatus
  <2> QED
    BY <2>1 DEF Posted, OutcomesPosted
<1>5. DOMAIN ledger \cap DOMAIN e = {}
  BY <1>3, <1>4
<1> HIDE DEF e, bk
<1>6. LedgerTotal(Post(ledger, e)) = LedgerTotal(ledger) + LedgerTotal(e)
  BY <1>3, <1>5, PostNew DEF Posted
<1>7. LedgerTotal(ledger) \in Int /\ Worth(bucket) \in Nat /\ Worth(bk) \in Nat
  BY LedgerTotalIsInt, WorthIsNat DEF Posted
<1>8. Balanced(bucket, ledger, bk, Post(ledger, e))
  BY <1>2, <1>3, <1>6, <1>7 DEF Balanced
<1> QED
  BY <1>8 DEF bk, e

\* A release is worth nothing and posts nothing.
LEMMA ReleasedWorth ==
  ASSUME IInv, Funded, NEW R \in SUBSET Reserved(hold)
  PROVE  Worth(Settle(bucket, {}, R)) = Worth(bucket)
<1>1. {} \in SUBSET Reserved(hold) /\ {} \cap R = {}
  OBVIOUS
<1>2. Worth(bucket) = Worth(Settle(bucket, {}, R)) + Total(Cost, {})
  BY <1>1, SettleWorth
<1>3. Worth(Settle(bucket, {}, R)) \in Nat
  BY WorthIsNat
<1> QED
  BY <1>2, <1>3, TotalOfNone

-----------------------------------------------------------------------------
(* What the other transactions post.                                       *)

\* A refund brings back what the reservation held: into the buckets that have
\* not lapsed, and the rest into a bucket of its own.
LEMMA RefundBalanced ==
  ASSUME IInv, Funded, Posted, NEW r \in Reference, Refund(r)
  PROVE  Balanced(bucket, ledger, bucket', ledger')
<1> DEFINE a == hold[r].allocated
           rest == Total(a, Lapsed)
           returned == Returned(r)
           g == [hold EXCEPT ![r].status = "refunded"]
           c == RefundBucket(r)
           back == [b \in BucketId |-> IF b \in Lapsed THEN 0 ELSE a[b]]
           live == BucketId \ Lapsed
           key == <<"REFUND", r>>
<1>1. /\ hold[r].status = "captured"
      /\ bucket' = IF rest = 0 THEN returned ELSE Grant(returned, c, rest, Never)
      /\ ledger' = Post(ledger, Entry(key, Cost[r]))
  BY DEF Refund, Returned, Lapsed
<1>2. returned \in Buckets /\ g \in Holds /\ Sound(returned, g)
  BY <1>1, ReturnedSound
<1>3. a \in Allocation /\ \A b \in BucketId : a[b] \in Credits /\ a[b] \in Nat
  BY ConstantsAssumption DEF IInv, Holds, Hold, Allocation, Credits
<1>4. /\ IsFiniteSet(Lapsed) /\ IsFiniteSet(live) /\ Lapsed \cap live = {}
      /\ BucketId = Lapsed \cup live
  BY FiniteBuckets, FS_Subset DEF Lapsed
<1>5. ASSUME NEW b \in BucketId
      PROVE  /\ returned[b].granted = bucket[b].granted /\ returned[b].created = bucket[b].created
             /\ returned[b].available = bucket[b].available + back[b]
             /\ returned[b].reserved = bucket[b].reserved
             /\ back[b] \in Credits
  <2>1. bucket[b] \in Bucket
    BY DEF IInv, Buckets
  <2>2. returned[b] = IF b \in Lapsed THEN bucket[b]
                      ELSE [bucket[b] EXCEPT !.available = @ + a[b]]
    BY DEF Returned
  <2>3. back[b] = IF b \in Lapsed THEN 0 ELSE a[b]
    OBVIOUS
  <2>4. 0 \in Credits /\ a[b] \in Credits
    BY <1>3, ConstantsAssumption DEF Credits
  <2> HIDE DEF returned, back, a
  <2>5. CASE b \in Lapsed
    BY <2>1, <2>2, <2>3, <2>4, <2>5 DEF Bucket
  <2>6. CASE b \notin Lapsed
    BY <2>1, <2>2, <2>3, <2>4, <2>6 DEF Bucket
  <2> QED
    BY <2>5, <2>6
<1>6. GrantsInBounds(returned)
  <2>1. SameGrants(bucket, returned)
    BY <1>5 DEF SameGrants
  <2> HIDE DEF returned
  <2> QED
    BY <2>1, GrantsKept DEF Funded
<1> HIDE DEF returned
<1>7. Worth(returned) = Worth(bucket) + Total(back, BucketId) /\ Total(back, BucketId) \in Nat
  <2>1. \A b \in BucketId : /\ bucket[b].available + bucket[b].reserved \in Credits
                            /\ bucket[b].available \in Nat /\ bucket[b].reserved \in Nat
    BY AvailableInBounds DEF IInv, Funded, Buckets, Bucket
  <2>2. \A b \in BucketId : returned[b].available + returned[b].reserved \in Credits
    BY <1>2, <1>6, AvailableInBounds
  <2>3. \A b \in BucketId : back[b] \in Credits /\ back[b] \in Nat
    BY <1>5, ConstantsAssumption DEF Credits
  <2> HIDE DEF back
  <2>4. \A b \in BucketId : returned[b].available + returned[b].reserved
                              = (bucket[b].available + bucket[b].reserved) + back[b]
    BY <1>5, <2>1, <2>3
  <2> QED
    BY <2>1, <2>2, <2>3, <2>4, WorthGivenUp
<1>8. Total(a, BucketId) = Cost[r] /\ Cost[r] \in Nat
  BY <1>1, ConstantsAssumption DEF Funded, HoldCoversCost
<1>9. Cost[r] = rest + Total(back, BucketId) /\ rest \in Nat
  <2>1. /\ \A b \in Lapsed : back[b] \in Int /\ back[b] <= 0
        /\ \A b \in live : back[b] = a[b]
    BY <1>4
  <2> HIDE DEF a, back, live
  <2>2. /\ Total(a, BucketId) = Total(a, Lapsed) + Total(a, live)
        /\ Total(back, BucketId) = Total(back, Lapsed) + Total(back, live)
    BY <1>4, TotalOfUnion
  <2>3. Total(back, Lapsed) = 0
    BY <2>1, TotalOfNothing
  <2>4. Total(back, live) = Total(a, live)
    BY <2>1, TotalOfSame
  <2>5. Total(a, Lapsed) \in Nat /\ Total(a, live) \in Nat
    BY <1>4, TotalIsNat
  <2> QED
    BY <1>8, <2>2, <2>3, <2>4, <2>5
<1>10. c \in BucketId /\ key \in EntryKey /\ key \notin DOMAIN ledger
  BY <1>1 DEF BucketId, RefundBucket, EntryKey, Posted, OutcomesPosted
<1>11. returned[c].granted = 0
  <2>1. bucket[c].granted = 0
    BY <1>10 DEF Posted, GrantsPosted
  <2> HIDE DEF c
  <2> QED
    BY <1>5, <1>10, <2>1
<1> HIDE DEF rest, c, key, g, back
<1>12. Worth(bucket') = Worth(returned) + rest
  <2>1. Worth(returned) \in Nat
    BY WorthIsNat
  <2>2. CASE rest = 0
    BY <1>1, <2>1, <2>2
  <2>3. CASE rest # 0
    <3>1. rest \in Credits
      <4>1. Cost[r] <= MaxCredit /\ MaxCredit \in Nat
        BY ConstantsAssumption
      <4> QED
        BY <1>7, <1>8, <1>9, <4>1 DEF Credits
    <3>2. Worth(Grant(returned, c, rest, Never)) = Worth(returned) + rest
      BY <1>2, <1>10, <1>11, <3>1, WorthOfGrant
    <3> QED
      BY <1>1, <2>3, <3>2
  <2> QED
    BY <2>2, <2>3
<1>13. LedgerTotal(ledger') = LedgerTotal(ledger) + Cost[r]
  <2>1. Cost[r] \in Amounts
    BY ConstantsAssumption DEF Amounts
  <2> QED
    BY <1>1, <1>10, <2>1, PostOne DEF Posted
<1>14. LedgerTotal(ledger) \in Int /\ Worth(bucket) \in Nat
  BY LedgerTotalIsInt, WorthIsNat DEF Posted
<1>15. LedgerTotal(ledger') - LedgerTotal(ledger) = Worth(bucket') - Worth(bucket)
  BY <1>7, <1>8, <1>9, <1>12, <1>13, <1>14
<1> QED
  BY <1>15 DEF Balanced

LEMMA PaymentSucceededBalanced ==
  ASSUME IInv, Funded, Posted, NEW p \in Period, PaymentSucceeded(p)
  PROVE  Balanced(bucket, ledger, bucket', ledger')
<1> DEFINE b == PaymentBucket(p)
           key == <<"GRANT", b>>
           expires == IF PeriodKind[p] = "subscription" THEN now + PeriodDays ELSE Never
<1>1. /\ bucket' = Grant(bucket, b, PeriodGrant[p], expires)
      /\ ledger' = Post(ledger, Entry(key, PeriodGrant[p]))
  BY DEF PaymentSucceeded
<1>2. /\ b \in BucketId /\ b[1] = "payment" /\ key \in EntryKey
      /\ PeriodGrant[p] \in 1 .. MaxCredit
  BY ConstantsAssumption DEF BucketId, PaymentBucket, EntryKey
<1> HIDE DEF b, expires
<1>3. bucket[b].granted # 0 <=> key \in DOMAIN ledger
  BY <1>2 DEF Posted, GrantsPosted
<1> HIDE DEF key
<1> QED
  BY <1>1, <1>2, <1>3, GrantBalanced DEF IInv, Posted

LEMMA PaymentReversedBalanced ==
  ASSUME IInv, Funded, Posted, Reversals,
         NEW p \in Period, NEW amount \in 1 .. PeriodPrice[p], PaymentReversed(p, amount)
  PROVE  Balanced(bucket, ledger, bucket', ledger')
<1> DEFINE b == PaymentBucket(p)
           R == OpenHolds(b)
           freed == Settle(bucket, {}, R)
           cumulative == reversal[p].amount + amount
           credits == CumulativeCredits(bucket[b].granted, cumulative, PeriodPrice[p])
           due == credits - reversal[p].credits
           unspent == Min2(freed[b].available, due)
           key == <<"REVERSAL", <<p, cumulative>>>>
           bk == bucket'
           d == [c \in BucketId |-> IF c = b THEN unspent ELSE 0]
<1>1. /\ credits >= reversal[p].credits
      /\ bk = [freed EXCEPT ![b].available = @ - unspent]
      /\ ledger' = IF unspent = 0 THEN ledger ELSE Post(ledger, Entry(key, -unspent))
      /\ hold' = Settled({}, R)
  BY DEF PaymentReversed
<1>2. b \in BucketId /\ R \in SUBSET Reserved(hold) /\ {} \in SUBSET Reserved(hold)
      /\ {} \cap R = {}
  BY DEF PaymentBucket, BucketId, OpenHolds
<1>3. freed \in Buckets /\ Sound(freed, hold') /\ hold' \in Holds /\ GrantsInBounds(freed)
  <2>1. freed \in Buckets /\ SameGrants(bucket, freed) /\ Sound(freed, hold') /\ hold' \in Holds
    BY <1>1, <1>2, SettleSound, SettleKeepsGrants DEF IInv
  <2> HIDE DEF freed
  <2> QED
    BY <2>1, GrantsKept DEF Funded
<1>4. Worth(freed) = Worth(bucket)
  BY <1>2, ReleasedWorth
<1>5. /\ cumulative \in Nat /\ cumulative > reversal[p].amount
      /\ reversal[p].amount \in Nat /\ due \in Nat
  <2>1. /\ cumulative \in Nat /\ cumulative > reversal[p].amount
        /\ PeriodPrice[p] \in Nat \ {0} /\ bucket[b].granted \in Nat
        /\ reversal[p].amount \in Nat /\ reversal[p].credits \in Nat
    BY <1>2, ConstantsAssumption DEF IInv, Buckets, Bucket
  <2> HIDE DEF cumulative, b
  <2>2. credits \in Nat
    BY <2>1, CumulativeCreditsIsNat
  <2> HIDE DEF credits
  <2> QED
    BY <1>1, <2>1, <2>2
<1>6. key \in EntryKey /\ key \notin DOMAIN ledger
  BY <1>5 DEF EntryKey, Reversals
<1> HIDE DEF b, R, freed, cumulative, credits, due, key
<1>7. \A c \in BucketId : /\ freed[c] \in Bucket
                          /\ freed[c].available \in Credits /\ freed[c].reserved \in Credits
                          /\ freed[c].available + freed[c].reserved \in Credits
  BY <1>3, AvailableInBounds DEF Buckets
<1>8. /\ unspent \in Credits /\ unspent <= freed[b].available
      /\ unspent \in Nat /\ -unspent \in Amounts /\ MaxCredit \in Nat /\ 0 \in Credits
  BY <1>2, <1>5, <1>7, ConstantsAssumption DEF Min2, Credits, Amounts
<1> HIDE DEF unspent
<1>9. ASSUME NEW c \in BucketId
      PROVE  /\ bk[c].available + bk[c].reserved \in Credits
             /\ d[c] \in Credits
             /\ freed[c].available + freed[c].reserved
                  = (bk[c].available + bk[c].reserved) + d[c]
  <2>1. d[c] = IF c = b THEN unspent ELSE 0
    OBVIOUS
  <2>2. CASE c = b
    <3>1. bk[b] = [freed[b] EXCEPT !.available = @ - unspent]
      BY <1>1, <1>2, <1>3 DEF Buckets
    <3> HIDE DEF bk, d
    <3>2. bk[b].available = freed[b].available - unspent /\ bk[b].reserved = freed[b].reserved
      BY <1>2, <1>7, <3>1 DEF Bucket
    <3>3. /\ freed[b].available \in Nat /\ freed[b].reserved \in Nat
          /\ freed[b].available + freed[b].reserved <= MaxCredit
      BY <1>2, <1>7 DEF Bucket, Credits
    <3> QED
      BY <1>8, <2>1, <2>2, <3>2, <3>3 DEF Credits
  <2>3. CASE c # b
    <3>1. bk[c] = freed[c]
      BY <1>1, <1>3, <2>3 DEF Buckets
    <3>2. freed[c].available \in Nat /\ freed[c].reserved \in Nat
      BY <1>7 DEF Bucket
    <3> HIDE DEF bk, d
    <3> QED
      BY <1>7, <1>8, <2>1, <2>3, <3>1, <3>2
  <2> QED
    BY <2>2, <2>3
<1>10. Total(d, BucketId) = unspent
  <2> DEFINE S == BucketId \ {b}
  <2>1. IsFiniteSet(S) /\ b \notin S /\ BucketId = S \cup {b}
    BY <1>2, FiniteBuckets, FS_Subset
  <2>2. d[b] = unspent /\ \A c \in S : d[c] \in Int /\ d[c] <= 0
    BY <1>2
  <2> HIDE DEF d, S
  <2>3. Total(d, S) = 0
    BY <2>2, TotalOfNothing
  <2>4. Total(d, BucketId) = Total(d, S) + d[b]
    BY <1>8, <2>1, <2>2, TotalWithOneMore
  <2> QED
    BY <1>8, <2>2, <2>3, <2>4
<1> HIDE DEF bk, d
<1>11. Worth(freed) = Worth(bk) + unspent
  BY <1>7, <1>9, <1>10, WorthGivenUp
<1>12. LedgerTotal(ledger') = LedgerTotal(ledger) - unspent
  <2>1. LedgerTotal(ledger) \in Int
    BY LedgerTotalIsInt DEF Posted
  <2>2. CASE unspent = 0
    BY <1>1, <2>1, <2>2
  <2>3. CASE unspent # 0
    <3> DEFINE v == -unspent
    <3>1. v \in Amounts /\ ledger' = Post(ledger, Entry(key, v))
      BY <1>1, <1>8, <2>3
    <3> HIDE DEF v
    <3>2. LedgerTotal(ledger') = LedgerTotal(ledger) + v
      BY <1>6, <3>1, PostOne DEF Posted
    <3> QED
      BY <1>8, <2>1, <3>2 DEF v
  <2> QED
    BY <2>2, <2>3
<1>13. LedgerTotal(ledger) \in Int /\ Worth(bucket) \in Nat /\ Worth(bk) \in Nat
  BY LedgerTotalIsInt, WorthIsNat DEF Posted
<1>14. LedgerTotal(ledger') - LedgerTotal(ledger) = Worth(bk) - Worth(bucket)
  BY <1>4, <1>8, <1>11, <1>12, <1>13
<1> QED
  BY <1>14 DEF Balanced, bk

LEMMA AdjustBalanced ==
  ASSUME IInv, Funded, Posted, NEW a \in Adjustment, Adjust(a)
  PROVE  Balanced(bucket, ledger, bucket', ledger')
<1> DEFINE amount == AdjustmentAmount[a]
           key == <<"ADJUSTMENT", a>>
           c == AdjustmentBucket(a)
           n == -amount
           drain == Drain(bucket, n)
<1>1. /\ key \notin DOMAIN ledger /\ ledger' = Post(ledger, Entry(key, amount))
      /\ \/ amount > 0 /\ bucket' = Grant(bucket, c, amount, Never)
         \/ /\ amount < 0 /\ Available(bucket, BucketId) >= n
            /\ bucket' = [b \in BucketId |-> [bucket[b] EXCEPT !.available = @ - drain[b]]]
  BY DEF Adjust
<1>2. amount \in Amounts /\ amount \in Int /\ amount <= MaxCredit /\ -MaxCredit <= amount
      /\ MaxCredit \in Nat /\ key \in EntryKey /\ c \in BucketId
  BY ConstantsAssumption DEF Amounts, EntryKey, AdjustmentBucket, BucketId
<1>3. bucket[c].granted = 0
  BY <1>1 DEF Posted, GrantsPosted
<1> HIDE DEF amount, key, c
<1>4. CASE amount > 0 /\ bucket' = Grant(bucket, c, amount, Never)
  <2>1. amount \in 1 .. MaxCredit
    BY <1>2, <1>4
  <2>2. Balanced(bucket, ledger, Grant(bucket, c, amount, Never), Post(ledger, Entry(key, amount)))
    BY <1>1, <1>2, <1>3, <2>1, GrantBalanced DEF IInv, Posted
  <2> QED
    BY <1>1, <1>4, <2>2
<1>5. CASE /\ amount < 0 /\ Available(bucket, BucketId) >= n
           /\ bucket' = [b \in BucketId |-> [bucket[b] EXCEPT !.available = @ - drain[b]]]
  <2> DEFINE bk == bucket'
  <2>1. n \in Nat /\ n <= MaxCredit /\ amount = -n
    <3>1. amount < 0
      BY <1>5
    <3>2. amount \in Int /\ -MaxCredit <= amount /\ MaxCredit \in Nat
      BY <1>2
    <3> QED
      BY <3>1, <3>2
  <2> HIDE DEF n
  <2>2. Total(drain, BucketId) = n
    BY <1>5, <2>1, DrainsAmount DEF IInv, Funded
  <2>3. \A b \in BucketId : drain[b] \in Nat /\ drain[b] <= bucket[b].available
    <3> SUFFICES ASSUME NEW b \in BucketId
                 PROVE  drain[b] \in Nat /\ drain[b] <= bucket[b].available
      OBVIOUS
    <3> DEFINE earlier == {e \in BucketId : OlderThan(bucket, e, b)}
    <3>1. drain[b] = Take(bucket, b, earlier, n) /\ earlier \in SUBSET BucketId
      BY DEF Drain
    <3>2. bucket \in Buckets /\ bucket[b] \in Bucket
      BY DEF IInv, Buckets
    <3> HIDE DEF drain, earlier
    <3>3. Take(bucket, b, earlier, n) \in 0 .. Min2(bucket[b].available, n)
      BY <2>1, <3>1, <3>2, TakeBounds DEF Buckets
    <3> QED
      BY <2>1, <3>1, <3>2, <3>3 DEF Min2, Bucket
  <2> HIDE DEF drain
  <2>4. ASSUME NEW b \in BucketId
        PROVE  /\ bk[b].available + bk[b].reserved \in Credits
               /\ drain[b] \in Credits
               /\ bucket[b].available + bucket[b].reserved \in Credits
               /\ bucket[b].available + bucket[b].reserved
                    = (bk[b].available + bk[b].reserved) + drain[b]
    <3>1. /\ bucket[b] \in Bucket
          /\ bucket[b].available + bucket[b].reserved \in Credits
      BY AvailableInBounds DEF IInv, Funded, Buckets
    <3>2. bk[b] = [bucket[b] EXCEPT !.available = @ - drain[b]]
      BY <1>5
    <3> HIDE DEF bk
    <3>3. bk[b].available = bucket[b].available - drain[b] /\ bk[b].reserved = bucket[b].reserved
      BY <3>1, <3>2 DEF Bucket
    <3>4. bucket[b].available \in Nat /\ bucket[b].reserved \in Nat
      BY <3>1 DEF Bucket
    <3> QED
      BY <1>2, <2>3, <3>1, <3>3, <3>4 DEF Credits
  <2> HIDE DEF bk
  <2>5. Worth(bucket) = Worth(bk) + n
    BY <2>2, <2>4, WorthGivenUp
  <2>6. LedgerTotal(ledger') = LedgerTotal(ledger) + amount
    BY <1>1, <1>2, PostOne DEF Posted
  <2>7. LedgerTotal(ledger) \in Int /\ Worth(bucket) \in Nat /\ Worth(bk) \in Nat
    BY LedgerTotalIsInt, WorthIsNat DEF Posted
  <2>8. LedgerTotal(ledger') - LedgerTotal(ledger) = Worth(bk) - Worth(bucket)
    BY <2>1, <2>5, <2>6, <2>7
  <2> QED
    BY <2>8 DEF Balanced, bk
<1> QED
  BY <1>1, <1>4, <1>5

LEMMA NextBalanced ==
  ASSUME IInv, Funded, Posted, Reversals, [Next]_vars
  PROVE  Balanced(bucket, ledger, bucket', ledger') \/ ExpiresAgain
<1>1. ASSUME NEW verified \in BOOLEAN, CreditAccount(verified)
      PROVE  Balanced(bucket, ledger, bucket', ledger') \/ ExpiresAgain
  BY <1>1, CreditAccountBalanced
<1>2. ASSUME NEW r \in Reference, NEW verified \in BOOLEAN, Reserve(r, verified)
      PROVE  Balanced(bucket, ledger, bucket', ledger') \/ ExpiresAgain
  BY <1>2, ReserveBalanced
<1>3. ASSUME NEW r \in Reference, Capture(r) PROVE Balanced(bucket, ledger, bucket', ledger')
  <2>1. {r} \in SUBSET Reserved(hold) /\ {} \in SUBSET Reserved(hold) /\ {r} \cap {} = {}
    BY <1>3 DEF Capture, Reserved, WithStatus
  <2> QED
    BY <1>3, <2>1, SettleBalanced DEF Capture
<1>4. ASSUME NEW r \in Reference, Release(r) PROVE Balanced(bucket, ledger, bucket', ledger')
  <2>1. {r} \in SUBSET Reserved(hold)
    BY <1>4 DEF Release, Reserved, WithStatus
  <2>2. bucket' = Settle(bucket, {}, {r}) /\ ledger' = ledger
    BY <1>4 DEF Release
  <2>3. Worth(bucket') = Worth(bucket)
    BY <2>1, <2>2, ReleasedWorth
  <2>4. LedgerTotal(ledger) \in Int /\ Worth(bucket) \in Nat
    BY LedgerTotalIsInt, WorthIsNat DEF Posted
  <2> QED
    BY <2>2, <2>3, <2>4 DEF Balanced
<1>5. ASSUME NEW r \in Reference, Refund(r) PROVE Balanced(bucket, ledger, bucket', ledger')
  BY <1>5, RefundBalanced
<1>6. ASSUME NEW C \in SUBSET Overdue, NEW R \in SUBSET (Overdue \ C),
             NEW D \in SUBSET (Overdue \ (C \cup R)), ReconcileExpiredReservations(C, R, D)
      PROVE  Balanced(bucket, ledger, bucket', ledger')
  <2>1. C \in SUBSET Reserved(hold) /\ R \in SUBSET Reserved(hold) /\ C \cap R = {}
    BY DEF Overdue
  <2> QED
    BY <1>6, <2>1, SettleBalanced DEF ReconcileExpiredReservations
<1>7. ASSUME NEW p \in Period, PaymentSucceeded(p)
      PROVE  Balanced(bucket, ledger, bucket', ledger')
  BY <1>7, PaymentSucceededBalanced
<1>8. ASSUME NEW p \in Period, NEW amount \in 1 .. PeriodPrice[p], PaymentReversed(p, amount)
      PROVE  Balanced(bucket, ledger, bucket', ledger')
  BY <1>8, PaymentReversedBalanced
<1>9. ASSUME NEW a \in Adjustment, Adjust(a) PROVE Balanced(bucket, ledger, bucket', ledger')
  BY <1>9, AdjustBalanced
<1>10. ASSUME Tick \/ UNCHANGED vars PROVE Balanced(bucket, ledger, bucket', ledger')
  <2>1. bucket' = bucket /\ ledger' = ledger
    BY <1>10 DEF Tick, vars
  <2>2. LedgerTotal(ledger) \in Int /\ Worth(bucket) \in Nat
    BY LedgerTotalIsInt, WorthIsNat DEF Posted
  <2> QED
    BY <2>1, <2>2 DEF Balanced
<1> QED
  BY <1>1, <1>2, <1>3, <1>4, <1>5, <1>6, <1>7, <1>8, <1>9, <1>10 DEF Next

\* Every transaction posts to the ledger exactly what it does to the balance,
\* but for the second expiry of a bucket.
THEOREM LedgerFollowsBalance == Spec => PostsWhatItDoes
<1>1. /\ LedgerSum = LedgerTotal(ledger) /\ LedgerSum' = LedgerTotal(ledger')
      /\ Balance = Worth(bucket) /\ Balance' = Worth(bucket')
  BY DEF LedgerSum, LedgerTotal, Balance, Worth
<1>2. /\ IInv /\ Funded /\ Posted /\ Reversals /\ [Next]_vars
      => LedgerSum' - LedgerSum = Balance' - Balance \/ ExpiresAgain
  BY <1>1, NextBalanced DEF Balanced
<1>3. /\ IInv /\ Funded /\ Posted /\ Reversals /\ [Next]_vars
      => [LedgerSum' - LedgerSum = Balance' - Balance \/ ExpiresAgain]_vars
  BY <1>2
<1> QED
  BY <1>3, AlwaysIInv, AlwaysFunded, AlwaysPosted, AlwaysReversals, PTL DEF Spec, PostsWhatItDoes

-----------------------------------------------------------------------------
(* The transactions, statement by statement.                               *)

HeldBy(t) == {r \in Reference : holdLock[r] = t}

\* The buckets that the transaction has locked or is going to lock.
Known(t) == tx[t].todo \cup Locked(t)

\* What is next of a transaction that has locked the account.
InAccount == {"account", "reserve", "spend", "drain", "refund", "free"}

Transaction ==
  [op: Op, id: Reference \cup Period \cup Adjustment \cup {Nobody}, verified: BOOLEAN, amount: Nat,
   C: SUBSET Reference, R: SUBSET Reference, D: SUBSET Reference, holds: SUBSET Reference,
   todo: SUBSET BucketId, expired: SUBSET BucketId, row: Buckets]

RowTypes ==
  /\ bucketLock \in [BucketId -> Tx \cup {Nobody}]
  /\ holdLock \in [Reference -> Tx \cup {Nobody}]
  /\ tx \in [Tx -> Transaction]

\* A transaction reads what is committed, and what it locks or is going to lock
\* was granted.
Reads(t) ==
  /\ tx[t].row = Only(Base(t), Locked(t))
  /\ \A b \in Known(t) : Base(t)[b].granted # 0
  /\ tx[t].op \in InAccount <=> accountLock = t
  /\ tx[t].verified => tx[t].op \in {"account", "reserve", "spend"}
  /\ tx[t].holds # {} => tx[t].op = "free"
  /\ tx[t].op = "idle" => tx[t] = NoTx /\ Locked(t) = {} /\ HeldBy(t) = {}

\* A select misses no bucket but those that a released reservation refilled.
Selects(t) ==
  /\ tx[t].op \in {"account", "reserve"} =>
       /\ Known(t) \subseteq Expirable(Base(t))
       /\ Expirable(Base(t)) \ Known(t) \subseteq Refilled
  /\ tx[t].op \in {"reserve", "spend"} =>
       /\ tx[t].id \in Reference
       /\ hold[tx[t].id].status = "none" /\ account.status = "active"
  /\ tx[t].op = "spend" =>
       /\ tx[t].expired \subseteq Locked(t) \cap Expirable(Base(t))
       /\ Expirable(Base(t)) \ tx[t].expired \subseteq Refilled
       /\ Stock(Base(t)) \ Known(t) \subseteq Refilled
  /\ tx[t].op = "drain" =>
       /\ tx[t].id \in Adjustment
       /\ AdjustmentAmount[tx[t].id] < 0 /\ <<"ADJUSTMENT", tx[t].id>> \notin DOMAIN ledger
       /\ Stock(bucket) \ Known(t) \subseteq Refilled

\* What ends a reservation has it, and the buckets it holds or is going to.
Ends(t) ==
  LET C == tx[t].C
      R == tx[t].R
      D == tx[t].D
      b == PaymentBucket(tx[t].id)
  IN  /\ \A r \in HeldBy(t) : hold[r].status # "none"
      /\ tx[t].op = "settle" =>
           /\ C \cup R \cup D \subseteq HeldBy(t) \cap Reserved(hold)
           /\ C \cap R = {} /\ (C \cup R) \cap D = {}
           /\ BucketsOf(C \cup R) \subseteq Known(t)
           /\ \/ C \cup R \cup D \subseteq Overdue
              \/ \E r \in Reference : C = {r} /\ R = {} /\ D = {}
              \/ \E r \in Reference : C = {} /\ R = {r} /\ D = {}
      /\ tx[t].op = "refund" =>
           /\ tx[t].id \in HeldBy(t) /\ hold[tx[t].id].status = "captured"
           /\ BucketsOf({tx[t].id}) \subseteq Known(t)
      /\ tx[t].op \in {"reverse", "free"} =>
           /\ tx[t].id \in Period /\ tx[t].amount \in 1 .. PeriodPrice[tx[t].id]
           /\ b \in Locked(t)
      /\ tx[t].op = "reverse" => R = {}
      /\ tx[t].op = "free" =>
           /\ R \subseteq HeldBy(t) \cap OpenHolds(b)
           /\ BucketsOf(R) \subseteq Known(t)
           /\ OpenHolds(b) \subseteq tx[t].holds \cup R
           /\ \A r \in tx[t].holds : hold[r].status # "none" /\ hold[r].allocated[b] > 0

RowInv == RowTypes /\ \A t \in Tx : Reads(t) /\ Selects(t) /\ Ends(t)

\* What the step of another session does not change for t.
Keeps(t) ==
  /\ tx'[t] = tx[t] /\ Locked(t)' = Locked(t) /\ HeldBy(t)' = HeldBy(t)
  /\ accountLock' = t <=> accountLock = t
  /\ \A b \in Locked(t) : bucket'[b] = bucket[b]
  /\ \A r \in HeldBy(t) : hold'[r] = hold[r]
  /\ \A r \in Reference :
       hold[r].status # "none" => hold'[r].status # "none" /\ hold'[r].allocated = hold[r].allocated
  /\ \A b \in BucketId : bucket[b].granted # 0 => bucket'[b].granted # 0
  /\ now <= now'

\* What it does not change besides when t has the account: buckets are only
\* refilled.
KeepsAccount ==
  /\ SameGrants(bucket, bucket')
  /\ \A b \in BucketId : /\ bucket'[b].expires = bucket[b].expires
                         /\ bucket'[b].available >= bucket[b].available
                         /\ bucket'[b].available > bucket[b].available => b \in Refilled'
  /\ Refilled \subseteq Refilled'
  /\ \A r \in Reference : /\ hold[r].status = "none" => hold'[r].status = "none"
                          /\ hold'[r].status = "reserved" => hold[r].status = "reserved"
  /\ \A a \in Adjustment :
       <<"ADJUSTMENT", a>> \in DOMAIN ledger' => <<"ADJUSTMENT", a>> \in DOMAIN ledger
  /\ now' = now /\ account' = account

Undisturbed(t) == Keeps(t) /\ (accountLock = t => KeepsAccount)

-----------------------------------------------------------------------------
(* What a transaction reads.                                               *)

LEMMA CopiesAreBuckets ==
  ASSUME NEW bk \in Buckets, NEW S
  PROVE  Only(bk, S) \in Buckets /\ With(bk, S) \in Buckets
<1>1. Never \in Nat
  BY ConstantsAssumption DEF Never
<1>2. NoBucket \in Bucket
  BY <1>1 DEF NoBucket, Bucket
<1> QED
  BY <1>2 DEF Only, With, Buckets, Bucket

LEMMA WithoutTrial == \A bk : WithTrial(bk, FALSE) = bk
BY DEF WithTrial

LEMMA TrialIsBucket == Trial \in BucketId
BY DEF Trial, BucketId

\* The trial that a transaction grants itself is the only row it adds.
LEMMA BaseAdds ==
  ASSUME bucket \in Buckets, NEW t
  PROVE  \A b \in BucketId : bucket[b].granted # 0 => Base(t)[b] = bucket[b]
BY DEF Base, WithTrial, Grant, Buckets

LEMMA BaseSound ==
  ASSUME IInv, Funded, NEW t
  PROVE  /\ Base(t) \in Buckets /\ Sound(Base(t), hold)
         /\ GrantsInOrder(Base(t)) /\ GrantsInBounds(Base(t))
BY LiveBuckets DEF Base, Funded

LEMMA BaseOutside ==
  ASSUME NEW t \in Tx, Reads(t), accountLock # t
  PROVE  Base(t) = bucket /\ ~ tx[t].verified
<1>1. ~ tx[t].verified
  BY DEF Reads, InAccount
<1>2. WithTrial(bucket, tx[t].verified) = bucket
  BY <1>1 DEF WithTrial
<1> QED
  BY <1>1, <1>2 DEF Base

\* The same rows, and of one that is in both, what was refilled since.
Grown(bk, bk2) ==
  \A b \in BucketId :
    /\ bk2[b].granted = bk[b].granted /\ bk2[b].expires = bk[b].expires
    /\ bk2[b].available >= bk[b].available
    /\ bk2[b].available > bk[b].available => b \in Refilled'

LEMMA BaseStable ==
  ASSUME IInv, IInv', Funded, NEW t \in Tx, Reads(t), Undisturbed(t)
  PROVE  /\ \A b \in Locked(t) : Base(t)'[b] = Base(t)[b]
         /\ \A b \in BucketId : Base(t)[b].granted # 0 => Base(t)'[b].granted # 0
         /\ accountLock = t =>
              \A b \in BucketId :
                /\ Base(t)'[b].granted = Base(t)[b].granted /\ Base(t)'[b].expires = Base(t)[b].expires
                /\ Base(t)'[b].available >= Base(t)[b].available
                /\ Base(t)'[b].available > Base(t)[b].available => b \in Refilled'
<1>1. bucket \in Buckets /\ bucket' \in Buckets
  BY DEF IInv
<1>2. Base(t)' = WithTrial(bucket, tx[t].verified)'
  BY DEF Base
<1>3. CASE ~ tx[t].verified
  <2>1. ~ tx'[t].verified
    BY <1>3 DEF Undisturbed, Keeps
  <2>2. Base(t) = bucket /\ Base(t)' = bucket'
    BY <1>3, <2>1 DEF Base, WithTrial
  <2>3. \A b \in Locked(t) : bucket'[b] = bucket[b]
    BY DEF Undisturbed, Keeps
  <2>4. \A b \in BucketId : bucket[b].granted # 0 => bucket'[b].granted # 0
    BY DEF Undisturbed, Keeps
  <2>5. accountLock = t => Grown(bucket, bucket')
    BY DEF Undisturbed, KeepsAccount, Grown, SameGrants
  <2> QED
    BY <2>2, <2>3, <2>4, <2>5 DEF Grown
<1>4. CASE tx[t].verified
  <2>1. accountLock = t /\ tx'[t].verified
    BY <1>4 DEF Reads, InAccount, Undisturbed, Keeps
  <2>2. SameGrants(bucket, bucket') /\ now' = now
    BY <2>1 DEF Undisturbed, KeepsAccount
  <2>3. Grown(bucket, bucket')
    BY <2>1 DEF Undisturbed, KeepsAccount, Grown, SameGrants
  <2>4. \A b \in Locked(t) : bucket'[b] = bucket[b]
    BY DEF Undisturbed, Keeps
  <2>5. CASE bucket[Trial].granted # 0
    <3>1. bucket'[Trial].granted # 0
      BY <2>2, <2>5, TrialIsBucket DEF SameGrants
    <3>2. Base(t) = bucket /\ Base(t)' = bucket'
      BY <1>4, <2>1, <2>5, <3>1 DEF Base, WithTrial, Grant
    <3> QED
      BY <2>2, <2>3, <2>4, <3>2 DEF SameGrants, Grown
  <2>6. CASE bucket[Trial].granted = 0
    <3> DEFINE row == [granted |-> TrialGrant, available |-> TrialGrant, reserved |-> 0,
                       expires |-> now + TrialDays,
                       created |-> 1 + Cardinality({c \in BucketId : bucket[c].granted # 0})]
    <3>1. bucket'[Trial].granted = 0
      BY <2>2, <2>6, TrialIsBucket DEF SameGrants
    <3>2. {c \in BucketId : bucket'[c].granted # 0} = {c \in BucketId : bucket[c].granted # 0}
      BY <2>2 DEF SameGrants
    <3>3. Base(t) = [bucket EXCEPT ![Trial] = row]
      BY <1>4, <2>6 DEF Base, WithTrial, Grant
    <3>4. Base(t)' = [bucket' EXCEPT ![Trial] = row]
      BY <2>1, <2>2, <3>1, <3>2 DEF Base, WithTrial, Grant
    <3>5. row.granted \in Nat /\ row.expires \in Nat /\ row.available \in Nat
      BY ConstantsAssumption DEF IInv
    <3> HIDE DEF row
    <3>6. \A b \in BucketId : /\ Base(t)[b] = IF b = Trial THEN row ELSE bucket[b]
                              /\ Base(t)'[b] = IF b = Trial THEN row ELSE bucket'[b]
      BY <1>1, <3>3, <3>4 DEF Buckets
    <3>7. \A b \in BucketId :
             /\ Base(t)'[b].granted = Base(t)[b].granted /\ Base(t)'[b].expires = Base(t)[b].expires
             /\ Base(t)'[b].available >= Base(t)[b].available
             /\ Base(t)'[b].available > Base(t)[b].available => b \in Refilled'
      BY <2>3, <3>5, <3>6 DEF Grown
    <3>8. \A b \in Locked(t) : Base(t)'[b] = Base(t)[b]
      BY <2>4, <3>6 DEF Locked
    <3> QED
      BY <3>7, <3>8
  <2> QED
    BY <2>5, <2>6
<1> QED
  BY <1>3, <1>4

\* What was known to a select stays so: a row with credits was there before, or
\* was refilled.
LEMMA GrownSelects ==
  ASSUME NEW bk \in Buckets, NEW bk2 \in Buckets, Grown(bk, bk2), Refilled \subseteq Refilled'
  PROVE  /\ Expirable(bk) \subseteq Expirable(bk2)
         /\ \A S : Expirable(bk) \ S \subseteq Refilled => Expirable(bk2) \ S \subseteq Refilled'
         /\ \A S : Stock(bk) \ S \subseteq Refilled => Stock(bk2) \ S \subseteq Refilled'
BY DEF Expirable, Stock, Grown, Buckets, Bucket

-----------------------------------------------------------------------------
(* A transaction is not disturbed by the steps of another session.         *)

LEMMA ReadsStable ==
  ASSUME IInv, IInv', Funded, NEW t \in Tx, tx \in [Tx -> Transaction], Reads(t), Undisturbed(t)
  PROVE  Reads(t)'
<1>1. /\ tx'[t] = tx[t] /\ Locked(t)' = Locked(t) /\ HeldBy(t)' = HeldBy(t)
      /\ accountLock' = t <=> accountLock = t
      /\ Known(t)' = Known(t)
  BY DEF Undisturbed, Keeps, Known
<1>2. /\ \A b \in Locked(t) : Base(t)'[b] = Base(t)[b]
      /\ \A b \in BucketId : Base(t)[b].granted # 0 => Base(t)'[b].granted # 0
  BY BaseStable
<1>3. Only(Base(t), Locked(t))' = Only(Base(t), Locked(t))
  BY <1>1, <1>2 DEF Only
<1>4. tx'[t].row = Only(Base(t), Locked(t))'
  BY <1>1, <1>3 DEF Reads
<1>5. Known(t) \subseteq BucketId
  BY DEF Known, Locked, Transaction
<1>6. \A b \in Known(t)' : Base(t)'[b].granted # 0
  BY <1>1, <1>2, <1>5 DEF Reads
<1>7. NoTx' = NoTx
  BY DEF NoTx
<1> QED
  BY <1>1, <1>4, <1>6, <1>7 DEF Reads

LEMMA SelectsStable ==
  ASSUME IInv, IInv', Funded, NEW t \in Tx, Reads(t), Selects(t), Undisturbed(t)
  PROVE  Selects(t)'
<1>1. tx'[t] = tx[t] /\ Locked(t)' = Locked(t) /\ Known(t)' = Known(t)
  BY DEF Undisturbed, Keeps, Known
<1>2. CASE accountLock # t
  <2>1. tx'[t].op \notin InAccount
    BY <1>1, <1>2 DEF Reads
  <2> QED
    BY <2>1 DEF Selects, InAccount
<1>3. CASE accountLock = t
  <2>1. KeepsAccount
    BY <1>3 DEF Undisturbed
  <2>2. Grown(Base(t), Base(t)') /\ Grown(bucket, bucket')
    BY <1>3, <2>1, BaseStable DEF KeepsAccount, Grown, SameGrants
  <2>3. Base(t) \in Buckets /\ bucket \in Buckets /\ bucket' \in Buckets
    BY BaseSound DEF IInv
  <2>4. Base(t)' \in Buckets
    <3>1. /\ now' \in Nat /\ hold' \in Holds /\ Sound(bucket', hold')
      BY ConstantsAssumption DEF IInv
    <3>2. Base(t)' = WithTrial(bucket', tx'[t].verified)
      BY <2>1 DEF Base, WithTrial, KeepsAccount
    <3> QED
      BY <2>1, <2>3, <3>1, <3>2, TrialSound DEF KeepsAccount
  <2>5. Refilled \subseteq Refilled' /\ now' = now /\ account' = account
    BY <2>1 DEF KeepsAccount
  <2>6. /\ Expirable(Base(t)) \subseteq Expirable(Base(t)')
        /\ \A S : Expirable(Base(t)) \ S \subseteq Refilled
                  => Expirable(Base(t)') \ S \subseteq Refilled'
        /\ \A S : Stock(Base(t)) \ S \subseteq Refilled => Stock(Base(t)') \ S \subseteq Refilled'
    BY <2>2, <2>3, <2>4, <2>5, GrownSelects
  <2>7. \A S : Stock(bucket) \ S \subseteq Refilled => Stock(bucket') \ S \subseteq Refilled'
    BY <2>2, <2>3, <2>5, GrownSelects
  <2>8. Expirable(Base(t))' = Expirable(Base(t)') /\ Stock(Base(t))' = Stock(Base(t)')
    BY <2>5 DEF Expirable, Stock
  <2>9. /\ \A r \in Reference : hold[r].status = "none" => hold'[r].status = "none"
        /\ \A a \in Adjustment :
             <<"ADJUSTMENT", a>> \in DOMAIN ledger' => <<"ADJUSTMENT", a>> \in DOMAIN ledger
    BY <2>1 DEF KeepsAccount
  <2>10. tx[t].op \in {"account", "reserve"} =>
           /\ Known(t) \subseteq Expirable(Base(t))'
           /\ Expirable(Base(t))' \ Known(t) \subseteq Refilled'
    BY <2>6, <2>8 DEF Selects
  <2>11. tx[t].op = "spend" =>
           /\ tx[t].expired \subseteq Locked(t) \cap Expirable(Base(t))'
           /\ Expirable(Base(t))' \ tx[t].expired \subseteq Refilled'
           /\ Stock(Base(t))' \ Known(t) \subseteq Refilled'
    BY <2>6, <2>8 DEF Selects
  <2>12. tx[t].op = "drain" => Stock(bucket)' \ Known(t) \subseteq Refilled'
    BY <2>7 DEF Selects, Stock
  <2>13. tx[t].op \in {"reserve", "spend"} =>
           tx[t].id \in Reference /\ hold'[tx[t].id].status = "none" /\ account'.status = "active"
    BY <2>5, <2>9 DEF Selects
  <2>14. tx[t].op = "drain" =>
           /\ tx[t].id \in Adjustment
           /\ AdjustmentAmount[tx[t].id] < 0 /\ <<"ADJUSTMENT", tx[t].id>> \notin DOMAIN ledger'
    BY <2>9 DEF Selects
  <2> QED
    BY <1>1, <2>10, <2>11, <2>12, <2>13, <2>14 DEF Selects
<1> QED
  BY <1>2, <1>3

LEMMA EndsStable ==
  ASSUME IInv, IInv', NEW t \in Tx, Reads(t), Ends(t), Undisturbed(t), tx \in [Tx -> Transaction]
  PROVE  Ends(t)'
<1> DEFINE C == tx[t].C
           R == tx[t].R
           D == tx[t].D
           b == PaymentBucket(tx[t].id)
<1>1. /\ tx'[t] = tx[t] /\ Locked(t)' = Locked(t) /\ HeldBy(t)' = HeldBy(t)
      /\ Known(t)' = Known(t) /\ HeldBy(t) \subseteq Reference
      /\ \A r \in HeldBy(t) : hold'[r] = hold[r]
      /\ \A r \in Reference :
           hold[r].status # "none" => hold'[r].status # "none" /\ hold'[r].allocated = hold[r].allocated
      /\ now <= now'
  BY DEF Undisturbed, Keeps, Known, HeldBy
<1>2. \A H : H \subseteq HeldBy(t) => BucketsOf(H)' = BucketsOf(H)
  BY <1>1 DEF BucketsOf
<1>3. HeldBy(t) \cap Reserved(hold)' = HeldBy(t) \cap Reserved(hold)
  BY <1>1 DEF Reserved, WithStatus
<1>5. HeldBy(t) \cap Overdue \subseteq Overdue'
  <2>1. now \in Int /\ now' \in Int /\ \A r \in Reference : hold[r].expires \in Int
    BY DEF IInv, Holds, Hold
  <2> QED
    BY <1>1, <2>1 DEF Overdue, Reserved, WithStatus
<1>6. CASE tx[t].op = "settle"
  <2>1. /\ C \cup R \cup D \subseteq HeldBy(t) \cap Reserved(hold)
        /\ C \cap R = {} /\ (C \cup R) \cap D = {}
        /\ BucketsOf(C \cup R) \subseteq Known(t)
        /\ \/ C \cup R \cup D \subseteq Overdue
           \/ \E r \in Reference : C = {r} /\ R = {} /\ D = {}
           \/ \E r \in Reference : C = {} /\ R = {r} /\ D = {}
        /\ \A r \in HeldBy(t) : hold[r].status # "none"
    BY <1>6 DEF Ends
  <2>2. {b0 \in BucketId : \E r \in C \cup R : hold'[r].allocated[b0] > 0} = BucketsOf(C \cup R)
    BY <1>1, <2>1 DEF BucketsOf
  <2>3. C \cup R \cup D \subseteq HeldBy(t) \cap Reserved(hold)'
    BY <1>3, <2>1
  <2>4. C \cup R \cup D \subseteq Overdue => C \cup R \cup D \subseteq Overdue'
    BY <1>5, <2>1
  <2> QED
    BY <1>1, <1>6, <2>1, <2>2, <2>3, <2>4 DEF Ends, BucketsOf
<1>7. CASE tx[t].op = "refund"
  <2>1. /\ tx[t].id \in HeldBy(t) /\ hold[tx[t].id].status = "captured"
        /\ BucketsOf({tx[t].id}) \subseteq Known(t)
        /\ \A r \in HeldBy(t) : hold[r].status # "none"
    BY <1>7 DEF Ends
  <2>2. BucketsOf({tx[t].id})' = BucketsOf({tx[t].id})
    BY <1>1, <2>1 DEF BucketsOf
  <2> QED
    BY <1>1, <1>7, <2>1, <2>2 DEF Ends
<1>8. CASE tx[t].op = "reverse"
  BY <1>1, <1>8 DEF Ends, PaymentBucket
<1>9. CASE tx[t].op = "free"
  <2>1. /\ R \subseteq HeldBy(t) \cap OpenHolds(b)
        /\ BucketsOf(R) \subseteq Known(t)
        /\ OpenHolds(b) \subseteq tx[t].holds \cup R
        /\ \A r \in tx[t].holds : hold[r].status # "none" /\ hold[r].allocated[b] > 0
        /\ tx[t].id \in Period /\ tx[t].amount \in 1 .. PeriodPrice[tx[t].id] /\ b \in Locked(t)
        /\ \A r \in HeldBy(t) : hold[r].status # "none"
    BY <1>9 DEF Ends
  <2>2. KeepsAccount
    BY <1>9 DEF Reads, InAccount, Undisturbed
  <2>3. BucketsOf(R)' = BucketsOf(R)
    BY <1>1, <2>1 DEF BucketsOf
  <2>4. \A r \in Reference : r \in OpenHolds(b)' => r \in OpenHolds(b)
    BY <1>1, <2>2 DEF OpenHolds, KeepsAccount, Reserved, WithStatus, PaymentBucket
  <2>5. R \subseteq HeldBy(t) \cap OpenHolds(b)'
    BY <1>1, <2>1 DEF OpenHolds, Reserved, WithStatus, PaymentBucket
  <2>6. tx[t].holds \subseteq Reference
    BY DEF Transaction
  <2>7. OpenHolds(b)' \subseteq tx[t].holds \cup R
    BY <2>1, <2>4 DEF OpenHolds, Reserved, WithStatus
  <2>8. \A r \in tx[t].holds : hold'[r].status # "none" /\ hold'[r].allocated[b] > 0
    BY <1>1, <2>1, <2>6
  <2> QED
    BY <1>1, <1>9, <2>1, <2>3, <2>5, <2>7, <2>8 DEF Ends
<1>10. CASE tx[t].op \notin {"settle", "refund", "reverse", "free"}
  BY <1>1, <1>10 DEF Ends
<1> QED
  BY <1>6, <1>7, <1>8, <1>9, <1>10

Own(t) == Reads(t) /\ Selects(t) /\ Ends(t)

LEMMA OwnStable ==
  ASSUME IInv, IInv', Funded, RowInv, NEW t \in Tx, Undisturbed(t)
  PROVE  Own(t)'
BY ReadsStable, SelectsStable, EndsStable DEF RowInv, RowTypes, Own

\* Locking, selecting and aborting disturb nobody else.
LEMMA QuietStep ==
  ASSUME IInv, NEW t \in Tx, UNCHANGED vars,
         tx'[t] = tx[t], Locked(t)' = Locked(t), HeldBy(t)' = HeldBy(t),
         accountLock' = t <=> accountLock = t
  PROVE  Undisturbed(t)
<1>1. now \in Int /\ \A b \in BucketId : bucket[b].available \in Int
  BY DEF IInv, Buckets, Bucket
<1>2. /\ now' = now /\ bucket' = bucket /\ hold' = hold /\ account' = account /\ ledger' = ledger
      /\ reversal' = reversal
  BY DEF vars
<1>3. Refilled' = Refilled
  BY <1>2 DEF Refilled
<1>4. Keeps(t)
  BY <1>1, <1>2 DEF Keeps
<1>5. KeepsAccount
  BY <1>1, <1>2, <1>3 DEF KeepsAccount, SameGrants
<1> QED
  BY <1>4, <1>5 DEF Undisturbed

LEMMA QuietInv ==
  ASSUME IInv, Funded, RowInv, UNCHANGED vars, NEW t \in Tx, RowTypes', Own(t)',
         \A s \in Tx \ {t} : /\ tx'[s] = tx[s] /\ Locked(s)' = Locked(s) /\ HeldBy(s)' = HeldBy(s)
                             /\ accountLock' = s <=> accountLock = s
  PROVE  RowInv'
<1>1. IInv'
  BY DEF IInv, vars
<1>2. ASSUME NEW s \in Tx, s # t PROVE Own(s)'
  <2>1. s \in Tx \ {t}
    BY <1>2
  <2>2. Undisturbed(s)
    BY <2>1, QuietStep
  <2> QED
    BY <1>1, <2>2, OwnStable
<1> QED
  BY <1>2 DEF RowInv, Own

\* A transaction that has just begun by locking the account has read nothing.
LEMMA BeginKeeps ==
  ASSUME RowInv, NEW t \in Tx, NEW work, Begin(t, work), work \in Transaction
  PROVE  /\ RowTypes'
         /\ tx'[t] = work /\ accountLock' = t /\ UNCHANGED vars
         /\ Locked(t)' = {} /\ HeldBy(t)' = {}
         /\ \A s \in Tx \ {t} : /\ tx'[s] = tx[s] /\ Locked(s)' = Locked(s)
                                /\ HeldBy(s)' = HeldBy(s)
                                /\ accountLock' = s <=> accountLock = s
<1>1. /\ tx[t].op = "idle" /\ accountLock = Nobody /\ accountLock' = t
      /\ tx' = [tx EXCEPT ![t] = work] /\ bucketLock' = bucketLock /\ holdLock' = holdLock
      /\ UNCHANGED vars
  BY DEF Begin
<1>2. Locked(t) = {} /\ HeldBy(t) = {}
  BY <1>1 DEF RowInv, Reads
<1>3. \A s : Locked(s)' = Locked(s) /\ HeldBy(s)' = HeldBy(s)
  BY <1>1 DEF Locked, HeldBy
<1>4. RowTypes'
  BY <1>1 DEF RowInv, RowTypes
<1>5. tx'[t] = work /\ \A s \in Tx \ {t} : tx'[s] = tx[s]
  BY <1>1 DEF RowInv, RowTypes
<1> QED
  BY <1>1, <1>2, <1>3, <1>4, <1>5, RowsAssumption

\* What can be spent or expires was granted.
LEMMA StockIsGranted ==
  ASSUME NEW bk \in Buckets, NEW h \in Holds, Sound(bk, h)
  PROVE  \A b \in Stock(bk) : bk[b].granted # 0
<1> SUFFICES ASSUME NEW b \in BucketId, bk[b].available > 0 PROVE bk[b].granted # 0
  BY DEF Stock
<1>1. Allocated(h, Charged(h), b) \in Nat
  BY AllocatedIsNat DEF Charged, WithStatus
<1>2. bk[b] \in Bucket
  BY DEF Buckets
<1>3. bk[b].available + bk[b].reserved + Allocated(h, Charged(h), b) <= bk[b].granted
  BY DEF Sound
<1> QED
  BY <1>1, <1>2, <1>3 DEF Bucket

LEMMA NoTransaction ==
  /\ NoTx \in Transaction
  /\ NoTx.op = "idle" /\ NoTx.id = Nobody /\ ~ NoTx.verified
  /\ NoTx.C = {} /\ NoTx.R = {} /\ NoTx.D = {}
  /\ NoTx.holds = {} /\ NoTx.todo = {} /\ NoTx.expired = {}
  /\ NoTx.row = [b \in BucketId |-> NoBucket] /\ NoTx.row \in Buckets
<1>1. [b \in BucketId |-> NoBucket] \in Buckets
  <2>1. Never \in Nat
    BY ConstantsAssumption DEF Never
  <2> QED
    BY <2>1 DEF NoBucket, Bucket, Buckets
<1> QED
  BY <1>1 DEF NoTx, Transaction, Op

LEMMA BeginOfSelect ==
  ASSUME IInv, Funded, RowInv, NEW t \in Tx, NEW verified \in BOOLEAN,
         NEW work \in Transaction, Begin(t, work),
         work.op \in {"account", "reserve"}, work.verified = verified, work.holds = {},
         work.todo = Expirable(WithTrial(bucket, verified)),
         work.row = [b \in BucketId |-> NoBucket],
         work.op = "reserve" =>
           work.id \in Reference /\ hold[work.id].status = "none" /\ account.status = "active"
  PROVE  RowInv'
<1> DEFINE granted == WithTrial(bucket, verified)
<1>1. granted \in Buckets /\ Sound(granted, hold)
  BY TrialSound, ConstantsAssumption DEF IInv
<1>2. \A b \in Expirable(granted) : granted[b].granted # 0
  BY <1>1, StockIsGranted DEF IInv, Expirable, Stock
<1>3. work.todo = Expirable(granted)
  OBVIOUS
<1>4. WithTrial(bucket, verified) = granted
  OBVIOUS
<1> HIDE DEF granted
<1>7. /\ RowTypes'
      /\ tx'[t] = work /\ accountLock' = t /\ UNCHANGED vars
      /\ Locked(t)' = {} /\ HeldBy(t)' = {}
      /\ \A s \in Tx \ {t} : /\ tx'[s] = tx[s] /\ Locked(s)' = Locked(s)
                             /\ HeldBy(s)' = HeldBy(s)
                             /\ accountLock' = s <=> accountLock = s
  BY BeginKeeps
<1>8. Base(t)' = granted /\ Known(t)' = Expirable(granted) /\ Expirable(Base(t))' = Expirable(granted)
  <2>1. Base(t)' = granted
    BY <1>4, <1>7 DEF Base, WithTrial, Grant, vars
  <2> QED
    BY <1>3, <1>7, <2>1 DEF Known, Expirable, vars
<1>9. Reads(t)'
  <2>1. Only(Base(t), Locked(t))' = [b \in BucketId |-> NoBucket]
    BY <1>7 DEF Only
  <2> QED
    BY <1>2, <1>7, <1>8, <2>1 DEF Reads, InAccount
<1>10. Selects(t)'
  BY <1>7, <1>8 DEF Selects, vars
<1>11. Ends(t)'
  BY <1>7 DEF Ends
<1> QED
  BY <1>7, <1>9, <1>10, <1>11, QuietInv DEF Own

LEMMA BeginCreditAccountInv ==
  ASSUME IInv, Funded, RowInv, NEW t \in Tx, NEW verified \in BOOLEAN, BeginCreditAccount(t, verified)
  PROVE  RowInv'
<1> DEFINE todo == Expirable(WithTrial(bucket, verified))
           work == [NoTx EXCEPT !.op = "account", !.verified = verified, !.todo = todo]
<1>1. todo \subseteq BucketId
  BY DEF Expirable
<1>2. Begin(t, work)
  BY DEF BeginCreditAccount
<1>3. todo = Expirable(WithTrial(bucket, verified))
  OBVIOUS
<1> HIDE DEF todo
<1>4. /\ work \in Transaction /\ work.op = "account" /\ work.verified = verified /\ work.todo = todo
      /\ work.holds = {} /\ work.row = [b \in BucketId |-> NoBucket]
  BY <1>1, NoTransaction DEF Transaction, Op
<1> HIDE DEF work
<1> QED
  BY <1>2, <1>3, <1>4, BeginOfSelect

LEMMA BeginReserveInv ==
  ASSUME IInv, Funded, RowInv, NEW t \in Tx, NEW r \in Reference, NEW verified \in BOOLEAN,
         BeginReserve(t, r, verified)
  PROVE  RowInv'
<1> DEFINE todo == Expirable(WithTrial(bucket, verified))
           work == [NoTx EXCEPT !.op = "reserve", !.id = r, !.verified = verified, !.todo = todo]
<1>1. todo \subseteq BucketId
  BY DEF Expirable
<1>2. Begin(t, work) /\ hold[r].status = "none" /\ account.status = "active"
  BY DEF BeginReserve
<1>3. todo = Expirable(WithTrial(bucket, verified))
  OBVIOUS
<1> HIDE DEF todo
<1>4. /\ work \in Transaction /\ work.op = "reserve" /\ work.id = r /\ work.verified = verified
      /\ work.todo = todo /\ work.holds = {} /\ work.row = [b \in BucketId |-> NoBucket]
  BY <1>1, NoTransaction DEF Transaction, Op
<1> HIDE DEF work
<1> QED
  BY <1>2, <1>3, <1>4, BeginOfSelect

LEMMA BeginDebitInv ==
  ASSUME IInv, Funded, RowInv, NEW t \in Tx, NEW a \in Adjustment, BeginDebit(t, a)
  PROVE  RowInv'
<1> DEFINE work == [NoTx EXCEPT !.op = "drain", !.id = a, !.todo = Stock(bucket)]
<1>1. \A b \in Stock(bucket) : bucket[b].granted # 0
  BY StockIsGranted DEF IInv
<1>2. Stock(bucket) \subseteq BucketId
  BY DEF Stock
<1>4. /\ work \in Transaction /\ work.op = "drain" /\ work.id = a /\ ~ work.verified
      /\ work.todo = Stock(bucket) /\ work.holds = {} /\ work.row = [b \in BucketId |-> NoBucket]
  BY <1>2, NoTransaction DEF Transaction, Op
<1> HIDE DEF work
<1>6. /\ RowTypes'
      /\ tx'[t] = work /\ accountLock' = t /\ UNCHANGED vars
      /\ Locked(t)' = {} /\ HeldBy(t)' = {}
      /\ \A s \in Tx \ {t} : /\ tx'[s] = tx[s] /\ Locked(s)' = Locked(s)
                             /\ HeldBy(s)' = HeldBy(s)
                             /\ accountLock' = s <=> accountLock = s
  BY <1>4, BeginKeeps DEF work, BeginDebit
<1>7. Base(t)' = bucket /\ Known(t)' = Stock(bucket) /\ Stock(bucket)' = Stock(bucket)
  <2>1. Base(t)' = bucket
    BY <1>4, <1>6 DEF Base, WithTrial, vars
  <2> QED
    BY <1>4, <1>6, <2>1 DEF Known, Stock, vars
<1>8. Reads(t)'
  <2>1. Only(Base(t), Locked(t))' = [b \in BucketId |-> NoBucket]
    BY <1>6 DEF Only
  <2> QED
    BY <1>1, <1>4, <1>6, <1>7, <2>1 DEF Reads, InAccount
<1>9. Selects(t)'
  BY <1>4, <1>6, <1>7 DEF Selects, BeginDebit, vars
<1>10. Ends(t)'
  BY <1>4, <1>6 DEF Ends
<1> QED
  BY <1>6, <1>8, <1>9, <1>10, QuietInv DEF Own

\* A bucket that a reservation holds, or was charged for it, was granted.
LEMMA HeldIsGranted ==
  ASSUME IInv, NEW r \in Reference, hold[r].status \in {"reserved", "captured"},
         NEW b \in BucketId, hold[r].allocated[b] > 0
  PROVE  bucket[b].granted # 0
<1>1. /\ bucket \in Buckets /\ hold \in Holds /\ Sound(bucket, hold)
  BY DEF IInv
<1>2. hold[r].allocated[b] \in Nat
  BY <1>1, ConstantsAssumption DEF Holds, Hold, Allocation, Credits
<1>3. \A S \in SUBSET Reference : r \in S => Allocated(hold, S, b) >= hold[r].allocated[b]
  <2> TAKE S \in SUBSET Reference
  <2> SUFFICES ASSUME r \in S PROVE Allocated(hold, S, b) >= hold[r].allocated[b]
    OBVIOUS
  <2>1. S = (S \ {r}) \cup {r} /\ (S \ {r}) \cap {r} = {}
    OBVIOUS
  <2>2. Allocated(hold, S, b) = Allocated(hold, S \ {r}, b) + Allocated(hold, {r}, b)
    BY <2>1, AllocatedOfUnion
  <2>3. Allocated(hold, {r}, b) = hold[r].allocated[b] /\ Allocated(hold, S \ {r}, b) \in Nat
    BY <1>1, AllocatedOfOne, AllocatedIsNat
  <2> QED
    BY <1>2, <2>2, <2>3
<1>4. /\ Allocated(hold, Reserved(hold), b) \in Nat /\ Allocated(hold, Charged(hold), b) \in Nat
      /\ Reserved(hold) \subseteq Reference /\ Charged(hold) \subseteq Reference
  BY AllocatedIsNat DEF Reserved, Charged, WithStatus
<1>5. r \in Reserved(hold) \/ r \in Charged(hold)
  BY DEF Reserved, Charged, WithStatus
<1>6. bucket[b] \in Bucket
  BY <1>1 DEF Buckets
<1>7. Allocated(hold, Reserved(hold), b) > 0 \/ Allocated(hold, Charged(hold), b) > 0
  BY <1>2, <1>3, <1>4, <1>5
<1> QED
  BY <1>1, <1>4, <1>6, <1>7 DEF Sound, Bucket

LEMMA BeginSettleInv ==
  ASSUME IInv, Funded, RowInv, NEW t \in Tx,
         NEW C \in SUBSET Reserved(hold), NEW R \in SUBSET Reserved(hold),
         NEW D \in SUBSET Reserved(hold), C \cap R = {}, (C \cup R) \cap D = {},
         \/ C \cup R \cup D \subseteq Overdue
         \/ \E r \in Reference : C = {r} /\ R = {} /\ D = {}
         \/ \E r \in Reference : C = {} /\ R = {r} /\ D = {},
         BeginSettle(t, C, R, D)
  PROVE  RowInv'
<1> DEFINE work == [NoTx EXCEPT !.op = "settle", !.C = C, !.R = R, !.D = D,
                                !.todo = BucketsOf(C \cup R)]
<1>1. /\ tx[t].op = "idle" /\ \A r \in C \cup R \cup D : holdLock[r] = Nobody
      /\ holdLock' = [r \in Reference |-> IF r \in C \cup R \cup D THEN t ELSE holdLock[r]]
      /\ tx' = [tx EXCEPT ![t] = work] /\ UNCHANGED <<vars, accountLock, bucketLock>>
  BY DEF BeginSettle
<1>2. C \cup R \cup D \subseteq Reference /\ BucketsOf(C \cup R) \subseteq BucketId
  BY DEF Reserved, WithStatus, BucketsOf
<1>3. /\ work \in Transaction /\ work.op = "settle" /\ work.C = C /\ work.R = R /\ work.D = D
      /\ work.todo = BucketsOf(C \cup R) /\ ~ work.verified /\ work.holds = {}
      /\ work.row = [b \in BucketId |-> NoBucket]
  BY <1>2, NoTransaction DEF Transaction, Op
<1> HIDE DEF work
<1>4. Locked(t) = {} /\ HeldBy(t) = {} /\ accountLock # t
  BY <1>1 DEF RowInv, Reads, InAccount
<1>5. RowTypes'
  BY <1>1, <1>3 DEF RowInv, RowTypes
<1>6. tx'[t] = work /\ \A s \in Tx \ {t} : tx'[s] = tx[s]
  BY <1>1 DEF RowInv, RowTypes
<1>7. /\ \A s : Locked(s)' = Locked(s)
      /\ HeldBy(t)' = C \cup R \cup D
      /\ \A s \in Tx \ {t} : HeldBy(s)' = HeldBy(s)
  BY <1>1, <1>2, <1>4, RowsAssumption DEF Locked, HeldBy
<1>8. Base(t)' = bucket /\ Known(t)' = BucketsOf(C \cup R)
  <2>1. Base(t)' = bucket
    BY <1>1, <1>3, <1>6 DEF Base, WithTrial, vars
  <2> QED
    BY <1>3, <1>4, <1>6, <1>7, <2>1 DEF Known
<1>9. \A b \in BucketsOf(C \cup R) : bucket[b].granted # 0
  <2> SUFFICES ASSUME NEW b \in BucketId, NEW r \in C \cup R, hold[r].allocated[b] > 0
               PROVE  bucket[b].granted # 0
    BY DEF BucketsOf
  <2>1. r \in Reserved(hold) /\ r \in Reference
    BY <1>2
  <2> QED
    BY <2>1, HeldIsGranted DEF Reserved, WithStatus
<1>10. Reads(t)'
  <2>1. Only(Base(t), Locked(t))' = [b \in BucketId |-> NoBucket]
    BY <1>4, <1>7 DEF Only
  <2> QED
    BY <1>1, <1>3, <1>4, <1>6, <1>8, <1>9, <2>1 DEF Reads, InAccount
<1>11. Selects(t)'
  BY <1>3, <1>6 DEF Selects
<1>12. Ends(t)'
  <2>1. /\ Overdue' = Overdue /\ Reserved(hold)' = Reserved(hold)
        /\ BucketsOf(C \cup R)' = BucketsOf(C \cup R)
    BY <1>1 DEF vars, Overdue, Reserved, WithStatus, BucketsOf
  <2>2. \A r \in C \cup R \cup D : hold'[r].status # "none"
    BY <1>1 DEF Reserved, WithStatus, vars
  <2>3. {b0 \in BucketId : \E r \in tx'[t].C \cup tx'[t].R : hold'[r].allocated[b0] > 0} = BucketsOf(C \cup R)
    BY <1>1, <1>3, <1>6 DEF vars, BucketsOf
  <2> QED
    BY <1>2, <1>3, <1>6, <1>7, <1>8, <2>1, <2>2, <2>3 DEF Ends, BucketsOf
<1> QED
  BY <1>1, <1>5, <1>6, <1>7, <1>10, <1>11, <1>12, QuietInv DEF Own

LEMMA BeginSettlesInv ==
  ASSUME IInv, Funded, RowInv, NEW t \in Tx,
         BeginPass(t) \/ \E r \in Reference : BeginCapture(t, r) \/ BeginRelease(t, r)
  PROVE  RowInv'
<1>1. ASSUME NEW r \in Reference, BeginCapture(t, r) PROVE RowInv'
  <2>1. {r} \in SUBSET Reserved(hold) /\ {} \in SUBSET Reserved(hold) /\ BeginSettle(t, {r}, {}, {})
    BY <1>1 DEF BeginCapture
  <2> QED
    BY <2>1, BeginSettleInv
<1>2. ASSUME NEW r \in Reference, BeginRelease(t, r) PROVE RowInv'
  <2>1. {r} \in SUBSET Reserved(hold) /\ {} \in SUBSET Reserved(hold) /\ BeginSettle(t, {}, {r}, {})
    BY <1>2 DEF BeginRelease
  <2> QED
    BY <2>1, BeginSettleInv
<1>3. CASE BeginPass(t)
  <2>1. PICK C \in SUBSET Overdue, R \in SUBSET Overdue, D \in SUBSET Overdue :
          C \cap R = {} /\ (C \cup R) \cap D = {} /\ BeginSettle(t, C, R, D)
    BY <1>3 DEF BeginPass
  <2>2. Overdue \subseteq Reserved(hold)
    BY DEF Overdue
  <2> QED
    BY <2>1, <2>2, BeginSettleInv
<1> QED
  BY <1>1, <1>2, <1>3

LEMMA BeginRefundInv ==
  ASSUME IInv, Funded, RowInv, NEW t \in Tx, NEW r \in Reference, BeginRefund(t, r)
  PROVE  RowInv'
<1> DEFINE work == [NoTx EXCEPT !.op = "refund", !.id = r, !.todo = BucketsOf({r})]
<1>1. /\ tx[t].op = "idle" /\ holdLock[r] = Nobody /\ accountLock = Nobody
      /\ hold[r].status = "captured" /\ accountLock' = t
      /\ holdLock' = [holdLock EXCEPT ![r] = t]
      /\ tx' = [tx EXCEPT ![t] = work] /\ UNCHANGED <<vars, bucketLock>>
  BY DEF BeginRefund
<1>2. BucketsOf({r}) \subseteq BucketId
  BY DEF BucketsOf
<1>3. /\ work \in Transaction /\ work.op = "refund" /\ work.id = r
      /\ work.todo = BucketsOf({r}) /\ ~ work.verified /\ work.holds = {}
      /\ work.row = [b \in BucketId |-> NoBucket]
  BY <1>2, NoTransaction DEF Transaction, Op
<1> HIDE DEF work
<1>4. Locked(t) = {} /\ HeldBy(t) = {}
  BY <1>1 DEF RowInv, Reads
<1>5. RowTypes'
  BY <1>1, <1>3 DEF RowInv, RowTypes
<1>6. tx'[t] = work /\ \A s \in Tx \ {t} : tx'[s] = tx[s]
  BY <1>1 DEF RowInv, RowTypes
<1>7. /\ \A s : Locked(s)' = Locked(s)
      /\ HeldBy(t)' = {r}
      /\ \A s \in Tx \ {t} : HeldBy(s)' = HeldBy(s)
      /\ \A s \in Tx \ {t} : accountLock' = s <=> accountLock = s
  <2>1. holdLock \in [Reference -> Tx \cup {Nobody}]
    BY DEF RowInv, RowTypes
  <2> QED
    BY <1>1, <1>4, <2>1, RowsAssumption DEF Locked, HeldBy
<1>8. Base(t)' = bucket /\ Known(t)' = BucketsOf({r})
  <2>1. Base(t)' = bucket
    BY <1>1, <1>3, <1>6 DEF Base, WithTrial, vars
  <2> QED
    BY <1>3, <1>4, <1>6, <1>7, <2>1 DEF Known
<1>9. \A b \in BucketsOf({r}) : bucket[b].granted # 0
  BY <1>1, HeldIsGranted DEF BucketsOf
<1>10. Reads(t)'
  <2>1. Only(Base(t), Locked(t))' = [b \in BucketId |-> NoBucket]
    BY <1>4, <1>7 DEF Only
  <2> QED
    BY <1>1, <1>3, <1>6, <1>8, <1>9, <2>1 DEF Reads, InAccount
<1>11. Selects(t)'
  BY <1>3, <1>6 DEF Selects
<1>12. Ends(t)'
  <2>1. BucketsOf({r})' = BucketsOf({r}) /\ hold' = hold
    BY <1>1 DEF vars, BucketsOf
  <2>2. BucketsOf({tx[t].id})' = BucketsOf({r})'
    BY <1>3, <1>6
  <2> QED
    BY <1>1, <1>3, <1>6, <1>7, <1>8, <2>1, <2>2 DEF Ends
<1> QED
  BY <1>1, <1>5, <1>6, <1>7, <1>10, <1>11, <1>12, QuietInv DEF Own

LEMMA BeginReversalInv ==
  ASSUME IInv, Funded, RowInv, NEW t \in Tx, NEW p \in Period, NEW amount \in 1 .. PeriodPrice[p],
         BeginReversal(t, p, amount)
  PROVE  RowInv'
<1> DEFINE b == PaymentBucket(p)
           work == [NoTx EXCEPT !.op = "reverse", !.id = p, !.amount = amount, !.row[b] = bucket[b]]
<1>1. /\ tx[t].op = "idle" /\ bucketLock[b] = Nobody /\ bucket[b].granted # 0
      /\ bucketLock' = [bucketLock EXCEPT ![b] = t]
      /\ tx' = [tx EXCEPT ![t] = work] /\ UNCHANGED <<vars, accountLock, holdLock>>
  BY DEF BeginReversal
<1>2. b \in BucketId /\ bucket[b] \in Bucket /\ amount \in Nat
  BY ConstantsAssumption DEF PaymentBucket, BucketId, IInv, Buckets
<1>3. b = PaymentBucket(p)
  OBVIOUS
<1> HIDE DEF b
<1>4. /\ work \in Transaction /\ work.op = "reverse" /\ work.id = p /\ work.amount = amount
      /\ work.todo = {} /\ ~ work.verified /\ work.holds = {} /\ work.R = {}
      /\ work.row = [[c \in BucketId |-> NoBucket] EXCEPT ![b] = bucket[b]]
  BY <1>2, NoTransaction DEF Transaction, Op, Buckets
<1> HIDE DEF work
<1>5. Locked(t) = {} /\ HeldBy(t) = {} /\ accountLock # t
  BY <1>1 DEF RowInv, Reads, InAccount
<1>6. RowTypes'
  BY <1>1, <1>4 DEF RowInv, RowTypes
<1>7. tx'[t] = work /\ \A s \in Tx \ {t} : tx'[s] = tx[s]
  BY <1>1 DEF RowInv, RowTypes
<1>8. /\ \A s : HeldBy(s)' = HeldBy(s)
      /\ Locked(t)' = {b}
      /\ \A s \in Tx \ {t} : Locked(s)' = Locked(s)
  <2>1. bucketLock \in [BucketId -> Tx \cup {Nobody}]
    BY DEF RowInv, RowTypes
  <2> QED
    BY <1>1, <1>2, <1>5, <2>1, RowsAssumption DEF Locked, HeldBy
<1>9. Base(t)' = bucket /\ Known(t)' = {b}
  <2>1. Base(t)' = bucket
    BY <1>1, <1>4, <1>7 DEF Base, WithTrial, vars
  <2> QED
    BY <1>4, <1>7, <1>8, <2>1 DEF Known
<1>10. Reads(t)'
  <2>1. Only(Base(t), Locked(t))' = [c \in BucketId |-> IF c = b THEN bucket[c] ELSE NoBucket]
    BY <1>8, <1>9 DEF Only
  <2>2. work.row = [c \in BucketId |-> IF c = b THEN bucket[c] ELSE NoBucket]
    BY <1>4
  <2> QED
    BY <1>1, <1>4, <1>5, <1>7, <1>9, <2>1, <2>2 DEF Reads, InAccount
<1>11. Selects(t)'
  BY <1>4, <1>7 DEF Selects
<1>12. Ends(t)'
  BY <1>3, <1>4, <1>5, <1>7, <1>8 DEF Ends, PaymentBucket
<1> QED
  BY <1>1, <1>6, <1>7, <1>8, <1>10, <1>11, <1>12, QuietInv DEF Own

\* A session has a lock of its own.
LEMMA LocksAreOwn ==
  ASSUME RowTypes, NEW t \in Tx, NEW s \in Tx, s # t
  PROVE  Locked(s) \cap Locked(t) = {} /\ HeldBy(s) \cap HeldBy(t) = {}
BY DEF Locked, HeldBy

LEMMA LockBucketInv ==
  ASSUME IInv, Funded, RowInv, NEW t \in Tx, NEW b \in BucketId, LockBucket(t, b)
  PROVE  RowInv'
<1>1. /\ b \in tx[t].todo /\ bucketLock[b] = Nobody
      /\ bucketLock' = [bucketLock EXCEPT ![b] = t]
      /\ tx' = [tx EXCEPT ![t].todo = @ \ {b}, ![t].row[b] = Base(t)[b]]
      /\ UNCHANGED <<vars, accountLock, holdLock>>
  BY DEF LockBucket
<1>2. /\ tx[t] \in Transaction /\ bucketLock \in [BucketId -> Tx \cup {Nobody}]
      /\ tx \in [Tx -> Transaction] /\ Reads(t) /\ Selects(t) /\ Ends(t)
  BY DEF RowInv, RowTypes
<1> DEFINE work == [tx[t] EXCEPT !.todo = @ \ {b}, !.row[b] = Base(t)[b]]
<1>3. Base(t) \in Buckets /\ Base(t)[b] \in Bucket
  BY BaseSound DEF Buckets
<1>4. /\ work \in Transaction /\ work.todo = tx[t].todo \ {b}
      /\ work.row = [tx[t].row EXCEPT ![b] = Base(t)[b]]
      /\ work.op = tx[t].op /\ work.id = tx[t].id /\ work.verified = tx[t].verified
      /\ work.amount = tx[t].amount /\ work.C = tx[t].C /\ work.R = tx[t].R /\ work.D = tx[t].D
      /\ work.holds = tx[t].holds /\ work.expired = tx[t].expired
  BY <1>2, <1>3 DEF Transaction, Buckets
<1>5. tx' = [tx EXCEPT ![t] = work]
  BY <1>1, <1>2
<1> HIDE DEF work
<1>6. tx'[t] = work /\ \A s \in Tx \ {t} : tx'[s] = tx[s]
  BY <1>2, <1>5
<1>7. RowTypes'
  BY <1>1, <1>2, <1>4, <1>5 DEF RowInv, RowTypes
<1>8. /\ Locked(t)' = Locked(t) \cup {b}
      /\ \A s \in Tx \ {t} : Locked(s)' = Locked(s)
      /\ \A s : HeldBy(s)' = HeldBy(s)
  BY <1>1, <1>2, RowsAssumption DEF Locked, HeldBy
<1>9. Base(t)' = Base(t)
  BY <1>1, <1>4, <1>6 DEF Base, WithTrial, Grant, vars
<1>10. Known(t)' = Known(t)
  BY <1>1, <1>4, <1>6, <1>8 DEF Known
<1>11. UNCHANGED vars /\ accountLock' = accountLock
  BY <1>1
<1>12. Reads(t)'
  <2>1. Only(Base(t), Locked(t))' = [c \in BucketId |-> IF c \in Locked(t) \cup {b} THEN Base(t)[c] ELSE NoBucket]
    BY <1>8, <1>9 DEF Only
  <2>2. tx[t].row = [c \in BucketId |-> IF c \in Locked(t) THEN Base(t)[c] ELSE NoBucket]
    BY <1>2 DEF Reads, Only
  <2>3. work.row = Only(Base(t), Locked(t))'
    BY <1>4, <2>1, <2>2
  <2>4. \A c \in Known(t)' : Base(t)'[c].granted # 0
    BY <1>2, <1>9, <1>10 DEF Reads
  <2>5. work.op # "idle"
    BY <1>1, <1>2, <1>4, NoTransaction DEF Reads
  <2> QED
    BY <1>2, <1>4, <1>6, <1>11, <2>3, <2>4, <2>5 DEF Reads, InAccount
<1>13. Selects(t)'
  <2>1. /\ Expirable(Base(t))' = Expirable(Base(t)) /\ Stock(Base(t))' = Stock(Base(t))
        /\ Stock(bucket)' = Stock(bucket) /\ Refilled' = Refilled
        /\ hold' = hold /\ account' = account /\ ledger' = ledger
    BY <1>9, <1>11 DEF Expirable, Stock, Refilled, vars
  <2> QED
    BY <1>2, <1>4, <1>6, <1>8, <1>10, <2>1 DEF Selects
<1>14. Ends(t)'
  <2>1. hold' = hold /\ now' = now
    BY <1>11 DEF vars
  <2>2. HeldBy(t)' = HeldBy(t) /\ Locked(t) \subseteq Locked(t)'
    BY <1>8
  <2>3. CASE tx[t].op = "settle"
    BY <1>2, <1>4, <1>6, <1>10, <2>1, <2>2, <2>3
       DEF Ends, BucketsOf, Overdue, Reserved, WithStatus
  <2>4. CASE tx[t].op # "settle"
    BY <1>2, <1>4, <1>6, <1>10, <2>1, <2>2, <2>4
       DEF Ends, BucketsOf, OpenHolds, Reserved, WithStatus
  <2> QED
    BY <2>3, <2>4
<1> QED
  BY <1>6, <1>7, <1>8, <1>11, <1>12, <1>13, <1>14, QuietInv DEF Own

LEMMA SelectSpendableInv ==
  ASSUME IInv, Funded, RowInv, NEW t \in Tx, SelectSpendable(t)
  PROVE  RowInv'
<1>1. /\ tx[t].op = "reserve" /\ tx[t].todo = {}
      /\ tx' = [tx EXCEPT ![t].op = "spend", ![t].expired = Locked(t),
                          ![t].todo = Stock(Base(t)) \ Locked(t)]
      /\ UNCHANGED <<vars, locks>>
  BY DEF SelectSpendable
<1>2. /\ tx[t] \in Transaction /\ bucketLock \in [BucketId -> Tx \cup {Nobody}]
      /\ tx \in [Tx -> Transaction] /\ Reads(t) /\ Selects(t) /\ Ends(t)
  BY DEF RowInv, RowTypes
<1> DEFINE work == [tx[t] EXCEPT !.op = "spend", !.expired = Locked(t),
                                 !.todo = Stock(Base(t)) \ Locked(t)]
<1>3. Locked(t) \subseteq BucketId /\ Stock(Base(t)) \subseteq BucketId
  BY DEF Locked, Stock
<1>4. /\ work \in Transaction /\ work.todo = Stock(Base(t)) \ Locked(t)
      /\ work.row = tx[t].row /\ work.expired = Locked(t)
      /\ work.op = "spend" /\ work.id = tx[t].id /\ work.verified = tx[t].verified
      /\ work.holds = tx[t].holds
  BY <1>2, <1>3 DEF Transaction, Op
<1>5. tx' = [tx EXCEPT ![t] = work]
  BY <1>1, <1>2
<1> HIDE DEF work
<1>6. tx'[t] = work /\ \A s \in Tx \ {t} : tx'[s] = tx[s]
  BY <1>2, <1>5
<1>7. UNCHANGED vars /\ accountLock' = accountLock /\ bucketLock' = bucketLock /\ holdLock' = holdLock
  BY <1>1 DEF locks
<1>8. RowTypes'
  BY <1>2, <1>4, <1>5, <1>7 DEF RowInv, RowTypes
<1>9. \A s : Locked(s)' = Locked(s) /\ HeldBy(s)' = HeldBy(s)
  BY <1>7 DEF Locked, HeldBy
<1>10. Base(t)' = Base(t)
  BY <1>4, <1>6, <1>7 DEF Base, WithTrial, Grant, vars
<1>11. Known(t) = Locked(t) /\ Known(t)' = Stock(Base(t)) \cup Locked(t)
  BY <1>1, <1>4, <1>6, <1>9 DEF Known
<1>12. \A c \in Stock(Base(t)) : Base(t)[c].granted # 0
  BY BaseSound, StockIsGranted DEF IInv
<1>13. Reads(t)'
  <2>1. Only(Base(t), Locked(t))' = Only(Base(t), Locked(t))
    BY <1>9, <1>10 DEF Only
  <2> QED
    BY <1>1, <1>2, <1>4, <1>6, <1>7, <1>10, <1>11, <1>12, <2>1 DEF Reads, InAccount
<1>14. Selects(t)'
  <2>1. /\ Expirable(Base(t))' = Expirable(Base(t)) /\ Stock(Base(t))' = Stock(Base(t))
        /\ Refilled' = Refilled /\ hold' = hold /\ account' = account
    BY <1>7, <1>10 DEF Expirable, Stock, Refilled, vars
  <2> QED
    BY <1>1, <1>2, <1>4, <1>6, <1>9, <1>11, <2>1 DEF Selects
<1>15. Ends(t)'
  <2>1. hold' = hold
    BY <1>7 DEF vars
  <2> QED
    BY <1>2, <1>4, <1>6, <1>9, <2>1 DEF Ends
<1> QED
  BY <1>6, <1>7, <1>8, <1>9, <1>13, <1>14, <1>15, QuietInv DEF Own

LEMMA SelectOpenHoldsInv ==
  ASSUME IInv, Funded, RowInv, NEW t \in Tx, SelectOpenHolds(t)
  PROVE  RowInv'
<1>1. /\ tx[t].op = "reverse" /\ accountLock = Nobody /\ accountLock' = t
      /\ tx' = [tx EXCEPT ![t].op = "free", ![t].holds = OpenHolds(PaymentBucket(tx[t].id))]
      /\ UNCHANGED <<vars, bucketLock, holdLock>>
  BY DEF SelectOpenHolds
<1>2. /\ tx[t] \in Transaction /\ bucketLock \in [BucketId -> Tx \cup {Nobody}]
      /\ tx \in [Tx -> Transaction] /\ Reads(t) /\ Selects(t) /\ Ends(t)
  BY DEF RowInv, RowTypes
<1> DEFINE open == OpenHolds(PaymentBucket(tx[t].id))
           work == [tx[t] EXCEPT !.op = "free", !.holds = open]
<1>3. open \subseteq Reference
  BY DEF OpenHolds, Reserved, WithStatus
<1>4. open = OpenHolds(PaymentBucket(tx[t].id))
  OBVIOUS
<1> HIDE DEF open
<1>5. /\ work \in Transaction /\ work.op = "free" /\ work.holds = open
      /\ work.todo = tx[t].todo /\ work.row = tx[t].row /\ work.id = tx[t].id
      /\ work.amount = tx[t].amount /\ work.R = tx[t].R /\ work.verified = tx[t].verified
  BY <1>2, <1>3 DEF Transaction, Op
<1>6. tx' = [tx EXCEPT ![t] = work]
  BY <1>1, <1>2, <1>4
<1> HIDE DEF work
<1>7. tx'[t] = work /\ \A s \in Tx \ {t} : tx'[s] = tx[s]
  BY <1>2, <1>6
<1>8. RowTypes'
  BY <1>1, <1>2, <1>5, <1>6 DEF RowInv, RowTypes
<1>9. /\ \A s : Locked(s)' = Locked(s) /\ HeldBy(s)' = HeldBy(s)
      /\ \A s \in Tx \ {t} : accountLock' = s <=> accountLock = s
  BY <1>1, RowsAssumption DEF Locked, HeldBy
<1>10. Base(t)' = Base(t) /\ hold' = hold
  BY <1>1, <1>5, <1>7 DEF Base, WithTrial, Grant, vars
<1>11. Known(t)' = Known(t)
  BY <1>5, <1>7, <1>9 DEF Known
<1>12. Reads(t)'
  <2>1. Only(Base(t), Locked(t))' = Only(Base(t), Locked(t))
    BY <1>9, <1>10 DEF Only
  <2> QED
    BY <1>1, <1>2, <1>5, <1>7, <1>10, <1>11, <2>1 DEF Reads, InAccount
<1>13. Selects(t)'
  BY <1>5, <1>7 DEF Selects
<1>14. Ends(t)'
  <2>1. OpenHolds(PaymentBucket(tx[t].id))' = open
    <3>1. tx'[t].id = tx[t].id
      BY <1>5, <1>7
    <3> QED
      BY <1>4, <1>10, <3>1 DEF OpenHolds, Reserved, WithStatus, PaymentBucket
  <2>2. \A r \in open : hold[r].status # "none" /\ hold[r].allocated[PaymentBucket(tx[t].id)] > 0
    BY <1>4 DEF OpenHolds, Reserved, WithStatus
  <2>3. /\ tx[t].id \in Period /\ tx[t].amount \in 1 .. PeriodPrice[tx[t].id]
        /\ PaymentBucket(tx[t].id) \in Locked(t) /\ tx[t].R = {}
        /\ \A r \in HeldBy(t) : hold[r].status # "none"
    BY <1>1, <1>2 DEF Ends
  <2>4. BucketsOf(tx[t].R)' = {}
    BY <1>5, <1>7, <2>3 DEF BucketsOf
  <2> QED
    BY <1>5, <1>7, <1>9, <1>10, <2>1, <2>2, <2>3, <2>4 DEF Ends, PaymentBucket
<1> QED
  BY <1>1, <1>7, <1>8, <1>9, <1>12, <1>13, <1>14, QuietInv DEF Own

LEMMA LockHoldInv ==
  ASSUME IInv, Funded, RowInv, NEW t \in Tx, NEW r \in Reference, LockHold(t, r)
  PROVE  RowInv'
<1>1. /\ r \in tx[t].holds /\ holdLock[r] = Nobody
      /\ holdLock' = [holdLock EXCEPT ![r] = t]
      /\ UNCHANGED <<vars, accountLock, bucketLock>>
  BY DEF LockHold
<1>2. /\ tx[t] \in Transaction /\ holdLock \in [Reference -> Tx \cup {Nobody}]
      /\ tx \in [Tx -> Transaction] /\ Reads(t) /\ Selects(t) /\ Ends(t)
  BY DEF RowInv, RowTypes
<1>3. tx[t].op = "free"
  BY <1>1, <1>2 DEF Reads
<1> DEFINE b == PaymentBucket(tx[t].id)
           is == hold[r].status = "reserved"
           R2 == IF is THEN tx[t].R \cup {r} ELSE tx[t].R
           todo2 == IF is THEN (tx[t].todo \cup BucketsOf({r})) \ Locked(t) ELSE tx[t].todo
           work == [tx[t] EXCEPT !.holds = @ \ {r}, !.R = R2, !.todo = todo2]
<1>4. /\ R2 \subseteq Reference /\ todo2 \subseteq BucketId
  BY <1>2 DEF Transaction, BucketsOf
<1>5. tx' = [tx EXCEPT ![t] = work]
  <2>1. CASE is
    BY <1>2, <2>1 DEF LockHold
  <2>2. CASE ~ is
    <3>1. tx' = [tx EXCEPT ![t].holds = @ \ {r}]
      BY <2>2 DEF LockHold
    <3>2. work = [tx[t] EXCEPT !.holds = @ \ {r}]
      BY <1>2, <2>2 DEF Transaction
    <3> QED
      BY <1>2, <3>1, <3>2
  <2> QED
    BY <2>1, <2>2
<1>6. /\ R2 = IF is THEN tx[t].R \cup {r} ELSE tx[t].R
      /\ todo2 = IF is THEN (tx[t].todo \cup BucketsOf({r})) \ Locked(t) ELSE tx[t].todo
  OBVIOUS
<1> HIDE DEF R2, todo2
<1>7. /\ work \in Transaction /\ work.op = "free" /\ work.holds = tx[t].holds \ {r}
      /\ work.todo = todo2 /\ work.R = R2 /\ work.row = tx[t].row /\ work.id = tx[t].id
      /\ work.amount = tx[t].amount /\ work.verified = tx[t].verified
  BY <1>2, <1>3, <1>4 DEF Transaction, Op
<1> HIDE DEF work
<1>8. tx'[t] = work /\ \A s \in Tx \ {t} : tx'[s] = tx[s]
  BY <1>2, <1>5
<1>9. RowTypes'
  BY <1>1, <1>2, <1>5, <1>7 DEF RowInv, RowTypes
<1>10. /\ \A s : Locked(s)' = Locked(s)
       /\ HeldBy(t)' = HeldBy(t) \cup {r}
       /\ \A s \in Tx \ {t} : HeldBy(s)' = HeldBy(s)
  BY <1>1, <1>2, RowsAssumption DEF Locked, HeldBy
<1>11. Base(t)' = Base(t) /\ hold' = hold /\ accountLock' = accountLock /\ UNCHANGED vars
  BY <1>1, <1>7, <1>8 DEF Base, WithTrial, Grant, vars
<1>12. /\ R2 \subseteq tx[t].R \cup {r} /\ tx[t].R \subseteq R2
       /\ is => r \in R2
       /\ ~ is => R2 = tx[t].R
       /\ Known(t) \subseteq Known(t)'
       /\ Known(t)' \subseteq Known(t) \cup (IF is THEN BucketsOf({r}) ELSE {})
       /\ is => BucketsOf({r}) \subseteq Known(t)'
  BY <1>6, <1>7, <1>8, <1>10 DEF Known
<1>13. tx[t].id \in Period /\ ~ tx[t].verified
  BY <1>2, <1>3 DEF Ends, Reads
<1>14. Base(t) = bucket
  BY <1>13 DEF Base, WithTrial
<1>15. Reads(t)'
  <2>1. Only(Base(t), Locked(t))' = Only(Base(t), Locked(t))
    BY <1>10, <1>11 DEF Only
  <2>2. is => \A c \in BucketsOf({r}) : bucket[c].granted # 0
    BY HeldIsGranted DEF BucketsOf
  <2>3. \A c \in Known(t)' : Base(t)'[c].granted # 0
    BY <1>2, <1>11, <1>12, <1>14, <2>2 DEF Reads
  <2> QED
    BY <1>2, <1>3, <1>7, <1>8, <1>11, <1>13, <2>1, <2>3 DEF Reads, InAccount
<1>16. Selects(t)'
  BY <1>7, <1>8 DEF Selects
<1>17. Ends(t)'
  <2>1. /\ tx[t].R \subseteq HeldBy(t) \cap OpenHolds(b)
        /\ BucketsOf(tx[t].R) \subseteq Known(t)
        /\ OpenHolds(b) \subseteq tx[t].holds \cup tx[t].R
        /\ \A q \in tx[t].holds : hold[q].status # "none" /\ hold[q].allocated[b] > 0
        /\ tx[t].id \in Period /\ tx[t].amount \in 1 .. PeriodPrice[tx[t].id]
        /\ b \in Locked(t)
        /\ \A q \in HeldBy(t) : hold[q].status # "none"
    BY <1>2, <1>3 DEF Ends
  <2>2. is <=> r \in OpenHolds(b)
    BY <1>1, <2>1 DEF OpenHolds, Reserved, WithStatus
  <2>3. BucketsOf(R2) \subseteq Known(t)'
    BY <1>12, <2>1 DEF BucketsOf
  <2>4. R2 \subseteq HeldBy(t)' \cap OpenHolds(b)
    BY <1>10, <1>12, <2>1, <2>2
  <2>5. OpenHolds(b) \subseteq (tx[t].holds \ {r}) \cup R2
    BY <1>12, <2>1, <2>2
  <2>6. BucketsOf(tx[t].R)' = BucketsOf(R2)
    BY <1>7, <1>8, <1>11 DEF BucketsOf
  <2>7. PaymentBucket(tx[t].id)' = b
    BY <1>7, <1>8 DEF PaymentBucket
  <2>8. OpenHolds(PaymentBucket(tx[t].id))' = OpenHolds(b)
    BY <1>11, <2>7 DEF OpenHolds, Reserved, WithStatus
  <2>9. \A q \in HeldBy(t)' : hold'[q].status # "none"
    BY <1>1, <1>10, <1>11, <2>1
  <2>10. \A q \in tx'[t].holds : hold'[q].status # "none" /\ hold'[q].allocated[b] > 0
    BY <1>7, <1>8, <1>11, <2>1
  <2> QED
    BY <1>7, <1>8, <1>10, <2>1, <2>3, <2>4, <2>5, <2>6, <2>7, <2>8, <2>9, <2>10 DEF Ends
<1> QED
  BY <1>8, <1>9, <1>10, <1>11, <1>15, <1>16, <1>17, QuietInv DEF Own

-----------------------------------------------------------------------------
(* The end of a transaction.                                               *)

LEMMA EndKeeps ==
  ASSUME RowInv, NEW t \in Tx, End(t)
  PROVE  /\ RowTypes'
         /\ tx'[t] = NoTx /\ accountLock' # t /\ Locked(t)' = {} /\ HeldBy(t)' = {}
         /\ \A s \in Tx \ {t} : /\ tx'[s] = tx[s] /\ Locked(s)' = Locked(s)
                                /\ HeldBy(s)' = HeldBy(s)
                                /\ accountLock' = s <=> accountLock = s
<1>1. /\ accountLock' = IF accountLock = t THEN Nobody ELSE accountLock
      /\ bucketLock' = [b \in BucketId |-> IF bucketLock[b] = t THEN Nobody ELSE bucketLock[b]]
      /\ holdLock' = [r \in Reference |-> IF holdLock[r] = t THEN Nobody ELSE holdLock[r]]
      /\ tx' = [tx EXCEPT ![t] = NoTx]
  BY DEF End
<1>2. RowTypes'
  BY <1>1, NoTransaction DEF RowInv, RowTypes
<1>3. Locked(t)' = {} /\ HeldBy(t)' = {} /\ accountLock' # t
  BY <1>1, RowsAssumption DEF Locked, HeldBy
<1>4. \A s \in Tx \ {t} : /\ Locked(s)' = Locked(s) /\ HeldBy(s)' = HeldBy(s)
                          /\ accountLock' = s <=> accountLock = s
  BY <1>1, RowsAssumption DEF Locked, HeldBy
<1>5. tx'[t] = NoTx /\ \A s \in Tx \ {t} : tx'[s] = tx[s]
  BY <1>1 DEF RowInv, RowTypes
<1> QED
  BY <1>2, <1>3, <1>4, <1>5

\* A transaction that has ended knows nothing.
LEMMA EndOwn ==
  ASSUME RowInv, NEW t \in Tx, End(t)
  PROVE  Own(t)'
<1>1. tx'[t] = NoTx /\ accountLock' # t /\ Locked(t)' = {} /\ HeldBy(t)' = {}
  BY EndKeeps
<1>2. NoTx' = NoTx
  BY DEF NoTx
<1>3. Known(t)' = {}
  BY <1>1, NoTransaction DEF Known
<1>4. Only(Base(t), Locked(t))' = [b \in BucketId |-> NoBucket]
  BY <1>1 DEF Only
<1>5. Reads(t)'
  BY <1>1, <1>2, <1>3, <1>4, NoTransaction DEF Reads, InAccount
<1>6. Selects(t)'
  BY <1>1, NoTransaction DEF Selects
<1>7. Ends(t)'
  BY <1>1, NoTransaction DEF Ends
<1> QED
  BY <1>5, <1>6, <1>7 DEF Own

LEMMA AbortInv ==
  ASSUME IInv, Funded, RowInv, NEW t \in Tx, Abort(t)
  PROVE  RowInv'
BY EndKeeps, EndOwn, QuietInv DEF Abort

LEMMA CommitInv ==
  ASSUME IInv, IInv', Funded, RowInv, NEW t \in Tx, End(t),
         \A s \in Tx \ {t} : Undisturbed(s)
  PROVE  RowInv'
BY EndKeeps, EndOwn, OwnStable DEF RowInv, Own

-----------------------------------------------------------------------------
(* What a commit does.  The rows that a transaction has not locked are as   *)
(* they would be if it had: nothing of them is held by what it settles, or  *)
(* they have nothing to spend.                                              *)

LEMMA LockedRows ==
  ASSUME NEW t \in Tx, Reads(t)
  PROVE  \A b \in BucketId : tx[t].row[b] = IF b \in Locked(t) THEN Base(t)[b] ELSE NoBucket
BY DEF Reads, Only

LEMMA NothingHeldElsewhere ==
  ASSUME hold \in Holds, NEW H \in SUBSET Reference, NEW S \in SUBSET H,
         NEW b \in BucketId, b \notin BucketsOf(H)
  PROVE  Allocated(hold, S, b) = 0
<1> DEFINE f == [r \in Reference |-> hold[r].allocated[b]]
<1>1. \A r \in S : f[r] \in Int /\ f[r] <= 0
  <2> SUFFICES ASSUME NEW r \in S PROVE hold[r].allocated[b] \in Int /\ hold[r].allocated[b] <= 0
    OBVIOUS
  <2>1. hold[r].allocated[b] \in Nat
    BY ConstantsAssumption DEF Holds, Hold, Allocation, Credits
  <2>2. ~ (hold[r].allocated[b] > 0)
    BY DEF BucketsOf
  <2> QED
    BY <2>1, <2>2
<1> HIDE DEF f
<1>2. Total(f, S) = 0
  BY <1>1, TotalOfNothing
<1> QED
  BY <1>2 DEF Allocated, f

LEMMA SettleOfLocked ==
  ASSUME IInv, NEW t \in Tx, Reads(t), Base(t) = bucket,
         NEW C \in SUBSET Reference, NEW R \in SUBSET Reference, BucketsOf(C \cup R) \subseteq Locked(t)
  PROVE  /\ \A b \in Locked(t) : Settle(tx[t].row, C, R)[b] = Settle(bucket, C, R)[b]
         /\ \A b \in BucketId \ Locked(t) :
              /\ Settle(bucket, C, R)[b] = bucket[b]
              /\ Allocated(hold, C, b) = 0
<1>1. ASSUME NEW b \in Locked(t)
      PROVE  Settle(tx[t].row, C, R)[b] = Settle(bucket, C, R)[b]
  <2>1. b \in BucketId /\ tx[t].row[b] = bucket[b]
    BY LockedRows DEF Locked
  <2> QED
    BY <2>1 DEF Settle
<1>2. ASSUME NEW b \in BucketId \ Locked(t)
      PROVE  Settle(bucket, C, R)[b] = bucket[b] /\ Allocated(hold, C, b) = 0
  <2>1. /\ Allocated(hold, C \cup R, b) = 0 /\ Allocated(hold, R, b) = 0
        /\ Allocated(hold, C, b) = 0
    <3>1. /\ C \cup R \in SUBSET Reference /\ C \in SUBSET (C \cup R) /\ R \in SUBSET (C \cup R)
          /\ C \cup R \in SUBSET (C \cup R) /\ b \notin BucketsOf(C \cup R) /\ hold \in Holds
      BY DEF IInv
    <3> QED
      BY <3>1, NothingHeldElsewhere
  <2>2. bucket[b] \in Bucket
    BY DEF IInv, Buckets
  <2>3. Settle(bucket, C, R)[b] = [bucket[b] EXCEPT !.reserved = @ - 0, !.available = @ + 0]
    BY <2>1 DEF Settle
  <2>4. bucket[b].reserved - 0 = bucket[b].reserved /\ bucket[b].available + 0 = bucket[b].available
    BY <2>2 DEF Bucket
  <2>5. Settle(bucket, C, R)[b]
          = [bucket[b] EXCEPT !.reserved = bucket[b].reserved, !.available = bucket[b].available]
    BY <2>3, <2>4
  <2>6. Settle(bucket, C, R)[b] = bucket[b]
    BY <2>2, <2>5 DEF Bucket
  <2> QED
    BY <2>1, <2>6
<1> QED
  BY <1>1, <1>2

LedgerIsFunction == ledger = [k \in DOMAIN ledger |-> ledger[k]]

LEMMA CommitSettleIs ==
  ASSUME IInv, LedgerIsFunction, RowInv, NEW t \in Tx, CommitSettle(t)
  PROVE  Next
<1> DEFINE C == tx[t].C
           R == tx[t].R
           D == tx[t].D
<1>1. /\ tx[t].op = "settle" /\ tx[t].todo = {}
      /\ \A b \in Locked(t) : tx[t].row[b].reserved >= Allocated(hold, C, b)
      /\ bucket' = Written(t, Settle(tx[t].row, C, R))
      /\ hold' = Reconciled(C, R, D)
      /\ ledger' = Post(ledger, ChargeEntries(C))
      /\ UNCHANGED <<now, account, reversal, review>>
  BY DEF CommitSettle
<1>2. /\ Reads(t) /\ Ends(t) /\ tx[t] \in Transaction
  BY DEF RowInv, RowTypes
<1>3. accountLock # t /\ Base(t) = bucket
  <2>1. accountLock # t
    BY <1>1, <1>2 DEF Reads, InAccount
  <2> QED
    BY <1>2, <2>1, BaseOutside
<1>4. /\ C \cup R \cup D \subseteq HeldBy(t) \cap Reserved(hold)
      /\ C \cap R = {} /\ (C \cup R) \cap D = {}
      /\ BucketsOf(C \cup R) \subseteq Locked(t)
      /\ \/ C \cup R \cup D \subseteq Overdue
         \/ \E r \in Reference : C = {r} /\ R = {} /\ D = {}
         \/ \E r \in Reference : C = {} /\ R = {r} /\ D = {}
  BY <1>1, <1>2 DEF Ends, Known
<1>5. C \in SUBSET Reference /\ R \in SUBSET Reference
  BY <1>2 DEF Transaction
<1> HIDE DEF C, R, D
<1>6. /\ \A b \in Locked(t) : Settle(tx[t].row, C, R)[b] = Settle(bucket, C, R)[b]
      /\ \A b \in BucketId \ Locked(t) :
           Settle(bucket, C, R)[b] = bucket[b] /\ Allocated(hold, C, b) = 0
  BY <1>2, <1>3, <1>4, <1>5, SettleOfLocked
<1>7. bucket' = Settle(bucket, C, R)
  <2>1. Settle(bucket, C, R) = [b \in BucketId |-> Settle(bucket, C, R)[b]]
    BY DEF Settle
  <2>2. Written(t, Settle(tx[t].row, C, R)) = [b \in BucketId |-> Settle(bucket, C, R)[b]]
    BY <1>3, <1>6 DEF Written
  <2> QED
    BY <1>1, <2>1, <2>2
<1>8. Capturable(C)
  <2> SUFFICES ASSUME NEW b \in BucketId PROVE bucket[b].reserved >= Allocated(hold, C, b)
    BY DEF Capturable
  <2>1. CASE b \in Locked(t)
    <3>1. tx[t].row[b] = bucket[b]
      BY <1>2, <1>3, <2>1, LockedRows
    <3> QED
      BY <1>1, <2>1, <3>1
  <2>2. CASE b \notin Locked(t)
    <3>1. bucket[b].reserved \in Nat
      BY DEF IInv, Buckets, Bucket
    <3> QED
      BY <1>6, <2>2, <3>1
  <2> QED
    BY <2>1, <2>2
<1>9. CASE C \cup R \cup D \subseteq Overdue
  <2>1. ReconcileExpiredReservations(C, R, D)
    BY <1>1, <1>7, <1>8 DEF ReconcileExpiredReservations
  <2>2. C \in SUBSET Overdue /\ R \in SUBSET (Overdue \ C) /\ D \in SUBSET (Overdue \ (C \cup R))
    BY <1>4, <1>9
  <2> QED
    BY <2>1, <2>2 DEF Next
<1>10. D = {} => hold' = Settled(C, R)
  BY <1>1 DEF Reconciled, Settled
<1>11. ASSUME NEW r \in Reference, C = {r}, R = {}, D = {} PROVE Next
  <2>1. hold[r].status = "reserved"
    BY <1>4, <1>11 DEF Reserved, WithStatus
  <2>2. Capture(r)
    BY <1>1, <1>7, <1>8, <1>10, <1>11, <2>1 DEF Capture
  <2> QED
    BY <2>2 DEF Next
<1>12. ASSUME NEW r \in Reference, C = {}, R = {r}, D = {} PROVE Next
  <2>1. hold[r].status = "reserved"
    BY <1>4, <1>12 DEF Reserved, WithStatus
  <2>2. DOMAIN ChargeEntries({}) = {}
    BY DEF ChargeEntries
  <2>3. Post(ledger, ChargeEntries({})) = [k \in DOMAIN ledger |-> ledger[k]]
    BY <2>2 DEF Post
  <2>4. ledger' = ledger
    BY <1>1, <1>12, <2>3 DEF LedgerIsFunction
  <2>5. Release(r)
    BY <1>1, <1>7, <1>10, <1>12, <2>1, <2>4 DEF Release
  <2> QED
    BY <2>5 DEF Next
<1> QED
  BY <1>4, <1>9, <1>11, <1>12

LEMMA CommitRefundIs ==
  ASSUME IInv, RowInv, NEW t \in Tx, CommitRefund(t)
  PROVE  tx[t].id \in Reference /\ Refund(tx[t].id)
<1> DEFINE r == tx[t].id
           lapsed == {b \in Locked(t) : tx[t].row[b].expires <= now}
           returned == [b \in BucketId |->
                          IF b \in lapsed THEN tx[t].row[b]
                          ELSE [tx[t].row[b] EXCEPT !.available = @ + hold[r].allocated[b]]]
           rest == Total(hold[r].allocated, lapsed)
<1>1. /\ tx[t].op = "refund" /\ tx[t].todo = {}
      /\ bucket' = IF rest = 0 THEN Written(t, returned)
                   ELSE Grant(Written(t, returned), RefundBucket(r), rest, Never)
      /\ hold' = [hold EXCEPT ![r].status = "refunded"]
      /\ ledger' = Post(ledger, Entry(<<"REFUND", r>>, Cost[r]))
      /\ UNCHANGED <<now, account, reversal, review>>
  BY DEF CommitRefund
<1>2. Reads(t) /\ Ends(t) /\ tx[t] \in Transaction
  BY DEF RowInv, RowTypes
<1>3. Base(t) = bucket
  BY <1>1, <1>2 DEF Reads, Base, WithTrial
<1>4. /\ r \in HeldBy(t) /\ hold[r].status = "captured"
      /\ BucketsOf({r}) \subseteq Locked(t)
  BY <1>1, <1>2 DEF Ends, Known
<1>5. r \in Reference
  BY <1>4 DEF HeldBy
<1>6. \A b \in BucketId \ Locked(t) : hold[r].allocated[b] = 0
  <2>1. \A b \in BucketId : hold[r].allocated[b] \in Nat
    BY <1>5, ConstantsAssumption DEF IInv, Holds, Hold, Allocation, Credits
  <2> QED
    BY <1>4, <2>1 DEF BucketsOf
<1>7. \A b \in Locked(t) : b \in BucketId /\ tx[t].row[b] = bucket[b]
  BY <1>2, <1>3, LockedRows DEF Locked
<1>8. lapsed = {b \in Lapsed : b \in Locked(t)}
  BY <1>7 DEF Lapsed
<1>9. rest = Total(hold[r].allocated, Lapsed)
  <2>1. \A u : u \in CreditsOf(hold[r].allocated, Lapsed) <=> u \in CreditsOf(hold[r].allocated, lapsed)
    <3> SUFFICES ASSUME NEW u, u \in CreditsOf(hold[r].allocated, Lapsed)
                 PROVE  u \in CreditsOf(hold[r].allocated, lapsed)
      BY <1>8 DEF CreditsOf
    <3>1. /\ u \in Lapsed \X (1 .. MaxCredit) /\ u[2] <= hold[r].allocated[u[1]]
      BY DEF CreditsOf
    <3>2. u[1] \in Lapsed /\ u[2] \in 1 .. MaxCredit
      BY <3>1
    <3>3. u[1] \in Locked(t)
      <4> SUFFICES ASSUME u[1] \notin Locked(t) PROVE FALSE
        OBVIOUS
      <4>1. hold[r].allocated[u[1]] = 0
        BY <1>6, <3>2 DEF Lapsed
      <4> QED
        BY <3>1, <3>2, <4>1, ConstantsAssumption
    <3>4. u \in lapsed \X (1 .. MaxCredit)
      <4> HIDE DEF lapsed
      <4>1. u[1] \in lapsed
        BY <1>8, <3>2, <3>3
      <4> QED
        BY <3>1, <3>2, <4>1
    <3> QED
      BY <3>1, <3>4 DEF CreditsOf
  <2>2. CreditsOf(hold[r].allocated, Lapsed) = CreditsOf(hold[r].allocated, lapsed)
    BY <2>1 DEF CreditsOf
  <2> QED
    BY <2>2 DEF Total
<1>10. Written(t, returned) = Returned(r)
  <2> SUFFICES ASSUME NEW b \in BucketId
               PROVE  (IF b \in Locked(t) THEN returned[b] ELSE bucket[b]) = Returned(r)[b]
    BY <1>3 DEF Written, Returned
  <2>1. CASE b \in Locked(t)
    <3>1. tx[t].row[b] = bucket[b] /\ (b \in lapsed <=> b \in Lapsed)
      BY <1>7, <1>8, <2>1
    <3> QED
      BY <2>1, <3>1 DEF Returned
  <2>2. CASE b \notin Locked(t)
    <3>1. hold[r].allocated[b] = 0 /\ bucket[b] \in Bucket
      BY <1>6, <2>2 DEF IInv, Buckets
    <3>2. Returned(r)[b] = IF b \in Lapsed THEN bucket[b] ELSE [bucket[b] EXCEPT !.available = @ + 0]
      BY <3>1 DEF Returned
    <3>3. Returned(r)[b] = bucket[b]
      BY <3>1, <3>2 DEF Bucket
    <3> QED
      BY <2>2, <3>3
  <2> QED
    BY <2>1, <2>2
<1> HIDE DEF lapsed, returned, rest
<1>11. bucket' = IF Total(hold[r].allocated, Lapsed) = 0 THEN Returned(r)
                 ELSE Grant(Returned(r), RefundBucket(r), Total(hold[r].allocated, Lapsed), Never)
  BY <1>1, <1>9, <1>10
<1> QED
  BY <1>1, <1>4, <1>5, <1>11 DEF Refund, Returned, Lapsed

LEMMA CommitReversalIs ==
  ASSUME IInv, RowInv, NEW t \in Tx, CommitReversal(t)
  PROVE  /\ tx[t].id \in Period /\ tx[t].amount \in 1 .. PeriodPrice[tx[t].id]
         /\ PaymentReversed(tx[t].id, tx[t].amount)
         /\ tx[t].R = OpenHolds(PaymentBucket(tx[t].id))
<1> DEFINE p == tx[t].id
           b == PaymentBucket(p)
           R == tx[t].R
<1>1. tx[t].op = "free" /\ tx[t].holds = {} /\ tx[t].todo = {}
  BY DEF CommitReversal
<1>2. Reads(t) /\ Ends(t) /\ tx[t] \in Transaction
  BY DEF RowInv, RowTypes
<1>3. Base(t) = bucket
  BY <1>1, <1>2 DEF Reads, Base, WithTrial
<1>4. /\ p \in Period /\ tx[t].amount \in 1 .. PeriodPrice[p] /\ b \in Locked(t)
      /\ R = OpenHolds(b) /\ BucketsOf(R) \subseteq Locked(t)
  BY <1>1, <1>2 DEF Ends, Known
<1>5. R \in SUBSET Reference /\ {} \in SUBSET Reference /\ {} \cup R = R
  BY <1>2 DEF Transaction
<1>6. b \in BucketId /\ tx[t].row[b] = bucket[b]
  BY <1>2, <1>3, <1>4, LockedRows DEF Locked
<1>7. bucket[b].granted # 0
  BY <1>2, <1>3, <1>4 DEF Reads, Known
<1>8. /\ \A c \in Locked(t) : Settle(tx[t].row, {}, R)[c] = Settle(bucket, {}, R)[c]
      /\ \A c \in BucketId \ Locked(t) : Settle(bucket, {}, R)[c] = bucket[c]
  <2> HIDE DEF R
  <2> QED
    BY <1>2, <1>3, <1>4, <1>5, SettleOfLocked
<1>9. ASSUME NEW unspent
      PROVE  Written(t, [Settle(tx[t].row, {}, R) EXCEPT ![b].available = @ - unspent])
               = [Settle(bucket, {}, R) EXCEPT ![b].available = @ - unspent]
  <2> DEFINE mine == Settle(tx[t].row, {}, R)
             theirs == Settle(bucket, {}, R)
  <2>1. mine = [c \in BucketId |-> mine[c]] /\ theirs = [c \in BucketId |-> theirs[c]]
    BY DEF Settle
  <2>2. /\ \A c \in Locked(t) : mine[c] = theirs[c]
        /\ \A c \in BucketId \ Locked(t) : theirs[c] = bucket[c]
    BY <1>8
  <2> HIDE DEF mine, theirs, b
  <2>3. \A c \in BucketId : [mine EXCEPT ![b].available = @ - unspent][c]
                            = IF c = b THEN [mine[b] EXCEPT !.available = @ - unspent] ELSE mine[c]
    BY <2>1
  <2>4. [theirs EXCEPT ![b].available = @ - unspent]
          = [c \in BucketId |-> IF c = b THEN [theirs[b] EXCEPT !.available = @ - unspent] ELSE theirs[c]]
    BY <2>1
  <2>5. Written(t, [mine EXCEPT ![b].available = @ - unspent])
          = [c \in BucketId |-> IF c \in Locked(t) THEN [mine EXCEPT ![b].available = @ - unspent][c]
                                ELSE bucket[c]]
    BY <1>3 DEF Written
  <2>6. \A c \in BucketId :
          (IF c \in Locked(t) THEN [mine EXCEPT ![b].available = @ - unspent][c] ELSE bucket[c])
            = IF c = b THEN [theirs[b] EXCEPT !.available = @ - unspent] ELSE theirs[c]
    BY <1>4, <2>2, <2>3
  <2> QED
    BY <2>4, <2>5, <2>6 DEF mine, theirs
<1>10. Settle(tx[t].row, {}, R)[b] = Settle(bucket, {}, R)[b]
  BY <1>4, <1>8
<1>11. PaymentReversed(p, tx[t].amount)
  BY <1>4, <1>6, <1>7, <1>9, <1>10 DEF CommitReversal, PaymentReversed
<1> QED
  BY <1>4, <1>11

\* A row with nothing to spend may as well not be there.
LEMMA SpendsAlike ==
  ASSUME NEW x \in Buckets, NEW y \in Buckets, NEW amount \in Nat,
         \A b \in BucketId : x[b] = y[b] \/ (x[b].available = 0 /\ y[b].available = 0)
  PROVE  /\ Spend(x, amount) = Spend(y, amount) /\ Drain(x, amount) = Drain(y, amount)
         /\ Available(x, BucketId) = Available(y, BucketId)
         /\ \A b \in BucketId : x[b].available = 0 =>
              Spend(x, amount)[b] = 0 /\ Drain(x, amount)[b] = 0
<1>1. \A b \in BucketId : x[b].available \in Nat /\ y[b].available \in Nat
                          /\ x[b].available = y[b].available
  BY DEF Buckets, Bucket
<1>2. ASSUME NEW S \in SUBSET BucketId, NEW T \in SUBSET BucketId,
             \A c \in BucketId : x[c] = y[c] => (c \in S <=> c \in T)
      PROVE  Available(x, S) = Available(y, T)
  <2> DEFINE f == [b \in BucketId |-> x[b].available]
             g == [b \in BucketId |-> y[b].available]
  <2>1. ASSUME NEW c \in BucketId, NEW n \in 1 .. MaxCredit
        PROVE  (c \in S /\ n <= f[c]) <=> (c \in T /\ n <= g[c])
    <3>1. CASE x[c] = y[c]
      BY <1>2, <3>1
    <3>2. CASE x[c].available = 0 /\ y[c].available = 0
      <4>1. ~ (n <= 0)
        BY ConstantsAssumption
      <4> QED
        BY <3>2, <4>1
    <3> QED
      BY <3>1, <3>2
  <2> HIDE DEF f, g
  <2>2. CreditsOf(f, S) = CreditsOf(g, T)
    <3>1. \A u \in BucketId \X (1 .. MaxCredit) :
             (u[1] \in S /\ u[2] <= f[u[1]]) <=> (u[1] \in T /\ u[2] <= g[u[1]])
      BY <2>1
    <3>2. CreditsOf(f, S) = {u \in BucketId \X (1 .. MaxCredit) : u[1] \in S /\ u[2] <= f[u[1]]}
      BY DEF CreditsOf
    <3>3. CreditsOf(g, T) = {u \in BucketId \X (1 .. MaxCredit) : u[1] \in T /\ u[2] <= g[u[1]]}
      BY DEF CreditsOf
    <3> QED
      BY <3>1, <3>2, <3>3
  <2>3. Total(f, S) = Total(g, T)
    BY <2>2 DEF Total
  <2> QED
    BY <2>3 DEF Available, f, g
<1>3. ASSUME NEW b \in BucketId, NEW S \in SUBSET BucketId, x[b].available = 0
      PROVE  Take(x, b, S, amount) = 0
  <2>1. Take(x, b, S, amount) \in 0 .. Min2(x[b].available, amount)
    BY TakeBounds DEF Buckets
  <2> QED
    BY <1>3, <2>1 DEF Min2
<1>4. ASSUME NEW b \in BucketId, NEW S \in SUBSET BucketId, y[b].available = 0
      PROVE  Take(y, b, S, amount) = 0
  <2>1. Take(y, b, S, amount) \in 0 .. Min2(y[b].available, amount)
    BY TakeBounds DEF Buckets
  <2> QED
    BY <1>4, <2>1 DEF Min2
<1>5. ASSUME NEW b \in BucketId, NEW S \in SUBSET BucketId, NEW T \in SUBSET BucketId,
             \A c \in BucketId : x[c] = y[c] /\ x[b] = y[b] => (c \in S <=> c \in T)
      PROVE  Take(x, b, S, amount) = Take(y, b, T, amount)
  <2>1. CASE x[b] = y[b]
    <3>1. Available(x, S) = Available(y, T)
      BY <1>2, <1>5, <2>1
    <3> QED
      BY <2>1, <3>1 DEF Take
  <2>2. CASE x[b].available = 0 /\ y[b].available = 0
    BY <1>3, <1>4, <2>2
  <2> QED
    BY <2>1, <2>2
<1>6. ASSUME NEW b \in BucketId
      PROVE  Spend(x, amount)[b] = Spend(y, amount)[b] /\ Drain(x, amount)[b] = Drain(y, amount)[b]
  <2>1. \A c \in BucketId : x[c] = y[c] /\ x[b] = y[b] =>
          /\ SpentBefore(x, c, b) <=> SpentBefore(y, c, b)
          /\ OlderThan(x, c, b) <=> OlderThan(y, c, b)
    BY DEF SpentBefore, OlderThan
  <2> DEFINE S1 == {c \in BucketId : SpentBefore(x, c, b)}
             T1 == {c \in BucketId : SpentBefore(y, c, b)}
             S2 == {c \in BucketId : OlderThan(x, c, b)}
             T2 == {c \in BucketId : OlderThan(y, c, b)}
  <2>2. /\ Spend(x, amount)[b] = Take(x, b, S1, amount) /\ Spend(y, amount)[b] = Take(y, b, T1, amount)
        /\ Drain(x, amount)[b] = Take(x, b, S2, amount) /\ Drain(y, amount)[b] = Take(y, b, T2, amount)
    BY DEF Spend, Drain
  <2>3. \A c \in BucketId : x[c] = y[c] /\ x[b] = y[b] => (c \in S1 <=> c \in T1) /\ (c \in S2 <=> c \in T2)
    BY <2>1
  <2>4. /\ S1 \in SUBSET BucketId /\ T1 \in SUBSET BucketId
        /\ S2 \in SUBSET BucketId /\ T2 \in SUBSET BucketId
    OBVIOUS
  <2> HIDE DEF S1, T1, S2, T2
  <2> QED
    BY <1>5, <2>2, <2>3, <2>4
<1>7. Spend(x, amount) = Spend(y, amount) /\ Drain(x, amount) = Drain(y, amount)
  <2>1. /\ Spend(x, amount) = [b \in BucketId |-> Spend(x, amount)[b]]
        /\ Spend(y, amount) = [b \in BucketId |-> Spend(y, amount)[b]]
        /\ Drain(x, amount) = [b \in BucketId |-> Drain(x, amount)[b]]
        /\ Drain(y, amount) = [b \in BucketId |-> Drain(y, amount)[b]]
    BY DEF Spend, Drain
  <2> QED
    BY <1>6, <2>1
<1>8. Available(x, BucketId) = Available(y, BucketId)
  BY <1>2
<1>9. \A b \in BucketId : x[b].available = 0 =>
        Spend(x, amount)[b] = 0 /\ Drain(x, amount)[b] = 0
  BY <1>3 DEF Spend, Drain
<1> QED
  BY <1>7, <1>8, <1>9

LEMMA CommitCreditAccountIs ==
  ASSUME IInv, Funded, RowInv, NEW t \in Tx, CommitCreditAccount(t)
  PROVE  \E M \in SUBSET Refilled : CreditAccountMissing(tx[t].verified, M)
<1> DEFINE granted == Base(t)
           M == Expirable(granted) \ Locked(t)
           E == Expirable(granted) \ M
<1>1. /\ tx[t].op = "account" /\ tx[t].todo = {}
      /\ bucket' = Written(t, Expired(tx[t].row))
      /\ ledger' = Post(Post(ledger, TrialEntry(tx[t].verified)), ExpireEntries(tx[t].row))
      /\ UNCHANGED <<now, hold, account, reversal, review>>
  BY DEF CommitCreditAccount
<1>2. Reads(t) /\ Selects(t)
  BY DEF RowInv
<1>3. Locked(t) \subseteq Expirable(granted) /\ M \subseteq Refilled
  BY <1>1, <1>2 DEF Selects, Known
<1>4. E = Locked(t)
  BY <1>3
<1>5. tx[t].row = Only(granted, E)
  BY <1>2, <1>4 DEF Reads
<1>6. WithTrial(bucket, tx[t].verified) = granted
  BY DEF Base
<1>7. Written(t, Expired(tx[t].row)) = With(granted, E)
  <2>1. \A b \in Locked(t) : b \in BucketId /\ tx[t].row[b] = granted[b]
    BY <1>2, LockedRows DEF Locked
  <2>2. Locked(t) \subseteq Expirable(tx[t].row)
    BY <1>3, <2>1 DEF Expirable
  <2>3. \A b \in Locked(t) : Expired(tx[t].row)[b] = [granted[b] EXCEPT !.available = 0]
    BY <2>1, <2>2 DEF Expired
  <2> HIDE DEF granted, E
  <2> QED
    BY <1>4, <2>3 DEF Written, With, granted
<1> HIDE DEF granted, E
<1>8. CreditAccountMissing(tx[t].verified, M)
  BY <1>1, <1>5, <1>6, <1>7 DEF CreditAccountMissing, E
<1> QED
  BY <1>3, <1>8

LEMMA CommitReserveIs ==
  ASSUME IInv, Funded, RowInv, NEW t \in Tx, CommitReserve(t)
  PROVE  /\ tx[t].id \in Reference
         /\ \E M \in SUBSET Refilled, N \in SUBSET Refilled :
              ReserveMissing(tx[t].id, tx[t].verified, M, N)
<1> DEFINE r == tx[t].id
           granted == Base(t)
           M == Expirable(granted) \ tx[t].expired
           E == Expirable(granted) \ M
           live == With(granted, E)
           N == Stock(live) \ Locked(t)
           seen == With(live, N)
           mine == With(tx[t].row, tx[t].expired)
           spend == Spend(mine, Cost[r])
<1>1. /\ tx[t].op = "spend" /\ tx[t].todo = {}
      /\ Available(mine, BucketId) >= Cost[r]
      /\ bucket' = Written(t, [b \in BucketId |-> [mine[b] EXCEPT !.available = @ - spend[b],
                                                                  !.reserved = @ + spend[b]]])
      /\ hold' = [hold EXCEPT ![r] = [status |-> "reserved", allocated |-> spend,
                                      expires |-> now + HoldTime]]
      /\ ledger' = Post(Post(ledger, TrialEntry(tx[t].verified)),
                        ExpireEntries(Only(tx[t].row, tx[t].expired)))
      /\ UNCHANGED <<now, account, reversal, review>>
  BY DEF CommitReserve
<1>2. Reads(t) /\ Selects(t) /\ tx[t] \in Transaction
  BY DEF RowInv, RowTypes
<1>3. /\ r \in Reference /\ hold[r].status = "none" /\ account.status = "active"
      /\ tx[t].expired \subseteq Locked(t) \cap Expirable(granted)
      /\ M \subseteq Refilled
      /\ Stock(granted) \ Locked(t) \subseteq Refilled
  BY <1>1, <1>2 DEF Selects, Known
<1>4. E = tx[t].expired /\ E \subseteq Locked(t)
  BY <1>3
<1>5. granted \in Buckets
  BY BaseSound
<1>6. \A b \in BucketId : tx[t].row[b] = IF b \in Locked(t) THEN granted[b] ELSE NoBucket
  BY <1>2, LockedRows
<1>7. granted = WithTrial(bucket, tx[t].verified)
  BY DEF Base
<1>8. tx[t].row \in Buckets
  BY <1>2 DEF Transaction
<1> HIDE DEF granted, M
<1>9. Only(tx[t].row, tx[t].expired) = Only(granted, E)
  BY <1>4, <1>6 DEF Only
<1>10. live \in Buckets /\ mine \in Buckets
  <2> HIDE DEF E
  <2> QED
    BY <1>5, <1>8, CopiesAreBuckets
<1>11. /\ \A b \in Locked(t) : mine[b] = live[b]
       /\ \A b \in BucketId \ Locked(t) : mine[b] = NoBucket /\ live[b] = granted[b]
  <2>1. Locked(t) \subseteq BucketId
    BY DEF Locked
  <2> HIDE DEF E
  <2> QED
    BY <1>4, <1>6, <2>1 DEF With
<1>12. N \subseteq Refilled
  <2>1. Stock(live) \subseteq Stock(granted)
    <3> HIDE DEF E
    <3> QED
      BY <1>5 DEF Stock, With, Buckets, Bucket
  <2> QED
    BY <1>3, <2>1
<1> HIDE DEF live, E, mine
<1>13. seen \in Buckets
  <2> HIDE DEF N
  <2> QED
    BY <1>10, CopiesAreBuckets
<1>14. \A b \in BucketId : mine[b] = seen[b] \/ (mine[b].available = 0 /\ seen[b].available = 0)
  <2> TAKE b \in BucketId
  <2>1. CASE b \in Locked(t)
    BY <1>11, <2>1 DEF With
  <2>2. CASE b \notin Locked(t) /\ b \in N
    <3>1. mine[b].available = 0
      BY <1>11, <2>2 DEF NoBucket
    <3>2. seen[b] = [live[b] EXCEPT !.available = 0] /\ live[b] \in Bucket
      BY <1>10, <2>2 DEF With, Buckets
    <3>3. seen[b].available = 0
      BY <3>2 DEF Bucket
    <3> QED
      BY <3>1, <3>3
  <2>3. CASE b \notin Locked(t) /\ b \notin N
    <3>1. mine[b].available = 0
      BY <1>11, <2>3 DEF NoBucket
    <3>2. seen[b] = live[b] /\ live[b].available \in Nat /\ ~ (live[b].available > 0)
      BY <1>10, <2>3 DEF With, Stock, Buckets, Bucket
    <3> QED
      BY <3>1, <3>2
  <2> QED
    BY <2>1, <2>2, <2>3
<1> HIDE DEF seen, N
<1>15. Cost[r] \in Nat
  BY <1>3, ConstantsAssumption
<1>16. /\ Spend(seen, Cost[r]) = spend /\ Available(seen, BucketId) = Available(mine, BucketId)
       /\ \A b \in BucketId \ Locked(t) : spend[b] = 0
  <2>1. \A b \in BucketId \ Locked(t) : mine[b].available = 0
    BY <1>11 DEF NoBucket
  <2> QED
    BY <1>10, <1>13, <1>14, <1>15, <2>1, SpendsAlike
<1> HIDE DEF spend
<1>17. bucket' = [b \in BucketId |-> [live[b] EXCEPT !.available = @ - spend[b],
                                                     !.reserved = @ + spend[b]]]
  <2> DEFINE Paid(row, b) == [row EXCEPT !.available = @ - spend[b], !.reserved = @ + spend[b]]
  <2>1. ASSUME NEW b \in BucketId \ Locked(t) PROVE Paid(live[b], b) = granted[b]
    <3>1. live[b] = granted[b] /\ granted[b] \in Bucket /\ spend[b] = 0
      BY <1>5, <1>11, <1>16 DEF Buckets
    <3>2. granted[b].available - 0 = granted[b].available /\ granted[b].reserved + 0 = granted[b].reserved
      BY <3>1 DEF Bucket
    <3>3. Paid(live[b], b)
            = [granted[b] EXCEPT !.available = granted[b].available, !.reserved = granted[b].reserved]
      BY <3>1, <3>2
    <3> QED
      BY <3>1, <3>3 DEF Bucket
  <2>2. \A b \in Locked(t) : Paid(mine[b], b) = Paid(live[b], b)
    BY <1>11
  <2>3. bucket' = [b \in BucketId |-> IF b \in Locked(t) THEN Paid(mine[b], b) ELSE granted[b]]
    BY <1>1 DEF Written, granted
  <2> HIDE DEF Paid
  <2>4. bucket' = [b \in BucketId |-> Paid(live[b], b)]
    BY <2>1, <2>2, <2>3
  <2> QED
    BY <2>4 DEF Paid
<1>18. ReserveMissing(r, tx[t].verified, M, N)
  <2>1. With(WithTrial(bucket, tx[t].verified), Expirable(WithTrial(bucket, tx[t].verified)) \ M) = live
    BY <1>7 DEF live, E
  <2>2. With(live, N) = seen
    BY DEF seen
  <2>3. Only(WithTrial(bucket, tx[t].verified), Expirable(WithTrial(bucket, tx[t].verified)) \ M)
          = Only(tx[t].row, tx[t].expired)
    BY <1>7, <1>9 DEF E
  <2> QED
    BY <1>1, <1>3, <1>16, <1>17, <2>1, <2>2, <2>3 DEF ReserveMissing
<1> QED
  BY <1>3, <1>12, <1>18

LEMMA CommitDebitIs ==
  ASSUME IInv, RowInv, NEW t \in Tx, CommitDebit(t)
  PROVE  tx[t].id \in Adjustment /\ \E N \in SUBSET Refilled : AdjustMissing(tx[t].id, N)
<1> DEFINE a == tx[t].id
           amount == -AdjustmentAmount[a]
           N == Stock(bucket) \ Locked(t)
           seen == With(bucket, N)
           mine == tx[t].row
           drain == Drain(mine, amount)
<1>1. /\ tx[t].op = "drain" /\ tx[t].todo = {}
      /\ Available(mine, BucketId) >= amount
      /\ bucket' = Written(t, [b \in BucketId |-> [mine[b] EXCEPT !.available = @ - drain[b]]])
      /\ ledger' = Post(ledger, Entry(<<"ADJUSTMENT", a>>, -amount))
      /\ UNCHANGED <<now, hold, account, reversal, review>>
  BY DEF CommitDebit
<1>2. Reads(t) /\ Selects(t) /\ tx[t] \in Transaction
  BY DEF RowInv, RowTypes
<1>3. /\ a \in Adjustment /\ AdjustmentAmount[a] < 0 /\ <<"ADJUSTMENT", a>> \notin DOMAIN ledger
      /\ N \subseteq Refilled
  BY <1>1, <1>2 DEF Selects, Known
<1>4. Base(t) = bucket /\ bucket \in Buckets
  BY <1>1, <1>2 DEF Reads, Base, WithTrial, IInv
<1>5. \A b \in BucketId : mine[b] = IF b \in Locked(t) THEN bucket[b] ELSE NoBucket
  BY <1>2, <1>4, LockedRows
<1>6. mine \in Buckets
  BY <1>2 DEF Transaction
<1>7. seen \in Buckets
  <2> HIDE DEF N
  <2> QED
    BY <1>4, CopiesAreBuckets
<1>8. amount \in Nat /\ amount > 0
  BY <1>3, ConstantsAssumption
<1> HIDE DEF mine, amount
<1>9. \A b \in BucketId : mine[b] = seen[b] \/ (mine[b].available = 0 /\ seen[b].available = 0)
  <2> TAKE b \in BucketId
  <2>1. CASE b \in Locked(t)
    BY <1>5, <2>1 DEF With
  <2>2. CASE b \notin Locked(t) /\ b \in N
    <3>1. mine[b].available = 0
      BY <1>5, <2>2 DEF NoBucket
    <3>2. seen[b] = [bucket[b] EXCEPT !.available = 0] /\ bucket[b] \in Bucket
      BY <1>4, <2>2 DEF With, Buckets
    <3>3. seen[b].available = 0
      BY <3>2 DEF Bucket
    <3> QED
      BY <3>1, <3>3
  <2>3. CASE b \notin Locked(t) /\ b \notin N
    <3>1. mine[b].available = 0
      BY <1>5, <2>3 DEF NoBucket
    <3>2. seen[b] = bucket[b] /\ bucket[b].available \in Nat /\ ~ (bucket[b].available > 0)
      BY <1>4, <2>3 DEF With, Stock, Buckets, Bucket
    <3> QED
      BY <3>1, <3>2
  <2> QED
    BY <2>1, <2>2, <2>3
<1> HIDE DEF seen, N
<1>10. /\ Drain(seen, amount) = drain /\ Available(seen, BucketId) = Available(mine, BucketId)
       /\ \A b \in BucketId \ Locked(t) : drain[b] = 0
  <2>1. \A b \in BucketId \ Locked(t) : mine[b].available = 0
    BY <1>5 DEF NoBucket
  <2> QED
    BY <1>6, <1>7, <1>8, <1>9, <2>1, SpendsAlike
<1> HIDE DEF drain
<1>11. bucket' = [b \in BucketId |-> [bucket[b] EXCEPT !.available = @ - drain[b]]]
  <2> DEFINE Paid(row, b) == [row EXCEPT !.available = @ - drain[b]]
  <2>1. ASSUME NEW b \in BucketId \ Locked(t) PROVE Paid(bucket[b], b) = bucket[b]
    <3>1. bucket[b] \in Bucket /\ drain[b] = 0
      BY <1>4, <1>10 DEF Buckets
    <3>2. bucket[b].available - 0 = bucket[b].available
      BY <3>1 DEF Bucket
    <3>3. Paid(bucket[b], b) = [bucket[b] EXCEPT !.available = bucket[b].available]
      BY <3>1, <3>2
    <3> QED
      BY <3>1, <3>3 DEF Bucket
  <2>2. \A b \in Locked(t) : Paid(mine[b], b) = Paid(bucket[b], b)
    BY <1>5 DEF Locked
  <2>3. bucket' = [b \in BucketId |-> IF b \in Locked(t) THEN Paid(mine[b], b) ELSE bucket[b]]
    BY <1>1, <1>4 DEF Written
  <2> HIDE DEF Paid
  <2>4. bucket' = [b \in BucketId |-> Paid(bucket[b], b)]
    BY <2>1, <2>2, <2>3
  <2> QED
    BY <2>4 DEF Paid
<1>12. AdjustMissing(a, N)
  BY <1>1, <1>3, <1>8, <1>10, <1>11 DEF AdjustMissing, seen, amount
<1> QED
  BY <1>3, <1>12

-----------------------------------------------------------------------------
(* A transaction that misses buckets leaves the account as sound as one     *)
(* that does not.                                                           *)

Account == IInv /\ Funded /\ LedgerIsFunction

LEMMA WithSound ==
  ASSUME NEW bk \in Buckets, Sound(bk, hold), hold \in Holds,
         GrantsInOrder(bk), GrantsInBounds(bk), NEW E
  PROVE  /\ With(bk, E) \in Buckets /\ Sound(With(bk, E), hold)
         /\ GrantsInOrder(With(bk, E)) /\ GrantsInBounds(With(bk, E))
         /\ SameGrants(bk, With(bk, E))
<1>1. With(bk, E) \in Buckets
  BY CopiesAreBuckets
<1>2. \A b \in BucketId : /\ With(bk, E)[b].granted = bk[b].granted
                          /\ With(bk, E)[b].reserved = bk[b].reserved
                          /\ With(bk, E)[b].available <= bk[b].available
                          /\ With(bk, E)[b].created = bk[b].created
  BY DEF With, Buckets, Bucket
<1>3. SameGrants(bk, With(bk, E))
  BY <1>2 DEF SameGrants
<1>4. Sound(With(bk, E), hold)
  BY <1>1, <1>2, SoundDebit
<1> QED
  BY <1>1, <1>3, <1>4, GrantsKept

LEMMA GrantedSound ==
  ASSUME IInv, Funded, NEW verified, NEW E
  PROVE  LET granted == WithTrial(bucket, verified)
         IN  /\ granted \in Buckets /\ Sound(granted, hold)
             /\ With(granted, E) \in Buckets /\ Sound(With(granted, E), hold)
             /\ GrantsInOrder(With(granted, E)) /\ GrantsInBounds(With(granted, E))
<1> DEFINE granted == WithTrial(bucket, verified)
<1>1. /\ granted \in Buckets /\ Sound(granted, hold)
      /\ GrantsInOrder(granted) /\ GrantsInBounds(granted)
  BY LiveBuckets DEF Funded
<1> HIDE DEF granted
<1>2. hold \in Holds
  BY DEF IInv
<1>3. /\ With(granted, E) \in Buckets /\ Sound(With(granted, E), hold)
      /\ GrantsInOrder(With(granted, E)) /\ GrantsInBounds(With(granted, E))
  BY <1>1, <1>2, WithSound
<1> QED
  BY <1>1, <1>3 DEF granted

LEMMA PostIsFunction ==
  \A lg, entries : Post(lg, entries) = [k \in DOMAIN Post(lg, entries) |-> Post(lg, entries)[k]]
BY DEF Post

LEMMA CreditAccountMissingSound ==
  ASSUME Account, NEW verified \in BOOLEAN, NEW M, CreditAccountMissing(verified, M)
  PROVE  Account'
<1> DEFINE E == Expirable(WithTrial(bucket, verified)) \ M
           live == With(WithTrial(bucket, verified), E)
           posted == Post(ledger, TrialEntry(verified))
           entries == ExpireEntries(Only(WithTrial(bucket, verified), E))
<1>1. /\ bucket' = live /\ ledger' = Post(posted, entries)
      /\ UNCHANGED <<now, hold, account, reversal, review>>
  BY DEF CreditAccountMissing
<1>2. live \in Buckets /\ Sound(live, hold) /\ GrantsInOrder(live) /\ GrantsInBounds(live)
  <2> HIDE DEF E
  <2> QED
    BY GrantedSound DEF Account
<1> HIDE DEF live, posted, entries
<1>3. IInv'
  BY <1>1, <1>2 DEF Account, IInv
<1>4. Funded'
  BY <1>1, <1>2 DEF Account, Funded, HoldCoversCost
<1>5. LedgerIsFunction'
  BY <1>1, PostIsFunction DEF LedgerIsFunction
<1> QED
  BY <1>3, <1>4, <1>5 DEF Account

LEMMA ReserveMissingSound ==
  ASSUME Account, NEW r \in Reference, NEW verified \in BOOLEAN, NEW M, NEW N,
         ReserveMissing(r, verified, M, N)
  PROVE  Account'
<1> DEFINE E == Expirable(WithTrial(bucket, verified)) \ M
           live == With(WithTrial(bucket, verified), E)
           seen == With(live, N)
           spend == Spend(seen, Cost[r])
           posted == Post(ledger, TrialEntry(verified))
           entries == ExpireEntries(Only(WithTrial(bucket, verified), E))
<1>1. /\ hold[r].status = "none" /\ Available(seen, BucketId) >= Cost[r]
      /\ bucket' = [b \in BucketId |-> [live[b] EXCEPT !.available = @ - spend[b],
                                                       !.reserved = @ + spend[b]]]
      /\ hold' = [hold EXCEPT ![r] = [status |-> "reserved", allocated |-> spend,
                                      expires |-> now + HoldTime]]
      /\ ledger' = Post(posted, entries)
      /\ UNCHANGED <<now, account, reversal, review>>
  BY DEF ReserveMissing
<1>2. /\ now \in Nat /\ hold \in Holds /\ Cost[r] \in Nat /\ Cost[r] <= MaxCredit
      /\ now + HoldTime \in Nat /\ MaxCredit \in Nat
  BY ConstantsAssumption DEF Account, IInv
<1>3. live \in Buckets /\ Sound(live, hold) /\ GrantsInOrder(live) /\ GrantsInBounds(live)
  <2> HIDE DEF E
  <2> QED
    BY GrantedSound DEF Account
<1> HIDE DEF live
<1>4. seen \in Buckets /\ Sound(seen, hold) /\ GrantsInOrder(seen) /\ GrantsInBounds(seen)
  BY <1>2, <1>3, WithSound
<1>5. \A b \in BucketId : seen[b].available <= live[b].available /\ seen[b].available \in Nat
                          /\ live[b].available \in Nat
  BY <1>3 DEF With, Buckets, Bucket
<1> HIDE DEF seen
<1>6. Total(spend, BucketId) = Cost[r]
  BY <1>1, <1>2, <1>4, SpendsCost
<1>7. ASSUME NEW b \in BucketId
      PROVE  spend[b] \in Credits /\ spend[b] <= live[b].available
  <2> DEFINE earlier == {c \in BucketId : SpentBefore(seen, c, b)}
  <2>1. spend[b] = Take(seen, b, earlier, Cost[r])
    BY DEF Spend
  <2>2. Take(seen, b, earlier, Cost[r]) \in 0 .. Min2(seen[b].available, Cost[r])
    BY <1>2, <1>4, TakeBounds DEF Buckets
  <2> QED
    BY <1>2, <1>5, <2>1, <2>2 DEF Min2, Credits
<1>8. spend \in Allocation
  BY <1>7 DEF Spend, Allocation
<1> HIDE DEF spend, posted, entries
<1>9. bucket' \in Buckets /\ hold' \in Holds /\ Sound(bucket', hold')
  BY <1>1, <1>2, <1>3, <1>7, <1>8, HoldSound
<1>10. IInv'
  BY <1>1, <1>9 DEF Account, IInv
<1>11. SameGrants(live, bucket')
  BY <1>1, <1>3 DEF SameGrants, Buckets, Bucket
<1>12. GrantsInOrder(bucket') /\ GrantsInBounds(bucket')
  BY <1>3, <1>11, GrantsKept
<1>13. HoldCoversCost'
  <2> SUFFICES ASSUME NEW s \in Reference, hold'[s].status # "none"
               PROVE  Total(hold'[s].allocated, BucketId) = Cost[s]
    BY DEF HoldCoversCost
  <2>1. CASE s = r
    <3>1. hold'[s].allocated = spend
      BY <1>1, <1>2, <2>1 DEF Holds
    <3> QED
      BY <1>6, <2>1, <3>1
  <2>2. CASE s # r
    <3>1. hold'[s] = hold[s]
      BY <1>1, <1>2, <2>2 DEF Holds
    <3> QED
      BY <3>1 DEF Account, Funded, HoldCoversCost
  <2> QED
    BY <2>1, <2>2
<1>14. Funded'
  BY <1>12, <1>13 DEF Funded
<1>15. LedgerIsFunction'
  BY <1>1, PostIsFunction DEF LedgerIsFunction
<1> QED
  BY <1>10, <1>14, <1>15 DEF Account

LEMMA AdjustMissingSound ==
  ASSUME Account, NEW a \in Adjustment, NEW N, AdjustMissing(a, N)
  PROVE  Account'
<1> DEFINE amount == -AdjustmentAmount[a]
           seen == With(bucket, N)
           drain == Drain(seen, amount)
<1>1. /\ amount > 0
      /\ bucket' = [b \in BucketId |-> [bucket[b] EXCEPT !.available = @ - drain[b]]]
      /\ ledger' = Post(ledger, Entry(<<"ADJUSTMENT", a>>, -amount))
      /\ UNCHANGED <<now, hold, account, reversal, review>>
  BY DEF AdjustMissing
<1>2. /\ bucket \in Buckets /\ hold \in Holds /\ Sound(bucket, hold) /\ amount \in Nat
      /\ GrantsInOrder(bucket) /\ GrantsInBounds(bucket)
  BY <1>1, ConstantsAssumption DEF Account, IInv, Funded
<1> HIDE DEF amount
<1>3. seen \in Buckets
  BY <1>2, CopiesAreBuckets
<1>4. \A b \in BucketId : seen[b].available <= bucket[b].available /\ seen[b].available \in Nat
                          /\ bucket[b].available \in Nat
  BY <1>2 DEF With, Buckets, Bucket
<1> HIDE DEF seen
<1>5. ASSUME NEW b \in BucketId
      PROVE  drain[b] \in Nat /\ drain[b] <= bucket[b].available
  <2> DEFINE earlier == {c \in BucketId : OlderThan(seen, c, b)}
  <2>1. drain[b] = Take(seen, b, earlier, amount)
    BY DEF Drain
  <2>2. Take(seen, b, earlier, amount) \in 0 .. Min2(seen[b].available, amount)
    BY <1>2, <1>3, TakeBounds DEF Buckets
  <2> QED
    BY <1>2, <1>4, <2>1, <2>2 DEF Min2
<1> HIDE DEF drain
<1>6. bucket' \in Buckets
  BY <1>1, <1>2, <1>5 DEF Buckets, Bucket
<1>7. \A b \in BucketId : /\ bucket'[b].granted = bucket[b].granted
                          /\ bucket'[b].reserved = bucket[b].reserved
                          /\ bucket'[b].available <= bucket[b].available
                          /\ bucket'[b].created = bucket[b].created
  BY <1>1, <1>2, <1>5 DEF Buckets, Bucket
<1>8. Sound(bucket', hold)
  BY <1>2, <1>6, <1>7, SoundDebit
<1>9. IInv'
  BY <1>1, <1>6, <1>8 DEF Account, IInv
<1>10. SameGrants(bucket, bucket')
  BY <1>7 DEF SameGrants
<1>11. GrantsInOrder(bucket') /\ GrantsInBounds(bucket')
  BY <1>2, <1>10, GrantsKept
<1>12. Funded'
  BY <1>1, <1>11 DEF Account, Funded, HoldCoversCost
<1>13. LedgerIsFunction'
  BY <1>1, PostIsFunction DEF LedgerIsFunction
<1> QED
  BY <1>9, <1>12, <1>13 DEF Account

LEMMA MissingSound == Account /\ Missing => Account'
BY CreditAccountMissingSound, ReserveMissingSound, AdjustMissingSound DEF Missing

LEMMA LedgerStaysFunction == LedgerIsFunction /\ [Next]_vars => LedgerIsFunction'
<1> SUFFICES ASSUME LedgerIsFunction, [Next]_vars PROVE LedgerIsFunction'
  OBVIOUS
<1>1. ASSUME NEW lg, NEW entries, ledger' = Post(lg, entries) PROVE LedgerIsFunction'
  BY <1>1, PostIsFunction DEF LedgerIsFunction
<1>2. CASE ledger' = ledger
  BY <1>2 DEF LedgerIsFunction
<1>3. CASE \E p \in Period : \E amount \in 1 .. PeriodPrice[p] : PaymentReversed(p, amount)
  <2>1. \/ ledger' = ledger
        \/ \E entries : ledger' = Post(ledger, entries)
    BY <1>3 DEF PaymentReversed
  <2> QED
    BY <1>1, <1>2, <2>1
<1>4. CASE /\ Next
           /\ ~ \E p \in Period : \E amount \in 1 .. PeriodPrice[p] : PaymentReversed(p, amount)
  <2>1. ASSUME NEW verified \in BOOLEAN, CreditAccount(verified) PROVE LedgerIsFunction'
    BY <1>1, <2>1 DEF CreditAccount
  <2>2. ASSUME NEW r \in Reference, NEW verified \in BOOLEAN, Reserve(r, verified)
        PROVE  LedgerIsFunction'
    BY <1>1, <2>2 DEF Reserve
  <2>3. ASSUME NEW r \in Reference, Capture(r) \/ Release(r) \/ Refund(r) PROVE LedgerIsFunction'
    BY <1>1, <1>2, <2>3 DEF Capture, Release, Refund
  <2>4. ASSUME NEW C, NEW R, NEW D, ReconcileExpiredReservations(C, R, D) PROVE LedgerIsFunction'
    BY <1>1, <2>4 DEF ReconcileExpiredReservations
  <2>5. ASSUME NEW p \in Period, PaymentSucceeded(p) PROVE LedgerIsFunction'
    BY <1>1, <2>5 DEF PaymentSucceeded
  <2>6. ASSUME NEW a \in Adjustment, Adjust(a) PROVE LedgerIsFunction'
    BY <1>1, <2>6 DEF Adjust
  <2>7. CASE Tick
    BY <1>2, <2>7 DEF Tick
  <2> QED
    BY <1>4, <2>1, <2>2, <2>3, <2>4, <2>5, <2>6, <2>7 DEF Next
<1> QED
  BY <1>2, <1>3, <1>4 DEF vars

LEMMA AccountStep == Account /\ [Next \/ Missing]_vars => Account'
BY IInvInductive, FundedInductive, LedgerStaysFunction, MissingSound DEF Account

LEMMA InitAccount == Init => Account
BY InitIInv, InitFunded DEF Account, LedgerIsFunction, Init

-----------------------------------------------------------------------------
(* A commit disturbs no other session: what it writes it has locked, or the *)
(* other session does not know.                                            *)

LEMMA CommitKeeps ==
  ASSUME IInv, RowInv, NEW t \in Tx, NEW s \in Tx, s # t, End(t), now' = now,
         \A b \in BucketId \ Locked(t) :
           bucket[b].granted # 0 \/ accountLock # t => bucket'[b] = bucket[b],
         \A b \in BucketId : bucket[b].granted # 0 => bucket'[b].granted # 0,
         \A r \in Reference \ HeldBy(t) : hold[r].status # "none" => hold'[r] = hold[r],
         \A r \in Reference : hold[r].status # "none" =>
           hold'[r].status # "none" /\ hold'[r].allocated = hold[r].allocated
  PROVE  Keeps(s)
<1>1. /\ tx'[s] = tx[s] /\ Locked(s)' = Locked(s) /\ HeldBy(s)' = HeldBy(s)
      /\ accountLock' = s <=> accountLock = s
  <2>1. s \in Tx \ {t}
    OBVIOUS
  <2> QED
    BY <2>1, EndKeeps
<1>2. Reads(s) /\ Ends(s) /\ RowTypes
  BY DEF RowInv
<1>3. Locked(s) \cap Locked(t) = {} /\ HeldBy(s) \cap HeldBy(t) = {}
  BY <1>2, LocksAreOwn
<1>4. ASSUME NEW b \in Locked(s) PROVE bucket'[b] = bucket[b]
  <2>1. b \in BucketId \ Locked(t)
    BY <1>3 DEF Locked
  <2>2. CASE accountLock # t
    BY <2>1, <2>2
  <2>3. CASE accountLock = t
    <3>1. Base(s) = bucket
      BY <1>2, <2>3, BaseOutside
    <3>2. bucket[b].granted # 0
      BY <1>2, <3>1 DEF Reads, Known
    <3> QED
      BY <2>1, <3>2
  <2> QED
    BY <2>2, <2>3
<1>5. \A r \in HeldBy(s) : hold'[r] = hold[r]
  BY <1>2, <1>3 DEF Ends, HeldBy
<1>6. now <= now'
  BY DEF IInv
<1> QED
  BY <1>1, <1>4, <1>5, <1>6 DEF Keeps

LEMMA WrittenElsewhere ==
  ASSUME IInv, RowInv, NEW t \in Tx, NEW new
  PROVE  \A b \in BucketId \ Locked(t) :
           bucket[b].granted # 0 \/ accountLock # t => Written(t, new)[b] = bucket[b]
<1> SUFFICES ASSUME NEW b \in BucketId \ Locked(t), bucket[b].granted # 0 \/ accountLock # t
             PROVE  Base(t)[b] = bucket[b]
  BY DEF Written
<1>1. CASE bucket[b].granted # 0
  BY <1>1, BaseAdds DEF IInv
<1>2. CASE accountLock # t
  BY <1>2, BaseOutside DEF RowInv
<1> QED
  BY <1>1, <1>2

\* No transaction takes a grant back.
LEMMA MissingKeepsGrants ==
  ASSUME Account, Missing
  PROVE  \A b \in BucketId : bucket[b].granted # 0 => bucket'[b].granted # 0
<1>1. ASSUME NEW verified \in BOOLEAN, NEW E,
             \A b \in BucketId : bucket'[b].granted = With(WithTrial(bucket, verified), E)[b].granted
      PROVE  \A b \in BucketId : bucket[b].granted # 0 => bucket'[b].granted # 0
  <2> DEFINE granted == WithTrial(bucket, verified)
  <2>1. granted \in Buckets
    BY TrialSound, ConstantsAssumption DEF Account, IInv
  <2>2. \A b \in BucketId : bucket[b].granted # 0 => granted[b] = bucket[b]
    BY DEF WithTrial, Grant, Account, IInv, Buckets
  <2> HIDE DEF granted
  <2>3. \A b \in BucketId : With(granted, E)[b].granted = granted[b].granted
    BY <2>1 DEF With, Buckets, Bucket
  <2> QED
    BY <1>1, <2>2, <2>3 DEF granted
<1>2. ASSUME NEW M, NEW verified \in BOOLEAN, CreditAccountMissing(verified, M)
      PROVE  \A b \in BucketId : bucket[b].granted # 0 => bucket'[b].granted # 0
  <2> DEFINE E == Expirable(WithTrial(bucket, verified)) \ M
  <2>1. bucket' = With(WithTrial(bucket, verified), E)
    BY <1>2 DEF CreditAccountMissing
  <2> HIDE DEF E
  <2> QED
    BY <1>1, <2>1
<1>3. ASSUME NEW M, NEW N, NEW r \in Reference, NEW verified \in BOOLEAN,
             ReserveMissing(r, verified, M, N)
      PROVE  \A b \in BucketId : bucket[b].granted # 0 => bucket'[b].granted # 0
  <2> DEFINE E == Expirable(WithTrial(bucket, verified)) \ M
             live == With(WithTrial(bucket, verified), E)
             spend == Spend(With(live, N), Cost[r])
  <2>1. bucket' = [b \in BucketId |-> [live[b] EXCEPT !.available = @ - spend[b],
                                                      !.reserved = @ + spend[b]]]
    BY <1>3 DEF ReserveMissing
  <2>2. live \in Buckets
    <3> HIDE DEF E
    <3> QED
      BY GrantedSound DEF Account
  <2> HIDE DEF spend, live
  <2>3. \A b \in BucketId : bucket'[b].granted = live[b].granted
    BY <2>1, <2>2 DEF Buckets, Bucket
  <2>4. \A b \in BucketId : bucket'[b].granted = With(WithTrial(bucket, verified), E)[b].granted
    BY <2>3 DEF live
  <2> HIDE DEF E
  <2> QED
    BY <1>1, <2>4
<1>4. ASSUME NEW N, NEW a \in Adjustment, AdjustMissing(a, N)
      PROVE  \A b \in BucketId : bucket[b].granted # 0 => bucket'[b].granted # 0
  <2> DEFINE drain == Drain(With(bucket, N), -AdjustmentAmount[a])
  <2>1. bucket' = [b \in BucketId |-> [bucket[b] EXCEPT !.available = @ - drain[b]]]
    BY <1>4 DEF AdjustMissing
  <2> HIDE DEF drain
  <2> QED
    BY <2>1 DEF Account, IInv, Buckets, Bucket
<1> QED
  BY <1>2, <1>3, <1>4 DEF Missing

\* A transaction that has the account changes nothing else for the others.
LEMMA CommitCreditAccountKeeps ==
  ASSUME Account, RowInv, NEW t \in Tx, NEW s \in Tx, s # t, CommitCreditAccount(t)
  PROVE  Undisturbed(s)
<1>1. /\ tx[t].op = "account" /\ End(t) /\ now' = now /\ hold' = hold
      /\ bucket' = Written(t, Expired(tx[t].row))
  BY DEF CommitCreditAccount
<1>2. accountLock = t
  BY <1>1 DEF RowInv, Reads, InAccount
<1>3. IInv /\ Funded
  BY DEF Account
<1>4. Missing
  <2>1. \E M \in SUBSET Refilled : CreditAccountMissing(tx[t].verified, M)
    BY <1>3, CommitCreditAccountIs
  <2>2. tx[t].verified \in BOOLEAN
    BY DEF RowInv, RowTypes, Transaction
  <2> QED
    BY <2>1, <2>2 DEF Missing
<1>5. \A b \in BucketId : bucket[b].granted # 0 => bucket'[b].granted # 0
  BY <1>4, MissingKeepsGrants
<1>6. \A b \in BucketId \ Locked(t) :
        bucket[b].granted # 0 \/ accountLock # t => bucket'[b] = bucket[b]
  BY <1>1, <1>3, WrittenElsewhere
<1>7. Keeps(s)
  BY <1>1, <1>3, <1>5, <1>6, CommitKeeps
<1> QED
  BY <1>2, <1>7 DEF Undisturbed

LEMMA CommitReserveKeeps ==
  ASSUME Account, RowInv, NEW t \in Tx, NEW s \in Tx, s # t, CommitReserve(t)
  PROVE  Undisturbed(s)
<1> DEFINE r == tx[t].id
<1>1. /\ tx[t].op = "spend" /\ End(t) /\ now' = now
      /\ \E new : bucket' = Written(t, new)
      /\ \E new : hold' = [hold EXCEPT ![r] = new]
  BY DEF CommitReserve
<1>2. accountLock = t /\ hold[r].status = "none"
  BY <1>1 DEF RowInv, Reads, Selects, InAccount
<1>3. IInv /\ Funded /\ hold \in Holds
  BY DEF Account, IInv
<1>4. Missing
  <2>1. /\ tx[t].id \in Reference
        /\ \E M \in SUBSET Refilled, N \in SUBSET Refilled :
             ReserveMissing(tx[t].id, tx[t].verified, M, N)
    BY <1>3, CommitReserveIs
  <2>2. tx[t].verified \in BOOLEAN
    BY DEF RowInv, RowTypes, Transaction
  <2> QED
    BY <2>1, <2>2 DEF Missing
<1>5. \A b \in BucketId : bucket[b].granted # 0 => bucket'[b].granted # 0
  BY <1>4, MissingKeepsGrants
<1>6. \A b \in BucketId \ Locked(t) :
        bucket[b].granted # 0 \/ accountLock # t => bucket'[b] = bucket[b]
  BY <1>1, <1>3, WrittenElsewhere
<1>7. \A q \in Reference : hold[q].status # "none" => hold'[q] = hold[q]
  BY <1>1, <1>2, <1>3 DEF Holds
<1>8. Keeps(s)
  BY <1>1, <1>3, <1>5, <1>6, <1>7, CommitKeeps
<1> QED
  BY <1>2, <1>8 DEF Undisturbed

LEMMA CommitDebitKeeps ==
  ASSUME Account, RowInv, NEW t \in Tx, NEW s \in Tx, s # t, CommitDebit(t)
  PROVE  Undisturbed(s)
<1>1. /\ tx[t].op = "drain" /\ End(t) /\ now' = now /\ hold' = hold
      /\ \E new : bucket' = Written(t, new)
  BY DEF CommitDebit
<1>2. accountLock = t
  BY <1>1 DEF RowInv, Reads, InAccount
<1>3. IInv /\ Funded
  BY DEF Account
<1>4. Missing
  BY <1>3, CommitDebitIs DEF Missing
<1>5. \A b \in BucketId : bucket[b].granted # 0 => bucket'[b].granted # 0
  BY <1>4, MissingKeepsGrants
<1>6. \A b \in BucketId \ Locked(t) :
        bucket[b].granted # 0 \/ accountLock # t => bucket'[b] = bucket[b]
  BY <1>1, <1>3, WrittenElsewhere
<1>7. Keeps(s)
  BY <1>1, <1>3, <1>5, <1>6, CommitKeeps
<1> QED
  BY <1>2, <1>7 DEF Undisturbed

LEMMA CommitRefundKeeps ==
  ASSUME Account, RowInv, NEW t \in Tx, NEW s \in Tx, s # t, CommitRefund(t)
  PROVE  Undisturbed(s)
<1> DEFINE r == tx[t].id
<1>1. /\ tx[t].op = "refund" /\ End(t) /\ now' = now
      /\ hold' = [hold EXCEPT ![r].status = "refunded"]
      /\ \E new, amount : \/ bucket' = Written(t, new)
                          \/ bucket' = Grant(Written(t, new), RefundBucket(r), amount, Never)
  BY DEF CommitRefund
<1>2. accountLock = t /\ r \in HeldBy(t) /\ r \in Reference /\ hold[r].status = "captured"
  BY <1>1 DEF RowInv, Reads, Ends, InAccount, HeldBy
<1>3. IInv /\ Funded /\ hold \in Holds /\ bucket \in Buckets
  BY DEF Account, IInv
<1>4. \A b \in BucketId \ Locked(t) : bucket[b].granted # 0 => bucket'[b] = bucket[b]
  <2>1. PICK new, amount : \/ bucket' = Written(t, new)
                           \/ bucket' = Grant(Written(t, new), RefundBucket(r), amount, Never)
    BY <1>1
  <2>2. \A b \in BucketId \ Locked(t) : bucket[b].granted # 0 => Written(t, new)[b] = bucket[b]
    BY <1>3, WrittenElsewhere
  <2>3. Written(t, new) = [b \in BucketId |-> Written(t, new)[b]]
    BY DEF Written
  <2>4. \A b \in BucketId : Written(t, new)[b].granted # 0 =>
          Grant(Written(t, new), RefundBucket(r), amount, Never)[b] = Written(t, new)[b]
    BY <2>3 DEF Grant
  <2> QED
    BY <2>1, <2>2, <2>4
<1>5. \A b \in BucketId : bucket[b].granted # 0 => bucket'[b].granted # 0
  <2>1. Refund(r)
    BY <1>3, CommitRefundIs
  <2>2. \/ bucket' = Returned(r)
        \/ \E amount : bucket' = Grant(Returned(r), RefundBucket(r), amount, Never)
    BY <2>1 DEF Refund, Returned, Lapsed
  <2>3. \A b \in BucketId : Returned(r)[b].granted = bucket[b].granted
    BY <1>3 DEF Returned, Buckets, Bucket
  <2>4. Returned(r) = [b \in BucketId |-> Returned(r)[b]]
    BY DEF Returned
  <2>5. \A amount : \A b \in BucketId : Returned(r)[b].granted # 0 =>
          Grant(Returned(r), RefundBucket(r), amount, Never)[b] = Returned(r)[b]
    BY <2>4 DEF Grant
  <2> QED
    BY <2>2, <2>3, <2>5
<1>6. \A q \in Reference : /\ q # r => hold'[q] = hold[q]
                           /\ hold[q].status # "none" => hold'[q].status # "none"
                           /\ hold'[q].allocated = hold[q].allocated
  BY <1>1, <1>2, <1>3 DEF Holds, Hold
<1>7. Keeps(s)
  BY <1>1, <1>2, <1>3, <1>4, <1>5, <1>6, CommitKeeps
<1> QED
  BY <1>2, <1>7 DEF Undisturbed

LEMMA CommitReversalKeeps ==
  ASSUME Account, RowInv, NEW t \in Tx, NEW s \in Tx, s # t, CommitReversal(t)
  PROVE  Undisturbed(s)
<1> DEFINE p == tx[t].id
           b == PaymentBucket(p)
           R == tx[t].R
<1>1. /\ tx[t].op = "free" /\ End(t) /\ now' = now /\ hold' = Settled({}, R)
      /\ \E new : bucket' = Written(t, new)
  BY DEF CommitReversal
<1>2. accountLock = t /\ R \subseteq HeldBy(t)
  BY <1>1 DEF RowInv, Reads, Ends, InAccount
<1>3. IInv /\ Funded /\ hold \in Holds /\ bucket \in Buckets
  BY DEF Account, IInv
<1>4. \A c \in BucketId \ Locked(t) :
        bucket[c].granted # 0 \/ accountLock # t => bucket'[c] = bucket[c]
  BY <1>1, <1>3, WrittenElsewhere
<1>5. p \in Period /\ PaymentReversed(p, tx[t].amount) /\ R = OpenHolds(b)
  BY <1>3, CommitReversalIs
<1>6. R \in SUBSET Reserved(hold) /\ {} \in SUBSET Reserved(hold)
  BY <1>5 DEF OpenHolds
<1>7. \A c \in BucketId : bucket[c].granted # 0 => bucket'[c].granted # 0
  <2>1. b \in BucketId
    BY <1>5 DEF PaymentBucket, BucketId
  <2> DEFINE freed == Settle(bucket, {}, OpenHolds(b))
  <2>2. \E unspent : bucket' = [freed EXCEPT ![b].available = @ - unspent]
    BY <1>5 DEF PaymentReversed
  <2>3. /\ \A c \in BucketId : freed[c].granted = bucket[c].granted
        /\ freed = [c \in BucketId |-> freed[c]]
    <3>1. freed = [c \in BucketId |-> freed[c]]
      BY DEF Settle
    <3>2. SameGrants(bucket, freed)
      BY <1>3, SettleKeepsGrants
    <3> HIDE DEF freed
    <3> QED
      BY <3>1, <3>2 DEF SameGrants
  <2>4. \A c \in BucketId : freed[c].granted = bucket[c].granted /\ DOMAIN freed[c] = DOMAIN bucket[c]
    <3>1. \A c \in BucketId : DOMAIN freed[c] = DOMAIN bucket[c]
      BY <1>3 DEF Settle, Buckets, Bucket
    <3> QED
      BY <2>3, <3>1
  <2> HIDE DEF freed, b
  <2>5. \A c \in BucketId : bucket'[c].granted = freed[c].granted
    <3>1. PICK unspent : bucket' = [freed EXCEPT ![b].available = @ - unspent]
      BY <2>2
    <3>2. \A c \in BucketId :
            bucket'[c] = IF c = b THEN [freed[b] EXCEPT !.available = @ - unspent] ELSE freed[c]
      BY <2>1, <2>3, <3>1
    <3>3. DOMAIN freed[b] = {"granted", "available", "reserved", "expires", "created"}
      BY <1>3, <2>1, <2>4 DEF Buckets, Bucket
    <3>4. [freed[b] EXCEPT !.available = @ - unspent].granted = freed[b].granted
      BY <3>3
    <3> QED
      BY <3>2, <3>4
  <2> QED
    BY <2>4, <2>5
<1>8. \A q \in Reference : /\ q \notin R => hold'[q] = hold[q]
                           /\ hold[q].status # "none" => hold'[q].status # "none"
                           /\ hold'[q].allocated = hold[q].allocated
  <2>1. \A q \in Reference : q \notin R => Settled({}, R)[q] = hold[q]
    BY DEF Settled
  <2> QED
    BY <1>1, <1>3, <1>6, <2>1, SettledKeeps
<1>9. Keeps(s)
  <2> HIDE DEF R
  <2> QED
    BY <1>1, <1>2, <1>3, <1>4, <1>7, <1>8, CommitKeeps
<1> QED
  BY <1>2, <1>9 DEF Undisturbed

\* What is settled without the account gives credits back to released
\* reservations only.
LEMMA CommitSettleKeeps ==
  ASSUME Account, RowInv, NEW t \in Tx, NEW s \in Tx, s # t, CommitSettle(t)
  PROVE  Undisturbed(s)
<1> DEFINE C == tx[t].C
           R == tx[t].R
           D == tx[t].D
<1>1. /\ tx[t].op = "settle" /\ tx[t].todo = {} /\ End(t)
      /\ bucket' = Written(t, Settle(tx[t].row, C, R))
      /\ hold' = Reconciled(C, R, D)
      /\ ledger' = Post(ledger, ChargeEntries(C))
      /\ UNCHANGED <<now, account, reversal, review>>
  BY DEF CommitSettle
<1>2. Reads(t) /\ Ends(t) /\ tx[t] \in Transaction
  BY DEF RowInv, RowTypes
<1>3. IInv /\ Funded /\ hold \in Holds /\ bucket \in Buckets
  BY DEF Account, IInv
<1>4. accountLock # t /\ Base(t) = bucket
  <2>1. accountLock # t
    BY <1>1, <1>2 DEF Reads, InAccount
  <2> QED
    BY <1>2, <2>1, BaseOutside
<1>5. /\ C \cup R \cup D \subseteq HeldBy(t) \cap Reserved(hold)
      /\ C \cap R = {} /\ (C \cup R) \cap D = {}
      /\ BucketsOf(C \cup R) \subseteq Locked(t)
      /\ C \in SUBSET Reference /\ R \in SUBSET Reference
  BY <1>1, <1>2 DEF Ends, Known, Transaction
<1> HIDE DEF C, R, D
<1>6. bucket' = Settle(bucket, C, R)
  <2>1. /\ \A b \in Locked(t) : Settle(tx[t].row, C, R)[b] = Settle(bucket, C, R)[b]
        /\ \A b \in BucketId \ Locked(t) : Settle(bucket, C, R)[b] = bucket[b]
    BY <1>2, <1>3, <1>4, <1>5, SettleOfLocked
  <2>2. Settle(bucket, C, R) = [b \in BucketId |-> Settle(bucket, C, R)[b]]
    BY DEF Settle
  <2>3. Written(t, Settle(tx[t].row, C, R)) = [b \in BucketId |-> Settle(bucket, C, R)[b]]
    BY <1>4, <2>1 DEF Written
  <2> QED
    BY <1>1, <2>2, <2>3
<1>7. SameGrants(bucket, bucket')
  BY <1>3, <1>6, SettleKeepsGrants
<1>8. \A b \in BucketId \ Locked(t) :
        bucket[b].granted # 0 \/ accountLock # t => bucket'[b] = bucket[b]
  BY <1>1, <1>3, WrittenElsewhere
<1>9. ASSUME NEW r \in Reference
      PROVE  /\ hold'[r].allocated = hold[r].allocated
             /\ hold'[r].status = IF r \in C THEN "captured"
                                  ELSE IF r \in R THEN "released" ELSE hold[r].status
             /\ r \notin C \cup R \cup D => hold'[r] = hold[r]
  <2>1. /\ Settled(C, R)[r].allocated = hold[r].allocated
        /\ Settled(C, R)[r].status = IF r \in C THEN "captured"
                                     ELSE IF r \in R THEN "released" ELSE hold[r].status
    BY <1>3, <1>5, SettledKeeps
  <2>2. r \notin C \cup R => Settled(C, R)[r] = hold[r]
    BY DEF Settled
  <2>3. CASE r \in D
    <3>1. hold'[r] = [hold[r] EXCEPT !.expires = now + DeferTime] /\ hold[r] \in Hold
      BY <1>1, <1>3, <2>3 DEF Reconciled, Holds
    <3>2. hold'[r].allocated = hold[r].allocated /\ hold'[r].status = hold[r].status
      BY <3>1 DEF Hold
    <3> QED
      BY <1>5, <2>3, <3>2
  <2>4. CASE r \notin D
    <3>1. hold'[r] = Settled(C, R)[r]
      BY <1>1, <2>4 DEF Reconciled
    <3> QED
      BY <2>1, <2>2, <3>1
  <2> QED
    BY <2>3, <2>4
<1>10. \A r \in C \cup R \cup D : hold[r].status = "reserved"
  BY <1>5 DEF Reserved, WithStatus
<1>11. Keeps(s)
  <2>1. \A b \in BucketId : bucket[b].granted # 0 => bucket'[b].granted # 0
    BY <1>7 DEF SameGrants
  <2>2. \A r \in Reference \ HeldBy(t) : hold'[r] = hold[r]
    BY <1>5, <1>9
  <2>3. \A r \in Reference : hold[r].status # "none" =>
          hold'[r].status # "none" /\ hold'[r].allocated = hold[r].allocated
    BY <1>9
  <2> QED
    BY <1>1, <1>3, <1>8, <2>1, <2>2, <2>3, CommitKeeps
<1>12. Refilled \subseteq Refilled'
  <2>1. \A r \in Reference : hold[r].status = "released" =>
          hold'[r].status = "released" /\ hold'[r].allocated = hold[r].allocated
    BY <1>9, <1>10
  <2> QED
    BY <2>1 DEF Refilled
<1>13. ASSUME NEW b \in BucketId
       PROVE  /\ bucket'[b].expires = bucket[b].expires
              /\ bucket'[b].available >= bucket[b].available
              /\ bucket'[b].available > bucket[b].available => b \in Refilled'
  <2> DEFINE n == Allocated(hold, R, b)
  <2>1. n \in Nat
    BY <1>5, AllocatedIsNat
  <2>2. bucket'[b].expires = bucket[b].expires /\ bucket'[b].available = bucket[b].available + n
        /\ bucket[b].available \in Nat
    <3>1. bucket'[b] = [bucket[b] EXCEPT !.reserved = @ - Allocated(hold, C \cup R, b),
                                         !.available = @ + Allocated(hold, R, b)]
      BY <1>6 DEF Settle
    <3>2. bucket[b] \in Bucket
      BY <1>3 DEF Buckets
    <3> QED
      BY <3>1, <3>2 DEF Bucket
  <2>3. n > 0 => b \in Refilled'
    <3> SUFFICES ASSUME b \notin Refilled' PROVE n = 0
      BY <2>1
    <3>1. \A r \in R : hold'[r].status = "released" /\ hold'[r].allocated = hold[r].allocated
      BY <1>5, <1>9
    <3>2. b \notin BucketsOf(R)
      BY <1>5, <3>1 DEF BucketsOf, Refilled
    <3> QED
      BY <1>3, <1>5, <3>2, NothingHeldElsewhere
  <2> HIDE DEF n
  <2> QED
    BY <2>1, <2>2, <2>3
<1>14. \A r \in Reference : /\ hold[r].status = "none" => hold'[r].status = "none"
                            /\ hold'[r].status = "reserved" => hold[r].status = "reserved"
  BY <1>9, <1>10
<1>15. \A a \in Adjustment :
         <<"ADJUSTMENT", a>> \in DOMAIN ledger' => <<"ADJUSTMENT", a>> \in DOMAIN ledger
  BY <1>1 DEF Post, ChargeEntries
<1>16. KeepsAccount
  BY <1>1, <1>7, <1>12, <1>13, <1>14, <1>15 DEF KeepsAccount
<1> QED
  BY <1>11, <1>16 DEF Undisturbed

-----------------------------------------------------------------------------
(* What is one step happens when nobody has the account.                   *)

LEMMA AloneKeeps ==
  ASSUME Account, RowInv, Alone, NEW s \in Tx
  PROVE  Undisturbed(s)
<1>1. accountLock = Nobody /\ UNCHANGED <<locks, tx>>
  BY DEF Alone
<1>2. accountLock # s
  BY <1>1, RowsAssumption
<1>3. Reads(s)
  BY DEF RowInv
<1>4. Base(s) = bucket
  BY <1>2, <1>3, BaseOutside
<1>5. \A b \in Locked(s) : b \in BucketId /\ bucket[b].granted # 0
  BY <1>3, <1>4 DEF Reads, Known, Locked
<1>6. /\ tx'[s] = tx[s] /\ Locked(s)' = Locked(s) /\ HeldBy(s)' = HeldBy(s)
      /\ accountLock' = s <=> accountLock = s
  BY <1>1 DEF locks, Locked, HeldBy
<1>7. now \in Int /\ bucket \in Buckets
  BY DEF Account, IInv
<1>8. \A c, amount, expires : \A b \in BucketId :
        bucket[b].granted # 0 => Grant(bucket, c, amount, expires)[b] = bucket[b]
  BY <1>7 DEF Grant, Buckets
<1>9. /\ hold' = hold /\ now <= now'
      /\ \/ bucket' = bucket
         \/ \E c, amount, expires : bucket' = Grant(bucket, c, amount, expires)
  <2>1. ASSUME NEW r \in Reference, NEW verified \in BOOLEAN, ReserveAgain(r, verified)
        PROVE  hold' = hold /\ now' = now /\ bucket' = WithTrial(bucket, verified)
    BY <2>1 DEF ReserveAgain, Reserve
  <2>2. ASSUME NEW p \in Period, PaymentSucceeded(p)
        PROVE  hold' = hold /\ now' = now
               /\ \E c, amount, expires : bucket' = Grant(bucket, c, amount, expires)
    BY <2>2 DEF PaymentSucceeded
  <2>3. ASSUME NEW a \in Adjustment, Credit(a)
        PROVE  hold' = hold /\ now' = now
               /\ bucket' = Grant(bucket, AdjustmentBucket(a), AdjustmentAmount[a], Never)
    <3>1. ~ (AdjustmentAmount[a] < 0)
      BY <2>3, ConstantsAssumption DEF Credit
    <3> QED
      BY <2>3, <3>1 DEF Credit, Adjust
  <2>4. CASE Tick
    BY <1>7, <2>4 DEF Tick
  <2>5. now <= now
    BY <1>7
  <2> QED
    BY <2>1, <2>2, <2>3, <2>4, <2>5 DEF Alone, WithTrial
<1>10. \A b \in BucketId : bucket[b].granted # 0 => bucket'[b] = bucket[b]
  BY <1>8, <1>9
<1>11. Keeps(s)
  BY <1>5, <1>6, <1>9, <1>10 DEF Keeps
<1> QED
  BY <1>2, <1>11 DEF Undisturbed

LEMMA AloneIsNext == Alone => Next
BY DEF Alone, Next, ReserveAgain, Credit

-----------------------------------------------------------------------------
(* The theorems of the rows.                                               *)

RowsSound == Account /\ RowInv

LEMMA InitRows == RowInit => RowsSound
<1> SUFFICES ASSUME RowInit PROVE RowsSound
  OBVIOUS
<1>1. Account
  BY InitAccount DEF RowInit
<1>2. /\ accountLock = Nobody
      /\ bucketLock = [b \in BucketId |-> Nobody]
      /\ holdLock = [r \in Reference |-> Nobody]
      /\ tx = [t \in Tx |-> NoTx]
  BY DEF RowInit
<1>3. RowTypes
  BY <1>2, NoTransaction DEF RowTypes
<1>4. ASSUME NEW t \in Tx PROVE Reads(t) /\ Selects(t) /\ Ends(t)
  <2>1. tx[t] = NoTx /\ Locked(t) = {} /\ HeldBy(t) = {} /\ accountLock # t
    BY <1>2, RowsAssumption DEF Locked, HeldBy
  <2>2. Known(t) = {} /\ Only(Base(t), Locked(t)) = [b \in BucketId |-> NoBucket]
    BY <2>1, NoTransaction DEF Known, Only
  <2>3. Reads(t)
    BY <2>1, <2>2, NoTransaction DEF Reads, InAccount
  <2>4. Selects(t)
    BY <2>1, NoTransaction DEF Selects
  <2>5. Ends(t)
    BY <2>1, NoTransaction DEF Ends
  <2> QED
    BY <2>3, <2>4, <2>5
<1> QED
  BY <1>1, <1>3, <1>4 DEF RowsSound, RowInv

\* Every statement either changes no row of the account, or is the commit of
\* what one transaction does.
LEMMA RowStep ==
  ASSUME RowsSound, [RowNext]_rowVars
  PROVE  [Next \/ Missing]_vars /\ RowsSound'
<1>1. IInv /\ Funded /\ LedgerIsFunction /\ RowInv /\ Account
  BY DEF RowsSound, Account
<1>2. ASSUME [Next \/ Missing]_vars, IInv' => RowInv'
      PROVE  [Next \/ Missing]_vars /\ RowsSound'
  <2>1. Account'
    BY <1>1, <1>2, AccountStep
  <2> QED
    BY <1>2, <2>1 DEF RowsSound, Account
<1>3. ASSUME UNCHANGED vars, RowInv'
      PROVE  [Next \/ Missing]_vars /\ RowsSound'
  BY <1>2, <1>3
<1>4. ASSUME NEW t \in Tx, Next \/ Missing, End(t), \A s \in Tx \ {t} : Undisturbed(s)
      PROVE  [Next \/ Missing]_vars /\ RowsSound'
  BY <1>1, <1>2, <1>4, CommitInv
<1>5. ASSUME NEW t \in Tx, NEW verified \in BOOLEAN, BeginCreditAccount(t, verified)
      PROVE  [Next \/ Missing]_vars /\ RowsSound'
  <2>1. UNCHANGED vars
    BY <1>5 DEF BeginCreditAccount, Begin
  <2> QED
    BY <1>1, <1>3, <1>5, <2>1, BeginCreditAccountInv
<1>6. ASSUME NEW t \in Tx, NEW r \in Reference, NEW verified \in BOOLEAN, BeginReserve(t, r, verified)
      PROVE  [Next \/ Missing]_vars /\ RowsSound'
  <2>1. UNCHANGED vars
    BY <1>6 DEF BeginReserve, Begin
  <2> QED
    BY <1>1, <1>3, <1>6, <2>1, BeginReserveInv
<1>7. ASSUME NEW t \in Tx,
             BeginPass(t) \/ \E r \in Reference : BeginCapture(t, r) \/ BeginRelease(t, r)
      PROVE  [Next \/ Missing]_vars /\ RowsSound'
  <2>1. UNCHANGED vars
    BY <1>7 DEF BeginPass, BeginCapture, BeginRelease, BeginSettle
  <2> QED
    BY <1>1, <1>3, <1>7, <2>1, BeginSettlesInv
<1>8. ASSUME NEW t \in Tx, NEW r \in Reference, BeginRefund(t, r)
      PROVE  [Next \/ Missing]_vars /\ RowsSound'
  <2>1. UNCHANGED vars
    BY <1>8 DEF BeginRefund
  <2> QED
    BY <1>1, <1>3, <1>8, <2>1, BeginRefundInv
<1>9. ASSUME NEW t \in Tx, NEW p \in Period, NEW amount \in 1 .. PeriodPrice[p],
             BeginReversal(t, p, amount)
      PROVE  [Next \/ Missing]_vars /\ RowsSound'
  <2>1. UNCHANGED vars
    BY <1>9 DEF BeginReversal
  <2> QED
    BY <1>1, <1>3, <1>9, <2>1, BeginReversalInv
<1>10. ASSUME NEW t \in Tx, NEW a \in Adjustment, BeginDebit(t, a)
       PROVE  [Next \/ Missing]_vars /\ RowsSound'
  <2>1. UNCHANGED vars
    BY <1>10 DEF BeginDebit, Begin
  <2> QED
    BY <1>1, <1>3, <1>10, <2>1, BeginDebitInv
<1>11. ASSUME NEW t \in Tx, NEW b \in BucketId, LockBucket(t, b)
       PROVE  [Next \/ Missing]_vars /\ RowsSound'
  <2>1. UNCHANGED vars
    BY <1>11 DEF LockBucket
  <2> QED
    BY <1>1, <1>3, <1>11, <2>1, LockBucketInv
<1>12. ASSUME NEW t \in Tx, NEW r \in Reference, LockHold(t, r)
       PROVE  [Next \/ Missing]_vars /\ RowsSound'
  <2>1. UNCHANGED vars
    BY <1>12 DEF LockHold
  <2> QED
    BY <1>1, <1>3, <1>12, <2>1, LockHoldInv
<1>13. ASSUME NEW t \in Tx, SelectSpendable(t)
       PROVE  [Next \/ Missing]_vars /\ RowsSound'
  <2>1. UNCHANGED vars
    BY <1>13 DEF SelectSpendable
  <2> QED
    BY <1>1, <1>3, <1>13, <2>1, SelectSpendableInv
<1>14. ASSUME NEW t \in Tx, SelectOpenHolds(t)
       PROVE  [Next \/ Missing]_vars /\ RowsSound'
  <2>1. UNCHANGED vars
    BY <1>14 DEF SelectOpenHolds
  <2> QED
    BY <1>1, <1>3, <1>14, <2>1, SelectOpenHoldsInv
<1>15. ASSUME NEW t \in Tx, CommitCreditAccount(t)
       PROVE  [Next \/ Missing]_vars /\ RowsSound'
  <2>1. Missing
    <3>1. \E M \in SUBSET Refilled : CreditAccountMissing(tx[t].verified, M)
      BY <1>1, <1>15, CommitCreditAccountIs
    <3>2. tx[t].verified \in BOOLEAN
      BY <1>1 DEF RowInv, RowTypes, Transaction
    <3> QED
      BY <3>1, <3>2 DEF Missing
  <2>2. End(t)
    BY <1>15 DEF CommitCreditAccount
  <2>3. \A s \in Tx \ {t} : Undisturbed(s)
    BY <1>1, <1>15, CommitCreditAccountKeeps
  <2> QED
    BY <1>4, <2>1, <2>2, <2>3
<1>16. ASSUME NEW t \in Tx, CommitReserve(t)
       PROVE  [Next \/ Missing]_vars /\ RowsSound'
  <2>1. Missing
    <3>1. /\ tx[t].id \in Reference
          /\ \E M \in SUBSET Refilled, N \in SUBSET Refilled :
               ReserveMissing(tx[t].id, tx[t].verified, M, N)
      BY <1>1, <1>16, CommitReserveIs
    <3>2. tx[t].verified \in BOOLEAN
      BY <1>1 DEF RowInv, RowTypes, Transaction
    <3> QED
      BY <3>1, <3>2 DEF Missing
  <2>2. End(t)
    BY <1>16 DEF CommitReserve
  <2>3. \A s \in Tx \ {t} : Undisturbed(s)
    BY <1>1, <1>16, CommitReserveKeeps
  <2> QED
    BY <1>4, <2>1, <2>2, <2>3
<1>17. ASSUME NEW t \in Tx, CommitSettle(t)
       PROVE  [Next \/ Missing]_vars /\ RowsSound'
  <2>1. Next
    BY <1>1, <1>17, CommitSettleIs
  <2>2. End(t)
    BY <1>17 DEF CommitSettle
  <2>3. \A s \in Tx \ {t} : Undisturbed(s)
    BY <1>1, <1>17, CommitSettleKeeps
  <2> QED
    BY <1>4, <2>1, <2>2, <2>3
<1>18. ASSUME NEW t \in Tx, CommitRefund(t)
       PROVE  [Next \/ Missing]_vars /\ RowsSound'
  <2>1. Next
    BY <1>1, <1>18, CommitRefundIs DEF Next
  <2>2. End(t)
    BY <1>18 DEF CommitRefund
  <2>3. \A s \in Tx \ {t} : Undisturbed(s)
    BY <1>1, <1>18, CommitRefundKeeps
  <2> QED
    BY <1>4, <2>1, <2>2, <2>3
<1>19. ASSUME NEW t \in Tx, CommitReversal(t)
       PROVE  [Next \/ Missing]_vars /\ RowsSound'
  <2>1. Next
    BY <1>1, <1>19, CommitReversalIs DEF Next
  <2>2. End(t)
    BY <1>19 DEF CommitReversal
  <2>3. \A s \in Tx \ {t} : Undisturbed(s)
    BY <1>1, <1>19, CommitReversalKeeps
  <2> QED
    BY <1>4, <2>1, <2>2, <2>3
<1>20. ASSUME NEW t \in Tx, CommitDebit(t)
       PROVE  [Next \/ Missing]_vars /\ RowsSound'
  <2>1. Missing
    BY <1>1, <1>20, CommitDebitIs DEF Missing
  <2>2. End(t)
    BY <1>20 DEF CommitDebit
  <2>3. \A s \in Tx \ {t} : Undisturbed(s)
    BY <1>1, <1>20, CommitDebitKeeps
  <2> QED
    BY <1>4, <2>1, <2>2, <2>3
<1>21. ASSUME NEW t \in Tx, Abort(t)
       PROVE  [Next \/ Missing]_vars /\ RowsSound'
  <2>1. UNCHANGED vars
    BY <1>21 DEF Abort
  <2> QED
    BY <1>1, <1>3, <1>21, <2>1, AbortInv
<1>22. CASE Alone
  <2>1. \A t \in Tx : Undisturbed(t)
    BY <1>1, <1>22, AloneKeeps
  <2>2. RowTypes'
    BY <1>1, <1>22 DEF Alone, RowInv, RowTypes, locks
  <2>3. IInv' => RowInv'
    BY <1>1, <2>1, <2>2, OwnStable DEF RowInv, Own
  <2> QED
    BY <1>2, <1>22, <2>3, AloneIsNext
<1>23. CASE UNCHANGED rowVars
  <2>1. UNCHANGED vars /\ UNCHANGED <<accountLock, bucketLock, holdLock, tx>>
    BY <1>23 DEF rowVars, vars
  <2>2. \A t \in Tx : Undisturbed(t)
    BY <1>1, <2>1, QuietStep DEF Locked, HeldBy
  <2>3. RowTypes'
    BY <1>1, <2>1 DEF RowInv, RowTypes
  <2>4. IInv' => RowInv'
    BY <1>1, <2>2, <2>3, OwnStable DEF RowInv, Own
  <2> QED
    BY <1>2, <2>1, <2>4
<1> QED
  BY <1>5, <1>6, <1>7, <1>8, <1>9, <1>10, <1>11, <1>12, <1>13, <1>14, <1>15, <1>16, <1>17, <1>18,
     <1>19, <1>20, <1>21, <1>22, <1>23 DEF RowNext

LEMMA AlwaysRowsSound == RowSpec => []RowsSound
<1>1. RowsSound /\ [RowNext]_rowVars => RowsSound'
  BY RowStep
<1> QED
  BY <1>1, InitRows, PTL DEF RowSpec

\* However many sessions run the transactions of an account, statement by
\* statement under the row locks of product_billing.py, every commit changes
\* the account as one transaction alone would: the lock of the account, of the
\* reservation and of each bucket keep what a session read true until it
\* writes.  Only credits that a release has put back meanwhile can be overlooked.
THEOREM StatementsAreTransactions == RowSpec => RowsAreTransactions
<1>1. RowsSound /\ [RowNext]_rowVars => [Next \/ Missing]_vars
  BY RowStep
<1> QED
  BY <1>1, AlwaysRowsSound, PTL DEF RowSpec, RowsAreTransactions

\* Whatever the interleaving of the statements, and whichever transaction is
\* rolled back: what is reserved of a bucket is held by open reservations, no
\* bucket is worth more than its grant, and a reservation holds its price.
THEOREM AccountIsSoundUnderLocks == RowSpec => []AccountStaysSound
<1>1. RowsSound => AccountStaysSound
  BY IInvImplies DEF RowsSound, Account, Funded, AccountStaysSound
<1> QED
  BY <1>1, AlwaysRowsSound, PTL
=============================================================================
