--------------------------- MODULE MatchingProofs ---------------------------
(***************************************************************************)
(* For all values of the constants: what the components of MCMatching      *)
(* promise.  They share no state, so each has an inductive invariant of    *)
(* its own, and a behaviour is one of the component "part".  In the order  *)
(* of the file:                                                            *)
(*                                                                         *)
(* CatalogueInv: a check that is under way and would list the posting saw  *)
(* it open, or its row has expired by now.                                 *)
(*                                                                         *)
(* AnswerInv: the postings handed on are those of an answer that passed    *)
(* its validation; their order has no gap.                                 *)
(*                                                                         *)
(* RankingInv: the ranking is sorted; scores are built of sums, means and  *)
(* quotients, each monotone in every signal.                               *)
(*                                                                         *)
(* RecommendationInv: a request has read nothing older than its beginning; *)
(* RecommendationBounded: a message is queued or with a worker.            *)
(*                                                                         *)
(* ApplicationInv: a decision that is still up to date was made on the     *)
(* present status, and no two devices have one key.                        *)
(*                                                                         *)
(* ProviderInv, LimiterInv: who has a slot at each command of a call; an   *)
(* entry lasts as long as the lease of the session that renewed it.        *)
(*                                                                         *)
(* StreamInv: audio that is held was recorded after all that was forwarded.*)
(***************************************************************************)
EXTENDS MCMatching, FiniteSetTheorems, FunctionTheorems, SequenceTheorems,
        WellFoundedInduction, NaturalsInduction, TLAPS
-----------------------------------------------------------------------------
(* Finite sets in an order.                                                *)

\* Every set of natural numbers that is not empty has a least element.
LEMMA LeastNat ==
  ASSUME NEW T, T \subseteq Nat, T # {}
  PROVE  \E x \in T : \A y \in T : x <= y
<1> DEFINE R == {ss \in Nat \X Nat : ss[1] < ss[2]}
<1>1. OpToRel(<, Nat) = R
  BY DEF OpToRel
<1>2. IsWellFoundedOn(R, Nat)
  BY <1>1, NatLessThanWellFounded
<1> HIDE DEF R
<1>3. PICK x \in T : \A y \in T : ~ (<<y, x>> \in R)
  BY <1>2, WFMin
<1>4. ASSUME NEW y \in T PROVE x <= y
  <2>1. ~ (<<y, x>> \in R)
    BY <1>3
  <2>2. x \in Nat /\ y \in Nat
    OBVIOUS
  <2>3. ~ (y < x)
    BY <2>1, <2>2 DEF R
  <2> QED
    BY <2>2, <2>3
<1> QED
  BY <1>3, <1>4

StrictOrder(R, S) ==
  /\ \A i \in S : <<i, i>> \notin R
  /\ \A i, j, k \in S : <<i, j>> \in R /\ <<j, k>> \in R => <<i, k>> \in R
  /\ \A i, j \in S : i = j \/ <<i, j>> \in R \/ <<j, i>> \in R

Before(j, R, S) == {i \in S : <<i, j>> \in R}

\* What comes later has more before it.
LEMMA LaterHasMoreBefore ==
  ASSUME NEW S, IsFiniteSet(S), NEW R, StrictOrder(R, S), NEW i \in S, NEW j \in S,
         <<i, j>> \in R
  PROVE  /\ Cardinality(Before(i, R, S)) \in Nat /\ Cardinality(Before(j, R, S)) \in Nat
         /\ Cardinality(Before(i, R, S)) < Cardinality(Before(j, R, S))
<1>1. Before(i, R, S) \subseteq Before(j, R, S)
  BY DEF Before, StrictOrder
<1>2. i \in Before(j, R, S) /\ i \notin Before(i, R, S)
  BY DEF Before, StrictOrder
<1>3. Before(j, R, S) \in SUBSET S /\ Before(i, R, S) \in SUBSET Before(j, R, S)
  BY <1>1 DEF Before
<1> DEFINE B == Before(j, R, S)
           A == Before(i, R, S)
<1> HIDE DEF A, B
<1>4. IsFiniteSet(B)
  BY <1>3, FS_Subset DEF A, B
<1>5. /\ IsFiniteSet(A) /\ Cardinality(A) <= Cardinality(B)
      /\ Cardinality(B) = Cardinality(A) => B = A
  BY <1>3, <1>4, FS_Subset DEF A, B
<1>6. Cardinality(A) \in Nat /\ Cardinality(B) \in Nat /\ A # B
  BY <1>2, <1>4, <1>5, FS_CardinalityType DEF A, B
<1> QED
  BY <1>5, <1>6 DEF A, B

\* Every place is taken, by one element.
LEMMA PlacesAreTaken ==
  ASSUME NEW S, IsFiniteSet(S), NEW R, StrictOrder(R, S)
  PROVE  /\ Cardinality(S) \in Nat
         /\ \A j \in S : Cardinality(Before(j, R, S)) \in 0 .. (Cardinality(S) - 1)
         /\ \A i, j \in S : Cardinality(Before(i, R, S)) = Cardinality(Before(j, R, S)) => i = j
         /\ \A p \in 1 .. Cardinality(S) : \E j \in S : Cardinality(Before(j, R, S)) = p - 1
<1> DEFINE n == Cardinality(S)
           f == [j \in S |-> Cardinality(Before(j, R, S))]
<1>1. n \in Nat
  BY FS_CardinalityType
<1>2. ASSUME NEW j \in S PROVE Cardinality(Before(j, R, S)) \in 0 .. (n - 1)
  <2>1. Before(j, R, S) \in SUBSET S /\ j \notin Before(j, R, S)
    BY DEF Before, StrictOrder
  <2>2. /\ IsFiniteSet(Before(j, R, S)) /\ Cardinality(Before(j, R, S)) <= n
        /\ n = Cardinality(Before(j, R, S)) => S = Before(j, R, S)
    BY <2>1, FS_Subset
  <2>3. Cardinality(Before(j, R, S)) \in Nat
    BY <2>2, FS_CardinalityType
  <2> QED
    BY <1>1, <2>1, <2>2, <2>3
<1>3. ASSUME NEW i \in S, NEW j \in S, Cardinality(Before(i, R, S)) = Cardinality(Before(j, R, S))
      PROVE  i = j
  <2>1. ASSUME NEW x \in S, NEW y \in S, <<x, y>> \in R
        PROVE  Cardinality(Before(x, R, S)) # Cardinality(Before(y, R, S))
    BY <2>1, LaterHasMoreBefore
  <2> QED
    BY <1>3, <2>1 DEF StrictOrder
<1>4. f \in Injection(S, 0 .. (n - 1))
  BY <1>2, <1>3 DEF Injection, IsInjective
<1>5. IsFiniteSet(0 .. (n - 1)) /\ Cardinality(0 .. (n - 1)) = n
  <2>1. 0 \in Int /\ n - 1 \in Int
    BY <1>1
  <2> HIDE DEF n
  <2>2. IsFiniteSet(0 .. (n - 1))
        /\ Cardinality(0 .. (n - 1)) = IF 0 > n - 1 THEN 0 ELSE n - 1 - 0 + 1
    BY <2>1, FS_Interval
  <2> QED
    BY <1>1, <2>2
<1>6. f \in Surjection(S, 0 .. (n - 1))
  <2> HIDE DEF f
  <2>1. Cardinality(S) = Cardinality(0 .. (n - 1))
    BY <1>5
  <2> HIDE DEF n
  <2> QED
    BY <1>4, <1>5, <2>1, FS_Injection
<1>7. ASSUME NEW p \in 1 .. n PROVE \E j \in S : Cardinality(Before(j, R, S)) = p - 1
  <2>1. p - 1 \in 0 .. (n - 1)
    <3> HIDE DEF n
    <3> QED
      BY <1>1
  <2>2. \E j \in S : f[j] = p - 1
    <3> HIDE DEF f, n
    <3> QED
      BY <1>6, <2>1 DEF Surjection
  <2> QED
    BY <2>2
<1> QED
  BY <1>1, <1>2, <1>3, <1>7
-----------------------------------------------------------------------------
(* The catalogue.                                                          *)

Checked == [loaded : Postings \union {Null}, new : Postings \union {Null}, shown : BOOLEAN]
Ruling == [case : Reporters, loaded : {"active", "stale", "expired", "invalid", "unavailable"}]

CatalogueTyped ==
  /\ posting \in Postings \union {Null}
  /\ check \in [Checkers -> Checked \union {Null}]
  /\ checks \in 0 .. MaxChecks /\ scan \in BOOLEAN /\ source \in {"active", "disabled"}
  /\ cases \in [Reporters -> {"none", "open", "dismissed", "resolved"}]
  /\ ruling \in [Moderators -> Ruling \union {Null}]
  /\ instant \in 0 .. LastInstant /\ vouched \in BOOLEAN

\* Only a posting there is can be marked, reported, ruled on or loaded.
AboutAPosting ==
  posting = Null => /\ ~scan
                    /\ \A r \in Reporters : cases[r] = "none"
                    /\ \A m \in Moderators : ruling[m] = Null
                    /\ \A c \in Checkers : check[c] # Null => check[c].loaded = Null

\* What a check is going to write has either been shown by the page or expired already.
WriteIsVouchedFor ==
  \A c \in Checkers : check[c] # Null /\ check[c].new # Null =>
    check[c].shown \/ check[c].new.expires <= instant

CatalogueInv == CatalogueTyped /\ AboutAPosting /\ WriteIsVouchedFor /\ ListedIsVouchedFor

LEMMA CatalogueStarts ==
  ASSUME CatalogueInit
  PROVE  CatalogueInv
<1> USE DEF CatalogueInit
<1>1. CatalogueTyped
  <2>1. LastInstant \in Nat /\ MaxChecks \in Nat
    BY CatalogueAssumption
  <2>2. checks \in 0 .. MaxChecks /\ instant \in 0 .. LastInstant
    <3> 0 \in 0 .. MaxChecks /\ 0 \in 0 .. LastInstant
      BY <2>1
    <3>1. checks = 0 /\ instant = 0
      OBVIOUS
    <3> QED
      BY <3>1
  <2>3. /\ checks \in 0 .. MaxChecks /\ instant \in 0 .. LastInstant
        /\ scan \in BOOLEAN /\ vouched \in BOOLEAN /\ source \in {"active", "disabled"}
    BY <2>2
  <2>4. /\ posting \in Postings \union {Null} /\ check \in [Checkers -> Checked \union {Null}]
        /\ ruling \in [Moderators -> Ruling \union {Null}]
    OBVIOUS
  <2>5. cases \in [Reporters -> {"none", "open", "dismissed", "resolved"}]
    OBVIOUS
  <2> QED
    BY <2>3, <2>4, <2>5 DEF CatalogueTyped
<1>2. AboutAPosting /\ WriteIsVouchedFor /\ ListedIsVouchedFor
  BY DEF AboutAPosting, WriteIsVouchedFor, ListedIsVouchedFor, Listed
<1> QED
  BY <1>1, <1>2 DEF CatalogueInv

\* A page that is verified shows the posting: half of the words of the title, and a third
\* of those of the company, are not none of them.
LEMMA VerifiedIsShown ==
  ASSUME NEW p, Classify(p) = "verified"
  PROVE  ShowsPosting(p)
<1>1. ASSUME NEW words, NEW expected, NEW share \in Nat \ {0},
             IsFiniteSet(expected), expected # {}, Matches(words, expected, share)
      PROVE  expected \intersect words # {}
  <2>1. Cardinality(expected) \in Nat \ {0}
    BY <1>1, FS_CardinalityType, FS_EmptySet
  <2>2. Cardinality(expected \intersect words) * 100 >= share * Cardinality(expected)
    BY <1>1 DEF Matches
  <2>3. share * Cardinality(expected) > 0
    <3> DEFINE n == Cardinality(expected)
    <3>1. n >= 1 /\ share >= 1 /\ n \in Nat
      BY <2>1
    <3> HIDE DEF n
    <3>2. share * n >= 1 * 1
      BY <3>1
    <3>3. share * n \in Nat
      BY <3>1
    <3> QED
      BY <3>2, <3>3 DEF n
  <2> SUFFICES ASSUME expected \intersect words = {} PROVE FALSE
    OBVIOUS
  <2>4. Cardinality(expected \intersect words) = 0
    BY FS_EmptySet
  <2>5. share * Cardinality(expected) \in Nat
    BY <2>1
  <2> QED
    BY <2>2, <2>3, <2>4, <2>5
<1>2. /\ p.code = 200 /\ p.html /\ ~p.closed
      /\ Matches(p.words, Title, 50) /\ Matches(p.words, Company, 34)
  BY DEF Classify
<1>3. Title \intersect p.words # {}
  BY <1>1, <1>2, CatalogueAssumption
<1>4. Company \intersect p.words # {}
  BY <1>1, <1>2, CatalogueAssumption
<1> QED
  BY <1>2, <1>3, <1>4 DEF ShowsPosting

LEMMA WrittenIsTyped ==
  ASSUME NEW i \in Items, NEW outcome, NEW loaded, instant \in 0 .. LastInstant
  PROVE  /\ NewRow(i, outcome, loaded) \in Postings
         /\ outcome # "verified" => NewRow(i, outcome, loaded).expires = instant
<1>1. Minor(i.low) \in {Null} \union Nat
  BY DEF Minor
<1>2. Minor(i.high) \in {Null} \union Nat
  BY DEF Minor
<1>3. StatusFor(outcome) \in {"active", "stale", "expired", "invalid", "unavailable"}
  BY DEF StatusFor
<1>4. /\ Expiry(outcome, loaded) \in 0 .. (LastInstant + Lifetime)
      /\ outcome # "verified" => Expiry(outcome, loaded) = instant
  BY CatalogueAssumption DEF Expiry
<1>5. (outcome = "verified") \in BOOLEAN
  OBVIOUS
<1>6. NewRow(i, outcome, loaded) \in Postings
  BY <1>1, <1>2, <1>3, <1>4, <1>5 DEF NewRow, Postings
<1>7. NewRow(i, outcome, loaded).expires = Expiry(outcome, loaded)
  BY DEF NewRow
<1> QED
  BY <1>4, <1>6, <1>7

\* An UPDATE writes the time always, and leaves a row a row.
LEMMA UpdatedIsTyped ==
  ASSUME NEW k \in Checked, k.new # Null, k.loaded # Null, NEW old \in Postings
  PROVE  Updated(k, old) \in Postings /\ Updated(k, old).expires = k.new.expires
<1> DEFINE u == Updated(k, old)
           Fields == {"place", "mode", "low", "high", "currency", "skills", "status", "verified",
                      "expires"}
<1>1. k.new \in Postings /\ DOMAIN k.new = Fields
  BY DEF Checked, Postings
<1>2. u = [a \in Fields |-> u[a]] /\ \A a \in Fields : u[a] = k.new[a] \/ u[a] = old[a]
  BY <1>1 DEF Updated
<1>3. u["expires"] = k.new["expires"]
  BY <1>1 DEF Updated
<1> HIDE DEF u
<1>4. /\ u.place \in {Null} \union {i.place : i \in Items}
      /\ u.mode \in {i.mode : i \in Items}
      /\ u.low \in {Null} \union Nat
      /\ u.high \in {Null} \union Nat
      /\ u.currency \in {i.currency : i \in Items}
      /\ u.skills \in {i.skills : i \in Items}
      /\ u.status \in {"active", "stale", "expired", "invalid", "unavailable"}
      /\ u.verified \in BOOLEAN /\ u.expires \in 0 .. (LastInstant + Lifetime)
  BY <1>1, <1>2 DEF Postings
<1>5. u = [place |-> u.place, mode |-> u.mode, low |-> u.low, high |-> u.high,
           currency |-> u.currency, skills |-> u.skills, status |-> u.status,
           verified |-> u.verified, expires |-> u.expires]
  BY <1>2
<1>6. u \in Postings
  BY <1>4, <1>5 DEF Postings
<1> QED
  BY <1>3, <1>6 DEF u

\* A check changes its own row.
LEMMA CheckMoves ==
  ASSUME CatalogueInv, NEW c \in Checkers, NEW row \in Checked \union {Null},
         check' = [check EXCEPT ![c] = row], instant' = instant,
         row # Null /\ row.new # Null => row.shown \/ row.new.expires <= instant
  PROVE  /\ WriteIsVouchedFor' /\ check' \in [Checkers -> Checked \union {Null}]
         /\ \A d \in Checkers : check'[d] = IF d = c THEN row ELSE check[d]
<1>1. check \in [Checkers -> Checked \union {Null}]
  BY DEF CatalogueInv, CatalogueTyped
<1>2. check' \in [Checkers -> Checked \union {Null}]
  BY <1>1
<1>3. \A d \in Checkers : check'[d] = IF d = c THEN row ELSE check[d]
  BY <1>1
<1>4. WriteIsVouchedFor'
  BY <1>3 DEF CatalogueInv, WriteIsVouchedFor
<1> QED
  BY <1>2, <1>3, <1>4

LEMMA LoadKeeps ==
  ASSUME CatalogueInv, NEW c \in Checkers, Load(c)
  PROVE  CatalogueInv'
<1> DEFINE row == [loaded |-> posting, new |-> Null, shown |-> FALSE]
<1>1. /\ check' = [check EXCEPT ![c] = row] /\ checks < MaxChecks /\ checks' = checks + 1
      /\ UNCHANGED <<posting, scan, source, cases, ruling, instant, vouched>>
  BY DEF Load
<1>2. row \in Checked /\ row.new = Null /\ row.loaded = posting
  BY DEF Checked, CatalogueInv, CatalogueTyped
<1> HIDE DEF row
<1>3. /\ WriteIsVouchedFor' /\ check' \in [Checkers -> Checked \union {Null}]
      /\ \A d \in Checkers : check'[d] = IF d = c THEN row ELSE check[d]
  BY <1>1, <1>2, CheckMoves
<1>4. checks' \in 0 .. MaxChecks
  BY <1>1, CatalogueAssumption DEF CatalogueInv, CatalogueTyped
<1>5. CatalogueTyped'
  BY <1>1, <1>3, <1>4 DEF CatalogueInv, CatalogueTyped
<1>6. AboutAPosting'
  BY <1>1, <1>2, <1>3 DEF CatalogueInv, AboutAPosting
<1>7. ListedIsVouchedFor'
  BY <1>1 DEF CatalogueInv, ListedIsVouchedFor, Listed
<1> QED
  BY <1>3, <1>5, <1>6, <1>7 DEF CatalogueInv

LEMMA VerifyKeeps ==
  ASSUME CatalogueInv, NEW c \in Checkers, Verify(c)
  PROVE  CatalogueInv'
<1>1. PICK i \in Items, web \in Webs :
        /\ check[c] # Null /\ check[c].new = Null
        /\ check' = [check EXCEPT ![c] =
             IF Refused(web) THEN Null ELSE
               [@ EXCEPT !.new = NewRow(i, Classify(web[Reached(web)]), check[c].loaded),
                         !.shown = ShowsPosting(web[Reached(web)])]]
  BY DEF Verify
<1>2. UNCHANGED <<posting, checks, scan, source, cases, ruling, instant, vouched>>
  BY DEF Verify
<1> DEFINE p == web[Reached(web)]
           new == NewRow(i, Classify(p), check[c].loaded)
           row == [check[c] EXCEPT !.new = new, !.shown = ShowsPosting(p)]
<1>3. check[c] \in Checked /\ instant \in 0 .. LastInstant
  BY <1>1 DEF CatalogueInv, CatalogueTyped
<1>4. /\ new \in Postings /\ (Classify(p) # "verified" => new.expires = instant)
  <2> HIDE DEF p
  <2> QED
    BY <1>3, WrittenIsTyped
<1>5. ShowsPosting(p) \in BOOLEAN /\ (ShowsPosting(p) \/ new.expires <= instant)
  <2>1. ShowsPosting(p) \in BOOLEAN
    BY DEF ShowsPosting
  <2>2. Classify(p) = "verified" => ShowsPosting(p)
    <3> HIDE DEF p
    <3> QED
      BY VerifiedIsShown
  <2> HIDE DEF new, p
  <2> QED
    BY <1>3, <1>4, <2>1, <2>2
<1>6. /\ row \in Checked /\ row.new = new /\ row.shown = ShowsPosting(p)
      /\ row.loaded = check[c].loaded
  <2> HIDE DEF new, p
  <2> QED
    BY <1>3, <1>4, <1>5 DEF Checked
<1>7. \/ check' = [check EXCEPT ![c] = Null]
      \/ check' = [check EXCEPT ![c] = row]
  <2>1. check \in [Checkers -> Checked \union {Null}]
    BY DEF CatalogueInv, CatalogueTyped
  <2> QED
    BY <1>1, <2>1
<1> HIDE DEF new, p, row
<1>8. /\ WriteIsVouchedFor' /\ check' \in [Checkers -> Checked \union {Null}]
      /\ \/ \A d \in Checkers : check'[d] = IF d = c THEN row ELSE check[d]
         \/ \A d \in Checkers : check'[d] = IF d = c THEN Null ELSE check[d]
  BY <1>2, <1>5, <1>6, <1>7, CheckMoves
<1>9. CatalogueTyped'
  BY <1>2, <1>8 DEF CatalogueInv, CatalogueTyped
<1>10. AboutAPosting'
  BY <1>1, <1>2, <1>6, <1>8 DEF CatalogueInv, AboutAPosting
<1>11. ListedIsVouchedFor'
  BY <1>2 DEF CatalogueInv, ListedIsVouchedFor, Listed
<1> QED
  BY <1>8, <1>9, <1>10, <1>11 DEF CatalogueInv

LEMMA CommitKeeps ==
  ASSUME CatalogueInv, NEW c \in Checkers, Commit(c)
  PROVE  CatalogueInv'
<1> DEFINE k == check[c]
<1>1. /\ k \in Checked /\ k.new # Null /\ k.new \in Postings
      /\ k.shown \/ k.new.expires <= instant
      /\ k.shown \in BOOLEAN
  BY DEF Commit, CatalogueInv, CatalogueTyped, WriteIsVouchedFor, Checked
<1>2. /\ check' = [check EXCEPT ![c] = Null]
      /\ UNCHANGED <<checks, scan, source, cases, ruling, instant>>
  BY DEF Commit
<1>3. /\ WriteIsVouchedFor' /\ check' \in [Checkers -> Checked \union {Null}]
      /\ \A d \in Checkers : check'[d] = IF d = c THEN Null ELSE check[d]
  BY <1>2, CheckMoves
<1>4. CASE k.loaded = Null /\ posting # Null
  <2>1. UNCHANGED <<posting, vouched>>
    BY <1>4 DEF Commit
  <2>2. CatalogueTyped'
    BY <1>2, <1>3, <2>1 DEF CatalogueInv, CatalogueTyped
  <2>3. AboutAPosting'
    BY <1>2, <1>3, <2>1 DEF CatalogueInv, AboutAPosting
  <2>4. ListedIsVouchedFor'
    BY <1>2, <2>1 DEF CatalogueInv, ListedIsVouchedFor, Listed
  <2> QED
    BY <1>3, <2>2, <2>3, <2>4 DEF CatalogueInv
<1>5. CASE ~(k.loaded = Null /\ posting # Null)
  <2>1. /\ posting' = IF k.loaded = Null THEN k.new ELSE Updated(k, posting)
        /\ vouched' = k.shown
    BY <1>5 DEF Commit
  <2>2. posting' \in Postings /\ posting'.expires = k.new.expires
    <3>1. CASE k.loaded = Null
      BY <1>1, <2>1, <3>1
    <3>2. CASE k.loaded # Null
      <4>1. posting \in Postings
        BY <3>2 DEF CatalogueInv, CatalogueTyped, AboutAPosting, Commit
      <4> HIDE DEF k
      <4> QED
        BY <1>1, <2>1, <3>2, <4>1, UpdatedIsTyped
    <3> QED
      BY <3>1, <3>2
  <2> HIDE DEF k
  <2>3. posting' # Null
    BY <2>2, RowAssumption
  <2>4. CatalogueTyped'
    BY <1>1, <1>2, <1>3, <2>1, <2>2 DEF CatalogueInv, CatalogueTyped
  <2>5. AboutAPosting'
    BY <2>3 DEF AboutAPosting
  <2>6. ListedIsVouchedFor'
    <3>1. CASE k.shown
      BY <2>1, <3>1 DEF ListedIsVouchedFor
    <3>2. CASE k.new.expires <= instant
      <4>1. posting'.expires \in Nat /\ instant \in Nat
        BY <2>2, CatalogueAssumption DEF Postings, CatalogueInv, CatalogueTyped
      <4>2. ~ (posting'.expires > instant')
        BY <1>2, <2>2, <3>2, <4>1
      <4> QED
        BY <4>2 DEF ListedIsVouchedFor, Listed
    <3> QED
      BY <1>1, <3>1, <3>2
  <2> QED
    BY <1>3, <2>4, <2>5, <2>6 DEF CatalogueInv
<1> QED
  BY <1>4, <1>5


\* A step that leaves the checks and the time alone.
LEMMA OthersKeep ==
  ASSUME CatalogueInv, UNCHANGED <<check, checks, instant>>, CatalogueTyped', AboutAPosting',
         ListedIsVouchedFor'
  PROVE  CatalogueInv'
BY DEF CatalogueInv, WriteIsVouchedFor

\* A decision withdraws the posting there is.
LEMMA StaleIsTyped ==
  ASSUME NEW old \in Postings,
         NEW s \in {"active", "stale", "expired", "invalid", "unavailable"}
  PROVE  [old EXCEPT !.status = s] \in Postings /\ [old EXCEPT !.status = s].status = s
BY DEF Postings

LEMMA StaleKeeps ==
  ASSUME CatalogueInv, ReadStale \/ MarkStale
  PROVE  CatalogueInv'
<1>1. CASE ReadStale
  <2>1. /\ posting # Null /\ scan' = TRUE
        /\ UNCHANGED <<posting, check, checks, source, cases, ruling, instant, vouched>>
    BY <1>1 DEF ReadStale
  <2>2. CatalogueTyped' /\ AboutAPosting' /\ ListedIsVouchedFor'
    BY <2>1 DEF CatalogueInv, CatalogueTyped, AboutAPosting, ListedIsVouchedFor, Listed
  <2> QED
    BY <2>1, <2>2, OthersKeep
<1>2. CASE MarkStale
  <2>1. /\ scan /\ scan' = FALSE /\ vouched' = FALSE
        /\ posting' = [posting EXCEPT !.status = "stale"]
        /\ UNCHANGED <<check, checks, source, cases, ruling, instant>>
    BY <1>2 DEF MarkStale
  <2>2. posting \in Postings
    BY <2>1 DEF CatalogueInv, CatalogueTyped, AboutAPosting
  <2>3. posting' \in Postings /\ posting'.status = "stale"
    BY <2>1, <2>2, StaleIsTyped
  <2>4. CatalogueTyped'
    BY <2>1, <2>3 DEF CatalogueInv, CatalogueTyped
  <2>5. AboutAPosting'
    BY <2>3, RowAssumption DEF AboutAPosting
  <2>6. ListedIsVouchedFor'
    BY <2>3 DEF ListedIsVouchedFor, Listed
  <2> QED
    BY <2>1, <2>4, <2>5, <2>6, OthersKeep
<1> QED
  BY <1>1, <1>2

LEMMA CasesKeep ==
  ASSUME CatalogueInv, NEW r \in Reporters, Report(r) \/ \E m \in Moderators : TakeCase(m, r)
  PROVE  CatalogueInv'
<1>1. CASE Report(r)
  <2>1. /\ posting # Null /\ cases' = [cases EXCEPT ![r] = "open"]
        /\ UNCHANGED <<posting, check, checks, scan, source, ruling, instant, vouched>>
    BY <1>1 DEF Report
  <2>2. CatalogueTyped' /\ AboutAPosting' /\ ListedIsVouchedFor'
    BY <2>1 DEF CatalogueInv, CatalogueTyped, AboutAPosting, ListedIsVouchedFor, Listed
  <2> QED
    BY <2>1, <2>2, OthersKeep
<1>2. ASSUME NEW m \in Moderators, TakeCase(m, r) PROVE CatalogueInv'
  <2> DEFINE row == [case |-> r, loaded |-> posting.status]
  <2>1. /\ cases[r] = "open" /\ ruling' = [ruling EXCEPT ![m] = row]
        /\ UNCHANGED <<posting, check, checks, scan, source, cases, instant, vouched>>
    BY <1>2 DEF TakeCase
  <2>2. posting # Null /\ posting \in Postings
    BY <2>1 DEF CatalogueInv, CatalogueTyped, AboutAPosting
  <2>3. row \in Ruling
    BY <2>2 DEF Ruling, Postings
  <2> HIDE DEF row
  <2>4. CatalogueTyped' /\ AboutAPosting' /\ ListedIsVouchedFor'
    BY <2>1, <2>2, <2>3 DEF CatalogueInv, CatalogueTyped, AboutAPosting, ListedIsVouchedFor, Listed
  <2> QED
    BY <2>1, <2>4, OthersKeep
<1> QED
  BY <1>1, <1>2

LEMMA ResolveKeeps ==
  ASSUME CatalogueInv, NEW m \in Moderators, Resolve(m)
  PROVE  CatalogueInv'
<1>1. PICK ruled \in {"dismiss", "invalidate_job", "disable_source"} :
        /\ ruling[m] # Null
        /\ cases' = [cases EXCEPT ![ruling[m].case] =
                        IF ruled = "dismiss" THEN "dismissed" ELSE "resolved"]
        /\ source' = IF ruled = "disable_source" THEN "disabled" ELSE source
        /\ IF ruled = "invalidate_job" THEN Invalidate(m) ELSE UNCHANGED <<posting, vouched>>
        /\ ruling' = [ruling EXCEPT ![m] = Null]
        /\ UNCHANGED <<check, checks, scan, instant>>
  BY DEF Resolve
<1>2. posting # Null /\ posting \in Postings
  BY <1>1 DEF CatalogueInv, CatalogueTyped, AboutAPosting
<1>3. \/ UNCHANGED <<posting, vouched>>
      \/ posting' = [posting EXCEPT !.status = "unavailable"] /\ vouched' = FALSE
  BY <1>1 DEF Invalidate
<1>4. /\ posting' \in Postings /\ vouched' \in BOOLEAN
      /\ posting' # posting => posting'.status = "unavailable"
      /\ ListedIsVouchedFor'
  <2>1. CASE UNCHANGED <<posting, vouched>>
    BY <1>1, <1>2, <2>1 DEF CatalogueInv, CatalogueTyped, ListedIsVouchedFor, Listed
  <2>2. CASE posting' = [posting EXCEPT !.status = "unavailable"] /\ vouched' = FALSE
    <3>1. posting' \in Postings /\ posting'.status = "unavailable"
      BY <1>2, <2>2, StaleIsTyped
    <3> QED
      BY <2>2, <3>1 DEF ListedIsVouchedFor, Listed
  <2> QED
    BY <1>3, <2>1, <2>2
<1>5. AboutAPosting'
  BY <1>4, RowAssumption DEF AboutAPosting
<1>6. source' \in {"active", "disabled"}
      /\ cases' \in [Reporters -> {"none", "open", "dismissed", "resolved"}]
      /\ ruling' \in [Moderators -> Ruling \union {Null}]
  BY <1>1 DEF CatalogueInv, CatalogueTyped
<1>7. CatalogueTyped'
  BY <1>1, <1>4, <1>6 DEF CatalogueInv, CatalogueTyped
<1> QED
  BY <1>1, <1>4, <1>5, <1>7, OthersKeep

\* What has expired stays so.
LEMMA PassKeeps ==
  ASSUME CatalogueInv, Pass
  PROVE  CatalogueInv'
<1>1. /\ instant < LastInstant /\ instant' = instant + 1
      /\ UNCHANGED <<posting, check, checks, scan, source, cases, ruling, vouched>>
  BY DEF Pass
<1>2. LastInstant \in Nat /\ instant \in Nat /\ instant' \in 0 .. LastInstant
  BY <1>1, CatalogueAssumption DEF CatalogueInv, CatalogueTyped
<1>3. CatalogueTyped' /\ AboutAPosting'
  BY <1>1, <1>2 DEF CatalogueInv, CatalogueTyped, AboutAPosting
<1>4. WriteIsVouchedFor'
  <2> SUFFICES ASSUME NEW c \in Checkers, check[c] # Null, check[c].new # Null,
                      ~ check[c].shown
               PROVE  check[c].new.expires <= instant'
    BY <1>1 DEF WriteIsVouchedFor
  <2>1. check[c].new.expires <= instant
    BY DEF CatalogueInv, WriteIsVouchedFor
  <2>2. check[c].new.expires \in Nat
    BY CatalogueAssumption DEF CatalogueInv, CatalogueTyped, Checked, Postings
  <2> QED
    BY <1>1, <1>2, <2>1, <2>2
<1>5. ListedIsVouchedFor'
  <2> SUFFICES ASSUME Listed' PROVE Listed
    BY <1>1 DEF CatalogueInv, ListedIsVouchedFor
  <2>1. /\ posting # Null /\ posting.status = "active" /\ posting.verified
        /\ posting.expires > instant'
    BY <1>1 DEF Listed
  <2>2. posting.expires \in Nat
    BY <2>1, CatalogueAssumption DEF CatalogueInv, CatalogueTyped, Postings
  <2>3. posting.expires > instant
    BY <1>1, <1>2, <2>1, <2>2
  <2> QED
    BY <2>1, <2>3 DEF Listed
<1> QED
  BY <1>3, <1>4, <1>5 DEF CatalogueInv

LEMMA CatalogueKeeps ==
  ASSUME CatalogueInv, [CatalogueNext]_catalogueVars
  PROVE  CatalogueInv'
<1>1. CASE UNCHANGED catalogueVars
  BY <1>1 DEF catalogueVars, CatalogueInv, CatalogueTyped, AboutAPosting, WriteIsVouchedFor,
              ListedIsVouchedFor, Listed
<1>2. CASE UpdateSource
  <2>1. /\ source' \in {"active", "disabled"}
        /\ UNCHANGED <<posting, check, checks, scan, cases, ruling, instant, vouched>>
    BY <1>2 DEF UpdateSource
  <2>2. CatalogueTyped' /\ AboutAPosting' /\ ListedIsVouchedFor'
    BY <2>1 DEF CatalogueInv, CatalogueTyped, AboutAPosting, ListedIsVouchedFor, Listed
  <2> QED
    BY <2>1, <2>2, OthersKeep
<1> QED
  BY <1>1, <1>2, LoadKeeps, VerifyKeeps, CommitKeeps, StaleKeeps, CasesKeep, ResolveKeeps,
     PassKeeps DEF CatalogueNext

\* SQL's comparisons with NULL, and Python's early returns, mean the same.
LEMMA FiltersMeanTheSame ==
  ASSUME NEW j \in Postings, j.status = "active", NEW f \in Filters, instant \in Nat
  PROVE  Eligible(j, f) <=> ~ Rejected(j, f)
<1>1. /\ f.verified \in BOOLEAN /\ Null \notin f.places
      /\ f.low \in Nat \union {Null} /\ f.high \in Nat \union {Null} /\ Null \notin Int
  BY CatalogueAssumption
<1>2. j.expires \in Nat /\ j.verified \in BOOLEAN
  BY CatalogueAssumption DEF Postings
<1>3. (f.verified => j.verified /\ (j.expires = Null \/ j.expires > instant))
        <=> ~(f.verified /\ (~j.verified \/ (j.expires # Null /\ j.expires <= instant)))
  BY <1>1, <1>2
<1>4. (f.places # {} => j.place # Null /\ j.place \in f.places)
        <=> ~(f.places # {} /\ ~(\E p \in f.places : j.place = p))
  BY <1>1
<1>5. (f.modes # {} => j.mode \in f.modes) <=> ~(f.modes # {} /\ j.mode \notin f.modes)
  OBVIOUS
<1>6. (f.currency # Null => j.currency # Null /\ j.currency = f.currency)
        <=> ~(f.currency # Null /\ j.currency # f.currency)
  OBVIOUS
<1>7. /\ First(j.high, j.low) = Highest(j) /\ First(j.low, j.high) = Lowest(j)
      /\ Highest(j) \in Nat \union {Null} /\ Lowest(j) \in Nat \union {Null}
  BY DEF First, Highest, Lowest, Postings
<1>8. (f.low # Null => First(j.high, j.low) # Null /\ First(j.high, j.low) >= f.low)
        <=> ~(f.low # Null /\ (Highest(j) = Null \/ Highest(j) < f.low))
  <2> DEFINE h == Highest(j)
  <2>1. /\ h \in Nat \union {Null} /\ First(j.high, j.low) = h
    BY <1>7
  <2> HIDE DEF h
  <2>2. (f.low # Null => h # Null /\ h >= f.low) <=> ~(f.low # Null /\ (h = Null \/ h < f.low))
    BY <1>1, <2>1
  <2> QED
    BY <2>1, <2>2 DEF h
<1>9. (f.high # Null => First(j.low, j.high) # Null /\ First(j.low, j.high) <= f.high)
        <=> ~(f.high # Null /\ (Lowest(j) = Null \/ Lowest(j) > f.high))
  <2> DEFINE h == Lowest(j)
  <2>1. /\ h \in Nat \union {Null} /\ First(j.low, j.high) = h
    BY <1>7
  <2> HIDE DEF h
  <2>2. (f.high # Null => h # Null /\ h <= f.high) <=> ~(f.high # Null /\ (h = Null \/ h > f.high))
    BY <1>1, <2>1
  <2> QED
    BY <2>1, <2>2 DEF h
<1> QED
  BY <1>3, <1>4, <1>5, <1>6, <1>8, <1>9 DEF Eligible, Rejected

LEMMA CatalogueInvMeans ==
  ASSUME CatalogueInv
  PROVE  FiltersAgree /\ ListedIsVouchedFor /\ CatalogueTypeOK
<1>1. FiltersAgree
  <2>1. instant \in Nat /\ (posting # Null => posting \in Postings)
    BY CatalogueAssumption DEF CatalogueInv, CatalogueTyped
  <2> QED
    BY <2>1, FiltersMeanTheSame DEF FiltersAgree
<1>2. CatalogueTypeOK
  <2>1. \A c \in Checkers : check[c] = Null \/
          /\ check[c].loaded \in Postings \union {Null}
          /\ check[c].new \in Postings \union {Null}
    BY DEF CatalogueInv, CatalogueTyped, Checked
  <2>2. \A m \in Moderators : ruling[m] = Null \/ ruling[m].case \in Reporters
    BY DEF CatalogueInv, CatalogueTyped, Ruling
  <2> QED
    BY <2>1, <2>2 DEF CatalogueInv, CatalogueTyped, CatalogueTypeOK
<1> QED
  BY <1>1, <1>2 DEF CatalogueInv
-----------------------------------------------------------------------------
(* The answers of the search provider.                                     *)

\* An answer that passed is the one whose postings are handed on.
AnswerInv ==
  /\ attempt \in 0 .. MaxTries /\ (stage = "ask" => attempt < MaxTries)
  /\ stage \in {"ask", "valid", "accepted", "failed"}
  /\ answer = Missing \/ answer \in Answers
  /\ stage \in {"valid", "accepted"} => answer \in Answers /\ Valid(answer)
  /\ accepted = IF stage = "accepted" THEN AcceptedAnswer(answer) ELSE <<>>

LEMMA AnswerStarts ==
  ASSUME AnswerInit
  PROVE  AnswerInv
<1>1. MaxTries \in Nat \ {0}
  BY SearchAnswerAssumption
<1>2. 0 \in 0 .. MaxTries /\ 0 < MaxTries
  BY <1>1
<1> QED
  BY <1>2 DEF AnswerInit, AnswerInv

\* The lists of an answer.
LEMMA AnswerIs ==
  ASSUME NEW a \in Answers
  PROVE  /\ a.jobs \in Seq(Candidates) /\ Len(a.jobs) <= MaxAnswers
         /\ a.citations \in Seq(Links) /\ a.sources \in Seq(Links)
<1>1. ASSUME NEW S, NEW n \in Nat, NEW s \in SeqsUpTo(S, n) PROVE s \in Seq(S) /\ Len(s) <= n
  <2>1. PICK m \in 0 .. n : s \in [1 .. m -> S]
    BY DEF SeqsUpTo
  <2>2. m \in Nat
    OBVIOUS
  <2>3. s \in Seq(S) /\ Len(s) = m
    BY <2>1, <2>2
  <2> QED
    BY <2>1, <2>3
<1>2. /\ a.jobs \in SeqsUpTo(Candidates, MaxAnswers)
      /\ a.citations \in SeqsUpTo(Links, MaxLinks) /\ a.sources \in SeqsUpTo(Links, MaxLinks)
  BY DEF Answers
<1> QED
  BY <1>1, <1>2, SearchAnswerAssumption

\* The postings that are backed, in the order of the answer.
Earlier == {ss \in Nat \X Nat : ss[1] < ss[2]}

LEMMA BackedIs ==
  ASSUME NEW a \in Answers
  PROVE  /\ Backed(a) \subseteq DOMAIN a.jobs /\ Backed(a) \subseteq Nat /\ IsFiniteSet(Backed(a))
         /\ StrictOrder(Earlier, Backed(a))
         /\ \A i \in Backed(a) : {k \in Backed(a) : k < i} = Before(i, Earlier, Backed(a))
<1>1. Backed(a) \subseteq 1 .. Len(a.jobs) /\ Len(a.jobs) \in Nat
  BY AnswerIs DEF Backed
<1>2. IsFiniteSet(1 .. Len(a.jobs))
  BY <1>1, FS_Interval
<1>3. IsFiniteSet(Backed(a))
  BY <1>1, <1>2, FS_Subset
<1> DEFINE B == Backed(a)
<1>4. B \subseteq Nat
  BY <1>1
<1> HIDE DEF B
<1>5. StrictOrder(Earlier, B)
  BY <1>4 DEF StrictOrder, Earlier
<1>6. \A i \in B : {k \in B : k < i} = Before(i, Earlier, B)
  BY <1>4 DEF Before, Earlier
<1> QED
  BY <1>3, <1>4, <1>5, <1>6 DEF B, Backed

\* The n-th of them.
Nth(a, n) == CHOOSE i \in Backed(a) : Cardinality({k \in Backed(a) : k < i}) = n - 1

LEMMA NthIs ==
  ASSUME NEW a \in Answers
  PROVE  /\ Cardinality(Backed(a)) \in Nat
         /\ \A n \in 1 .. Cardinality(Backed(a)) : Nth(a, n) \in Backed(a)
         /\ \A i \in Backed(a) : \E n \in 1 .. Cardinality(Backed(a)) : Nth(a, n) = i
<1> DEFINE B == Backed(a)
<1>1. /\ IsFiniteSet(B) /\ StrictOrder(Earlier, B)
      /\ \A i \in B : {k \in B : k < i} = Before(i, Earlier, B)
  BY BackedIs
<1> HIDE DEF B
<1>2. /\ Cardinality(B) \in Nat
      /\ \A j \in B : Cardinality(Before(j, Earlier, B)) \in 0 .. (Cardinality(B) - 1)
      /\ \A i, j \in B :
           Cardinality(Before(i, Earlier, B)) = Cardinality(Before(j, Earlier, B)) => i = j
      /\ \A p \in 1 .. Cardinality(B) : \E j \in B : Cardinality(Before(j, Earlier, B)) = p - 1
  BY <1>1, PlacesAreTaken
<1>3. ASSUME NEW n \in 1 .. Cardinality(B)
      PROVE  Nth(a, n) \in B /\ Cardinality(Before(Nth(a, n), Earlier, B)) = n - 1
  <2>1. \E j \in B : Cardinality({k \in B : k < j}) = n - 1
    BY <1>1, <1>2
  <2>2. Nth(a, n) \in B /\ Cardinality({k \in B : k < Nth(a, n)}) = n - 1
    BY <2>1 DEF Nth, B
  <2> QED
    BY <1>1, <2>2
<1>4. ASSUME NEW i \in B PROVE \E n \in 1 .. Cardinality(B) : Nth(a, n) = i
  <2> DEFINE c == Cardinality(Before(i, Earlier, B))
  <2>1. c \in 0 .. (Cardinality(B) - 1)
    BY <1>2
  <2>2. c + 1 \in 1 .. Cardinality(B) /\ (c + 1) - 1 = c
    <3> HIDE DEF c
    <3> QED
      BY <1>2, <2>1
  <2>3. Cardinality(Before(Nth(a, c + 1), Earlier, B)) = c /\ Nth(a, c + 1) \in B
    BY <1>3, <2>2
  <2>4. Nth(a, c + 1) = i
    BY <1>2, <2>3
  <2> QED
    BY <2>2, <2>4
<1> QED
  BY <1>2, <1>3, <1>4 DEF B

\* The link a posting gets is that of a piece of evidence.
LEMMA CitedIs ==
  ASSUME NEW a \in Answers, NEW i \in Backed(a)
  PROVE  LET l == CHOOSE l \in Evidence(a) : NormalUrl(l) = NormalUrl(a.jobs[i].link) IN
         /\ l \in Range(a.citations \o a.sources) /\ l.form # "refused"
         /\ l.page = a.jobs[i].link.page
<1> DEFINE l == CHOOSE l \in Evidence(a) : NormalUrl(l) = NormalUrl(a.jobs[i].link)
<1>1. l \in Evidence(a) /\ NormalUrl(l) = NormalUrl(a.jobs[i].link)
  BY DEF Backed
<1> HIDE DEF l
<1>2. l \in Range(a.citations \o a.sources) /\ l.form # "refused"
  BY <1>1 DEF Evidence, Range
<1> QED
  BY <1>1, <1>2 DEF l, NormalUrl

\* What is handed on, posting by posting.
LEMMA AcceptedIs ==
  ASSUME NEW a \in Answers
  PROVE  /\ DOMAIN AcceptedAnswer(a) = 1 .. Cardinality(Backed(a))
         /\ \A n \in 1 .. Cardinality(Backed(a)) :
              /\ AcceptedAnswer(a)[n].salary = a.jobs[Nth(a, n)].salary
              /\ AcceptedAnswer(a)[n].link.page = a.jobs[Nth(a, n)].link.page
              /\ AcceptedAnswer(a)[n].link \in Range(a.citations \o a.sources)
              /\ AcceptedAnswer(a)[n].link.form # "refused"
<1> DEFINE cited(i) == CHOOSE l \in Evidence(a) : NormalUrl(l) = NormalUrl(a.jobs[i].link)
<1>1. AcceptedAnswer(a) = [n \in 1 .. Cardinality(Backed(a)) |->
        [link |-> cited(Nth(a, n)), salary |-> a.jobs[Nth(a, n)].salary]]
  BY DEF AcceptedAnswer, Nth
<1>2. ASSUME NEW n \in 1 .. Cardinality(Backed(a))
      PROVE  /\ cited(Nth(a, n)) \in Range(a.citations \o a.sources)
             /\ cited(Nth(a, n)).form # "refused"
             /\ cited(Nth(a, n)).page = a.jobs[Nth(a, n)].link.page
  <2>1. Nth(a, n) \in Backed(a)
    BY NthIs
  <2> QED
    BY <2>1, CitedIs
<1> HIDE DEF cited
<1> QED
  BY <1>1, <1>2

LEMMA Concatenated ==
  ASSUME NEW S, NEW s \in Seq(S), NEW t \in Seq(S), NEW k \in DOMAIN s
  PROVE  /\ s \o t \in Seq(S) /\ Len(s \o t) = Len(s) + Len(t) /\ Len(s \o t) \in Nat
         /\ k \in 1 .. Len(s \o t) /\ (s \o t)[k] = s[k] /\ DOMAIN (s \o t) = 1 .. Len(s \o t)
<1>1. /\ Len(s) \in Nat /\ Len(t) \in Nat /\ k \in 1 .. Len(s)
      /\ s \o t \in Seq(S) /\ Len(s \o t) = Len(s) + Len(t)
  OBVIOUS
<1>2. k \in 1 .. (Len(s) + Len(t))
  BY <1>1
<1>3. (s \o t)[k] = s[k]
  OBVIOUS
<1> QED
  BY <1>1, <1>2, <1>3

\* A page that is cited is evidence, once: the first link to it is kept.
LEMMA CitedIsBacked ==
  ASSUME NEW a \in Answers, Len(a.citations) + Len(a.sources) <= MaxEvidence,
         NEW i \in DOMAIN a.jobs, NEW k \in DOMAIN a.citations,
         a.citations[k].form # "refused", a.citations[k].page = a.jobs[i].link.page
  PROVE  i \in Backed(a)
<1> DEFINE all == a.citations \o a.sources
           n == Len(all)
           same == {m \in 1 .. n : all[m].form # "refused"
                                     /\ NormalUrl(all[m]) = NormalUrl(a.jobs[i].link)}
<1>1. a.citations \in Seq(Links) /\ a.sources \in Seq(Links)
  BY AnswerIs
<1>2. /\ all \in Seq(Links) /\ n = Len(a.citations) + Len(a.sources) /\ n \in Nat
      /\ k \in 1 .. n /\ all[k] = a.citations[k] /\ DOMAIN all = 1 .. n
  BY <1>1, Concatenated
<1>3. n <= MaxEvidence
  BY <1>2
<1>4. k \in same
  BY <1>2 DEF NormalUrl
<1>5. same \subseteq Nat
  <2>1. same \subseteq 1 .. n
    OBVIOUS
  <2> HIDE DEF same
  <2>2. \A x \in 1 .. n : x \in Nat
    OBVIOUS
  <2> QED
    BY <2>1, <2>2
<1>6. PICK m \in same : \A j \in same : m <= j
  <2> HIDE DEF same
  <2> QED
    BY <1>4, <1>5, LeastNat
<1>7. m \in 1 .. n /\ all[m].form # "refused" /\ NormalUrl(all[m]) = NormalUrl(a.jobs[i].link)
  OBVIOUS
<1>8. ~ \E j \in 1 .. (m - 1) : all[j].form # "refused" /\ NormalUrl(all[j]) = NormalUrl(all[m])
  <2> SUFFICES ASSUME NEW j \in 1 .. (m - 1), all[j].form # "refused",
                      NormalUrl(all[j]) = NormalUrl(all[m])
               PROVE  FALSE
    OBVIOUS
  <2>1. j \in 1 .. n /\ j < m /\ m \in Nat /\ j \in Nat
    <3>1. n \in Nat /\ m \in 1 .. n
      BY <1>2, <1>7
    <3> HIDE DEF n
    <3>2. m \in Nat /\ m <= n
      BY <3>1
    <3>3. j \in Nat /\ 1 <= j /\ j <= m - 1
      BY <3>2
    <3> QED
      BY <3>1, <3>2, <3>3
  <2>2. j \in same
    BY <1>7, <2>1
  <2>3. m <= j
    <3> HIDE DEF same
    <3> QED
      BY <1>6, <2>2
  <2> QED
    BY <2>1, <2>3
<1>9. m <= MaxEvidence
  <2>1. n \in Nat /\ m \in 1 .. n /\ n <= MaxEvidence /\ MaxEvidence \in Nat
    BY <1>2, <1>3, <1>7, SearchAnswerAssumption
  <2> HIDE DEF n
  <2>2. m \in Nat /\ m <= n
    BY <2>1
  <2> QED
    BY <2>1, <2>2
<1>10. all[m] \in Evidence(a)
  BY <1>2, <1>7, <1>8, <1>9 DEF Evidence
<1> HIDE DEF all
<1> QED
  BY <1>7, <1>10 DEF Backed

LEMMA TryKeeps ==
  ASSUME AnswerInv, Try
  PROVE  AnswerInv'
<1>1. PICK a \in Answers \union {Missing}, final \in BOOLEAN :
        /\ stage = "ask" /\ attempt' = attempt + 1
        /\ IF a # Missing /\ Valid(a)
             THEN answer' = a /\ stage' = "valid"
             ELSE /\ stage' = IF (a = Missing /\ final) \/ attempt + 1 = MaxTries
                                THEN "failed" ELSE "ask"
                  /\ UNCHANGED answer
        /\ UNCHANGED accepted
  BY DEF Try
<1>2. attempt \in Nat /\ MaxTries \in Nat /\ attempt < MaxTries
  BY <1>1, SearchAnswerAssumption DEF AnswerInv
<1>3. attempt' \in 0 .. MaxTries /\ (attempt + 1 # MaxTries => attempt' < MaxTries)
  BY <1>1, <1>2
<1>4. accepted' = <<>>
  BY <1>1 DEF AnswerInv
<1>5. CASE a # Missing /\ Valid(a)
  <2>1. /\ answer' = a /\ stage' = "valid" /\ a \in Answers /\ Valid(answer')
    BY <1>1, <1>5
  <2>2. answer' \in Answers
    BY <2>1
  <2> QED
    BY <1>3, <1>4, <2>1, <2>2 DEF AnswerInv
<1>6. CASE ~ (a # Missing /\ Valid(a))
  <2>1. /\ answer' = answer
        /\ \/ stage' = "failed"
           \/ stage' = "ask" /\ attempt + 1 # MaxTries
    BY <1>1, <1>6
  <2> QED
    BY <1>3, <1>4, <2>1 DEF AnswerInv
<1> QED
  BY <1>5, <1>6

\* The second check cannot fail: the first one saw a posting that is backed.
LEMMA AcceptKeeps ==
  ASSUME AnswerInv, Accept
  PROVE  AnswerInv'
<1>1. answer \in Answers /\ Valid(answer) /\ UNCHANGED <<attempt, answer>>
  BY DEF AnswerInv, Accept
<1>2. answer.jobs = <<>> \/ AcceptedAnswer(answer) # <<>>
  <2> SUFFICES ASSUME answer.jobs # <<>>, AcceptedAnswer(answer) = <<>> PROVE FALSE
    OBVIOUS
  <2>1. Backed(answer) # {}
    BY <1>1 DEF Valid
  <2>2. IsFiniteSet(Backed(answer)) /\ Cardinality(Backed(answer)) \in Nat
    BY <1>1, BackedIs, NthIs
  <2>3. 1 \in 1 .. Cardinality(Backed(answer))
    BY <2>1, <2>2, FS_EmptySet
  <2>4. DOMAIN AcceptedAnswer(answer) = 1 .. Cardinality(Backed(answer))
    BY <1>1, AcceptedIs
  <2>5. DOMAIN AcceptedAnswer(answer) = {}
    OBVIOUS
  <2> QED
    BY <2>3, <2>4, <2>5
<1>3. stage' = "accepted" /\ accepted' = AcceptedAnswer(answer)
  BY <1>2 DEF Accept
<1> QED
  BY <1>1, <1>3 DEF AnswerInv

LEMMA AnswerKeeps ==
  ASSUME AnswerInv, [AnswerNext]_searchVars
  PROVE  AnswerInv'
<1>1. CASE UNCHANGED searchVars
  BY <1>1 DEF searchVars, AnswerInv
<1> QED
  BY <1>1, TryKeeps, AcceptKeeps DEF AnswerNext

LEMMA AnswerInvMeans ==
  ASSUME AnswerInv
  PROVE  ProvenanceKept /\ AnswerTypeOK
<1>1. CASE stage # "accepted"
  <2>1. accepted = <<>> /\ DOMAIN accepted = {} /\ Len(accepted) = 0
    BY <1>1 DEF AnswerInv
  <2>2. ProvenanceKept
    BY <1>1, <2>1 DEF AnswerInv, ProvenanceKept
  <2>3. Len(accepted) <= MaxAnswers
    <3>1. Len(accepted) = 0
      BY <2>1
    <3>2. MaxAnswers \in Nat
      BY SearchAnswerAssumption
    <3> QED
      BY <3>1, <3>2
  <2>4. stage \in {"ask", "valid", "accepted", "failed", "inconsistent"}
    BY DEF AnswerInv
  <2> QED
    BY <2>2, <2>3, <2>4 DEF AnswerInv, AnswerTypeOK
<1>2. CASE stage = "accepted"
  <2>1. answer \in Answers /\ Valid(answer) /\ accepted = AcceptedAnswer(answer)
    BY <1>2 DEF AnswerInv
  <2> DEFINE c == Cardinality(Backed(answer))
  <2>2. /\ DOMAIN accepted = 1 .. c
        /\ \A n \in 1 .. c : /\ accepted[n].salary = answer.jobs[Nth(answer, n)].salary
                             /\ accepted[n].link.page = answer.jobs[Nth(answer, n)].link.page
                             /\ accepted[n].link \in Range(answer.citations \o answer.sources)
                             /\ accepted[n].link.form # "refused"
    BY <2>1, AcceptedIs
  <2>3. /\ c \in Nat /\ \A n \in 1 .. c : Nth(answer, n) \in Backed(answer)
        /\ \A i \in Backed(answer) : \E n \in 1 .. c : Nth(answer, n) = i
    BY <2>1, NthIs
  <2>4. Backed(answer) \subseteq DOMAIN answer.jobs /\ IsFiniteSet(Backed(answer))
    BY <2>1, BackedIs
  <2>5. c <= MaxAnswers
    <3>1. /\ DOMAIN answer.jobs = 1 .. Len(answer.jobs) /\ Len(answer.jobs) \in Nat
          /\ Len(answer.jobs) <= MaxAnswers
      BY <2>1, AnswerIs
    <3>2. /\ IsFiniteSet(1 .. Len(answer.jobs))
          /\ Cardinality(1 .. Len(answer.jobs)) = Len(answer.jobs)
      BY <3>1, FS_Interval
    <3>3. c <= Len(answer.jobs)
      BY <2>4, <3>1, <3>2, FS_Subset
    <3> HIDE DEF c
    <3> QED
      BY <2>3, <3>1, <3>3, SearchAnswerAssumption
  <2> HIDE DEF c
  <2>6. AnswerTypeOK
    <3>1. accepted = [n \in 1 .. c |-> accepted[n]]
      BY <2>1, <2>2 DEF AcceptedAnswer
    <3>2. Len(accepted) = c
      BY <2>2, <2>3
    <3> QED
      BY <2>5, <3>2 DEF AnswerInv, AnswerTypeOK
  <2>7. \A n \in DOMAIN accepted :
          /\ accepted[n].link \in Range(answer.citations \o answer.sources)
          /\ accepted[n].link.form # "refused"
          /\ ValidSalary(accepted[n].salary)
    BY <2>1, <2>2, <2>3, <2>4 DEF Valid, ValidJobs
  <2>8. ASSUME Len(answer.citations) + Len(answer.sources) <= MaxEvidence,
               NEW i \in DOMAIN answer.jobs, NEW k \in DOMAIN answer.citations,
               answer.citations[k].form # "refused",
               answer.citations[k].page = answer.jobs[i].link.page
        PROVE  \E n \in DOMAIN accepted : accepted[n].link.page = answer.jobs[i].link.page
    <3>1. i \in Backed(answer)
      BY <2>1, <2>8, CitedIsBacked
    <3>2. PICK n \in 1 .. c : Nth(answer, n) = i
      BY <2>3, <3>1
    <3> QED
      BY <2>2, <3>2
  <2>9. ProvenanceKept
    BY <1>2, <2>7, <2>8 DEF ProvenanceKept
  <2> QED
    BY <2>6, <2>9
<1> QED
  BY <1>1, <1>2
-----------------------------------------------------------------------------
(* Sums.                                                                   *)

\* The sums of the beginnings of s, up to the m-th.
SumsUpTo(m, s, g) == g = [i \in 0 .. m |-> IF i = 0 THEN 0 ELSE g[i - 1] + s[i]]

LEMMA SumsExist ==
  ASSUME NEW s \in Seq(Nat)
  PROVE  \E g : SumsUpTo(Len(s), s, g)
<1> DEFINE n == Len(s)
           T == {m \in 0 .. n : ~ \E g : SumsUpTo(m, s, g)}
<1>1. n \in Nat
  OBVIOUS
<1> HIDE DEF n
<1>2. SUFFICES ASSUME T # {} PROVE FALSE
  <2>1. n \in 0 .. n
    BY <1>1
  <2> QED
    BY <1>1, <2>1 DEF n
<1>3. T \subseteq Nat
  BY <1>1
<1>4. PICK m \in T : \A y \in T : m <= y
  <2> HIDE DEF T
  <2> QED
    BY <1>2, <1>3, LeastNat
<1>5. m \in 0 .. n /\ ~ \E g : SumsUpTo(m, s, g)
  OBVIOUS
<1>6. m # 0
  <2>1. SumsUpTo(0, s, [i \in 0 .. 0 |-> 0])
    BY DEF SumsUpTo
  <2> QED
    BY <1>5, <2>1
<1>7. m - 1 \in 0 .. n /\ ~ (m <= m - 1) /\ m \in Nat
  BY <1>1, <1>5, <1>6
<1>8. PICK g : SumsUpTo(m - 1, s, g)
  BY <1>4, <1>7
<1> DEFINE h == [i \in 0 .. m |-> IF i < m THEN g[i] ELSE g[m - 1] + s[m]]
<1>9. ASSUME NEW i \in 0 .. m
      PROVE  h[i] = IF i = 0 THEN 0 ELSE h[i - 1] + s[i]
  <2>1. g = [k \in 0 .. m - 1 |-> IF k = 0 THEN 0 ELSE g[k - 1] + s[k]]
    BY <1>8 DEF SumsUpTo
  <2>2. CASE i = 0
    <3>1. 0 \in 0 .. m - 1 /\ 0 \in 0 .. m /\ 0 < m
      BY <1>6, <1>7
    <3> QED
      BY <2>1, <2>2, <3>1
  <2>3. CASE i # 0 /\ i < m
    <3>1. /\ i \in 0 .. m - 1 /\ i - 1 \in 0 .. m /\ i - 1 < m
      BY <1>7, <2>3
    <3>2. h[i] = g[i] /\ h[i - 1] = g[i - 1]
      BY <2>3, <3>1
    <3>3. g[i] = g[i - 1] + s[i]
      BY <2>1, <2>3, <3>1
    <3> QED
      BY <2>3, <3>2, <3>3
  <2>4. CASE i = m
    <3>1. m - 1 \in 0 .. m /\ m - 1 < m /\ ~ (m < m) /\ m \in 0 .. m
      BY <1>6, <1>7
    <3>2. h[m] = g[m - 1] + s[m] /\ h[m - 1] = g[m - 1]
      BY <3>1
    <3> QED
      BY <1>6, <2>4, <3>2
  <2>5. i = 0 \/ (i # 0 /\ i < m) \/ i = m
    BY <1>7
  <2> QED
    BY <2>2, <2>3, <2>4, <2>5
<1>10. h = [i \in 0 .. m |-> h[i]]
  OBVIOUS
<1> HIDE DEF h
<1>11. SumsUpTo(m, s, h)
  BY <1>9, <1>10 DEF SumsUpTo
<1> QED
  BY <1>5, <1>11

\* The total is the last of these sums.
LEMMA TotalIs ==
  ASSUME NEW s \in Seq(Nat)
  PROVE  \E g : /\ g \in [0 .. Len(s) -> Nat] /\ g[0] = 0
                /\ \A i \in 1 .. Len(s) : g[i] = g[i - 1] + s[i]
                /\ Total(s) = g[Len(s)]
<1> DEFINE g == CHOOSE g : g = [i \in 0 .. Len(s) |-> IF i = 0 THEN 0 ELSE g[i - 1] + s[i]]
<1>1. g = [i \in 0 .. Len(s) |-> IF i = 0 THEN 0 ELSE g[i - 1] + s[i]]
  BY SumsExist DEF SumsUpTo
<1>2. Total(s) = g[Len(s)]
  BY DEF Total
<1> HIDE DEF g
<1> DEFINE n == Len(s)
<1>3. n \in Nat /\ 0 \in 0 .. n /\ \A i \in 1 .. n : s[i] \in Nat
  OBVIOUS
<1>4. g[0] = 0 /\ \A i \in 1 .. n : g[i] = g[i - 1] + s[i]
  <2>1. \A i \in 1 .. n : i \in 0 .. n /\ i # 0
    BY <1>3
  <2> QED
    BY <1>1, <1>3, <2>1
<1> HIDE DEF n
<1>5. \A i \in 0 .. n : g[i] \in Nat
  <2> DEFINE T == {i \in 0 .. n : g[i] \notin Nat}
  <2>1. SUFFICES ASSUME T # {} PROVE FALSE
    OBVIOUS
  <2>2. T \subseteq Nat
    BY <1>3
  <2>3. PICK i \in T : \A y \in T : i <= y
    <3> HIDE DEF T
    <3> QED
      BY <2>1, <2>2, LeastNat
  <2>4. i \in 0 .. n /\ g[i] \notin Nat
    OBVIOUS
  <2>5. i \in 1 .. n /\ i - 1 \in 0 .. n /\ ~ (i <= i - 1)
    BY <1>3, <1>4, <2>4
  <2>6. g[i - 1] \in Nat
    BY <2>3, <2>5
  <2>7. s[i] \in Nat /\ g[i] = g[i - 1] + s[i]
    BY <1>3, <1>4, <2>5
  <2> DEFINE x == g[i - 1]
             y == s[i]
  <2>8. g[i] = x + y /\ x \in Nat /\ y \in Nat
    BY <2>6, <2>7
  <2> HIDE DEF x, y
  <2>9. x + y \in Nat
    BY <2>8
  <2> QED
    BY <2>4, <2>8, <2>9
<1>6. g = [i \in 0 .. n |-> g[i]]
  BY <1>1 DEF n
<1> QED
  BY <1>2, <1>4, <1>5, <1>6 DEF n

\* What grows at least as fast as the sums ends above the total.
LEMMA TotalIsBelow ==
  ASSUME NEW s \in Seq(Nat), NEW h \in [0 .. Len(s) -> Nat],
         \A i \in 1 .. Len(s) : h[i - 1] + s[i] <= h[i]
  PROVE  Total(s) \in Nat /\ Total(s) <= h[Len(s)]
<1>1. PICK g : /\ g \in [0 .. Len(s) -> Nat] /\ g[0] = 0
               /\ \A i \in 1 .. Len(s) : g[i] = g[i - 1] + s[i]
               /\ Total(s) = g[Len(s)]
  BY TotalIs
<1> DEFINE n == Len(s)
<1>2. n \in Nat /\ n \in 0 .. n /\ 0 \in 0 .. n /\ \A i \in 1 .. n : s[i] \in Nat
  OBVIOUS
<1>3. /\ g \in [0 .. n -> Nat] /\ h \in [0 .. n -> Nat]
      /\ \A i \in 1 .. n : g[i] = g[i - 1] + s[i] /\ h[i - 1] + s[i] <= h[i]
  BY <1>1
<1> HIDE DEF n
<1>4. \A i \in 0 .. n : g[i] <= h[i]
  <2> DEFINE T == {i \in 0 .. n : ~ (g[i] <= h[i])}
  <2>1. SUFFICES ASSUME T # {} PROVE FALSE
    OBVIOUS
  <2>2. T \subseteq Nat
    BY <1>2
  <2>3. PICK i \in T : \A y \in T : i <= y
    <3> HIDE DEF T
    <3> QED
      BY <2>1, <2>2, LeastNat
  <2>4. i \in 0 .. n /\ ~ (g[i] <= h[i])
    OBVIOUS
  <2>5. i # 0
    <3>1. h[0] \in Nat /\ g[0] = 0
      BY <1>1, <1>2, <1>3
    <3> QED
      BY <2>4, <3>1
  <2>6. i \in 1 .. n /\ i - 1 \in 0 .. n /\ ~ (i <= i - 1)
    BY <1>2, <2>4, <2>5
  <2>7. g[i - 1] <= h[i - 1]
    BY <2>3, <2>6
  <2>8. /\ g[i - 1] \in Nat /\ h[i - 1] \in Nat /\ g[i] \in Nat /\ h[i] \in Nat /\ s[i] \in Nat
        /\ g[i] = g[i - 1] + s[i] /\ h[i - 1] + s[i] <= h[i]
    <3>1. g[i - 1] \in Nat /\ g[i] \in Nat
      BY <1>3, <2>4, <2>6
    <3>2. h[i - 1] \in Nat /\ h[i] \in Nat
      BY <1>3, <2>4, <2>6
    <3>3. s[i] \in Nat /\ g[i] = g[i - 1] + s[i] /\ h[i - 1] + s[i] <= h[i]
      BY <1>2, <1>3, <2>6
    <3> QED
      BY <3>1, <3>2, <3>3
  <2> DEFINE x == g[i - 1]
             y == h[i - 1]
             z == s[i]
  <2>9. /\ x \in Nat /\ y \in Nat /\ z \in Nat /\ x <= y
        /\ g[i] = x + z /\ y + z <= h[i] /\ h[i] \in Nat
    BY <2>7, <2>8
  <2> HIDE DEF x, y, z
  <2>10. g[i] <= h[i]
    BY <2>9
  <2> QED
    BY <2>4, <2>10
<1>5. g[n] \in Nat /\ g[n] <= h[n]
  BY <1>2, <1>3, <1>4
<1> QED
  BY <1>1, <1>5 DEF n

\* A sum whose terms are at most c times those of another.
LEMMA TotalScaled ==
  ASSUME NEW c \in Nat, NEW a \in Seq(Nat), NEW b \in Seq(Nat), Len(a) = Len(b),
         \A i \in 1 .. Len(a) : a[i] <= c * b[i]
  PROVE  Total(a) \in Nat /\ Total(b) \in Nat /\ Total(a) <= c * Total(b)
<1>1. PICK g : /\ g \in [0 .. Len(b) -> Nat] /\ g[0] = 0
               /\ \A i \in 1 .. Len(b) : g[i] = g[i - 1] + b[i]
               /\ Total(b) = g[Len(b)]
  BY TotalIs
<1> DEFINE n == Len(a)
           h == [i \in 0 .. n |-> c * g[i]]
<1>2. /\ n \in Nat /\ n \in 0 .. n /\ \A i \in 1 .. n : a[i] \in Nat /\ b[i] \in Nat
      /\ g \in [0 .. n -> Nat]
  BY <1>1
<1>3. h \in [0 .. n -> Nat]
  <2>1. ASSUME NEW i \in 0 .. n PROVE c * g[i] \in Nat
    <3>1. g[i] \in Nat
      BY <1>2
    <3> QED
      BY <3>1
  <2> HIDE DEF n
  <2> QED
    BY <2>1
<1>4. ASSUME NEW i \in 1 .. n PROVE h[i - 1] + a[i] <= h[i]
  <2>1. i \in 0 .. n /\ i - 1 \in 0 .. n
    <3> HIDE DEF n
    <3> QED
      BY <1>2
  <2>2. h[i] = c * g[i] /\ h[i - 1] = c * g[i - 1]
    BY <2>1
  <2>3. g[i] = g[i - 1] + b[i] /\ a[i] <= c * b[i]
    BY <1>1
  <2>4. g[i - 1] \in Nat /\ b[i] \in Nat /\ a[i] \in Nat
    BY <1>2, <2>1
  <2>5. c * (g[i - 1] + b[i]) = c * g[i - 1] + c * b[i]
    BY <2>4
  <2> HIDE DEF h, n
  <2>6. c * g[i - 1] \in Nat /\ c * b[i] \in Nat
    BY <2>4
  <2> DEFINE x == c * g[i - 1]
             y == c * b[i]
  <2>7. h[i - 1] = x /\ h[i] = x + y /\ a[i] <= y /\ x \in Nat /\ y \in Nat
    BY <2>2, <2>3, <2>5, <2>6
  <2> HIDE DEF x, y
  <2> QED
    BY <2>4, <2>7
<1>5. h[n] = c * g[n]
  BY <1>2
<1> HIDE DEF h
<1>6. Total(a) \in Nat /\ Total(a) <= h[n]
  BY <1>3, <1>4, TotalIsBelow
<1>7. Total(b) = g[n] /\ g[n] \in Nat
  BY <1>1, <1>2
<1> QED
  BY <1>5, <1>6, <1>7

LEMMA TotalIsPositive ==
  ASSUME NEW s \in Seq(Nat), s # <<>>, \A i \in 1 .. Len(s) : s[i] # 0
  PROVE  Total(s) \in Nat \ {0}
<1>1. PICK g : /\ g \in [0 .. Len(s) -> Nat] /\ g[0] = 0
               /\ \A i \in 1 .. Len(s) : g[i] = g[i - 1] + s[i]
               /\ Total(s) = g[Len(s)]
  BY TotalIs
<1> DEFINE n == Len(s)
<1>2. n \in Nat /\ n # 0 /\ s[n] \in Nat /\ s[n] # 0 /\ n \in 1 .. n /\ n - 1 \in 0 .. n
  OBVIOUS
<1>3. g[n] = g[n - 1] + s[n] /\ g[n - 1] \in Nat
  BY <1>1, <1>2
<1> HIDE DEF n
<1>4. g[n] \in Nat \ {0}
  BY <1>2, <1>3
<1> QED
  BY <1>1, <1>4 DEF n

-----------------------------------------------------------------------------
(* Shares and means.                                                       *)

LEMMA Divided ==
  ASSUME NEW x \in Nat, NEW y \in Nat, x <= y, NEW d \in Nat \ {0}
  PROVE  x \div d \in Nat /\ y \div d \in Nat /\ x \div d <= y \div d
OBVIOUS

LEMMA DividedIsShare ==
  ASSUME NEW x \in Nat, NEW c \in Nat, NEW d \in Nat \ {0}, x <= c * d
  PROVE  x \div d \in 0 .. c
<1>1. x \div d \in Nat /\ x \div d <= c
  OBVIOUS
<1> QED
  BY <1>1

LEMMA Multiplied ==
  ASSUME NEW c \in Nat, NEW x \in Nat, NEW y \in Nat, x <= y
  PROVE  c * x \in Nat /\ c * y \in Nat /\ c * x <= c * y
OBVIOUS

\* Values and weights.  One list of them is below another with the same weights.
Weighings == (0 .. One) \X (Nat \ {0})

Below(s, t) ==
  /\ s \in Seq(Weighings) /\ t \in Seq(Weighings) /\ Len(s) = Len(t)
  /\ \A i \in 1 .. Len(s) : s[i][2] = t[i][2] /\ s[i][1] <= t[i][1]

LEMMA OneIsBelow ==
  ASSUME NEW x \in 0 .. One, NEW y \in 0 .. One, x <= y, NEW w \in Nat \ {0}
  PROVE  Below(<< <<x, w>> >>, << <<y, w>> >>) /\ << <<x, w>> >> # <<>>
BY DEF Below, Weighings

LEMMA NoneIsBelow == Below(<<>>, <<>>)
BY DEF Below

LEMMA JoinedIsBelow ==
  ASSUME NEW s, NEW t, Below(s, t), NEW u, NEW v, Below(u, v)
  PROVE  Below(s \o u, t \o v) /\ (s # <<>> => s \o u # <<>>)
<1>1. /\ s \in Seq(Weighings) /\ t \in Seq(Weighings) /\ u \in Seq(Weighings)
      /\ v \in Seq(Weighings) /\ Len(s) = Len(t) /\ Len(u) = Len(v)
  BY DEF Below
<1>2. /\ s \o u \in Seq(Weighings) /\ t \o v \in Seq(Weighings)
      /\ Len(s \o u) = Len(s) + Len(u) /\ Len(t \o v) = Len(s) + Len(u)
  BY <1>1
<1>3. ASSUME NEW i \in 1 .. (Len(s) + Len(u))
      PROVE  (s \o u)[i][2] = (t \o v)[i][2] /\ (s \o u)[i][1] <= (t \o v)[i][1]
  <2>1. CASE i <= Len(s)
    <3>1. i \in 1 .. Len(s) /\ (s \o u)[i] = s[i] /\ (t \o v)[i] = t[i]
      BY <1>1, <2>1
    <3> QED
      BY <3>1 DEF Below
  <2>2. CASE ~ (i <= Len(s))
    <3>1. /\ i - Len(s) \in 1 .. Len(u)
          /\ (s \o u)[i] = u[i - Len(s)] /\ (t \o v)[i] = v[i - Len(s)]
      BY <1>1, <2>2
    <3> QED
      BY <3>1 DEF Below
  <2> QED
    BY <2>1, <2>2
<1>4. s # <<>> => s \o u # <<>>
  BY <1>1, <1>2
<1> QED
  BY <1>2, <1>3, <1>4 DEF Below

\* The mean of values that are lower is not higher, and the mean of shares is one.
LEMMA WeightedIs ==
  ASSUME NEW s, NEW t, Below(s, t), s # <<>>
  PROVE  Weighted(s) \in 0 .. One /\ Weighted(t) \in 0 .. One /\ Weighted(s) <= Weighted(t)
<1> DEFINE n == Len(s)
           vs == [i \in 1 .. n |-> s[i][1] * s[i][2]]
           vt == [i \in 1 .. n |-> t[i][1] * t[i][2]]
           w == [i \in 1 .. n |-> s[i][2]]
<1>1. /\ n \in Nat /\ n # 0 /\ One \in Nat
      /\ DOMAIN s = 1 .. n /\ DOMAIN t = 1 .. n
  BY RankingAssumption DEF Below
<1>2. ASSUME NEW i \in 1 .. n
      PROVE  /\ s[i][1] \in 0 .. One /\ t[i][1] \in 0 .. One /\ s[i][2] \in Nat \ {0}
             /\ t[i][2] = s[i][2] /\ s[i][1] <= t[i][1]
  <2>1. s[i] \in Weighings /\ t[i] \in Weighings
    BY DEF Below
  <2> QED
    BY <2>1 DEF Below, Weighings
<1>3. ASSUME NEW i \in 1 .. n
      PROVE  /\ vs[i] \in Nat /\ vt[i] \in Nat /\ w[i] \in Nat /\ w[i] # 0
             /\ vs[i] <= 1 * vt[i] /\ vs[i] <= One * w[i] /\ vt[i] <= One * w[i]
  <2> DEFINE x == s[i][1]
             y == t[i][1]
             k == s[i][2]
  <2>1. vs[i] = x * k /\ vt[i] = y * k /\ w[i] = k
    BY <1>2
  <2>2. /\ x \in Nat /\ y \in Nat /\ k \in Nat /\ k # 0 /\ x <= y /\ x <= One /\ y <= One
    BY <1>1, <1>2
  <2> HIDE DEF x, y, k, vs, vt, w
  <2>3. /\ k * x \in Nat /\ k * y \in Nat /\ k * One \in Nat
        /\ k * x <= k * y /\ k * x <= k * One /\ k * y <= k * One
    BY <1>1, <2>2, Multiplied
  <2>4. k * x = x * k /\ k * y = y * k /\ k * One = One * k
    BY <1>1, <2>2
  <2> QED
    BY <2>1, <2>2, <2>3, <2>4
<1>4. /\ vs \in Seq(Nat) /\ vt \in Seq(Nat) /\ w \in Seq(Nat)
      /\ Len(vs) = n /\ Len(vt) = n /\ Len(w) = n
  <2>1. ASSUME NEW f, f = [i \in 1 .. n |-> f[i]], \A i \in 1 .. n : f[i] \in Nat
        PROVE  f \in Seq(Nat) /\ Len(f) = n
    <3> HIDE DEF n
    <3> QED
      BY <1>1, <2>1
  <2>2. vs = [i \in 1 .. n |-> vs[i]] /\ vt = [i \in 1 .. n |-> vt[i]]
    OBVIOUS
  <2>3. w = [i \in 1 .. n |-> w[i]]
    OBVIOUS
  <2> HIDE DEF vs, vt, w
  <2> QED
    BY <1>3, <2>1, <2>2, <2>3
<1>5. Weighted(s) = Total(vs) \div Total(w)
  BY <1>1 DEF Weighted
<1>6. Weighted(t) = Total(vt) \div Total(w)
  <2>1. [i \in DOMAIN t |-> t[i][2]] = w
    BY <1>1, <1>2
  <2>2. [i \in DOMAIN t |-> t[i][1] * t[i][2]] = vt
    BY <1>1
  <2> QED
    BY <2>1, <2>2 DEF Weighted
<1> HIDE DEF vs, vt, w, n
<1>7. Total(vs) \in Nat /\ Total(vt) \in Nat /\ Total(vs) <= 1 * Total(vt)
  BY <1>3, <1>4, TotalScaled
<1>8. Total(vs) <= One * Total(w) /\ Total(vt) <= One * Total(w)
  BY <1>1, <1>3, <1>4, TotalScaled
<1>9. Total(w) \in Nat \ {0}
  <2>1. w # <<>>
    BY <1>1, <1>4
  <2> QED
    BY <1>3, <1>4, <2>1, TotalIsPositive
<1>10. Weighted(s) \in 0 .. One /\ Weighted(t) \in 0 .. One
  BY <1>1, <1>5, <1>6, <1>7, <1>8, <1>9, DividedIsShare
<1>11. Weighted(s) <= Weighted(t)
  <2>1. Total(vs) <= Total(vt)
    BY <1>7
  <2> QED
    BY <1>5, <1>6, <1>7, <1>9, <2>1, Divided
<1> QED
  BY <1>10, <1>11

\* The share of a part is one, and a larger part is a larger share.
LEMMA ShareIs ==
  ASSUME NEW whole, IsFiniteSet(whole), NEW b \in SUBSET whole, NEW a \in SUBSET b
  PROVE  /\ Share(a, whole) \in 0 .. One /\ Share(b, whole) \in 0 .. One
         /\ Share(a, whole) <= Share(b, whole)
<1> DEFINE n == Cardinality(whole)
           ca == Cardinality(a)
           cb == Cardinality(b)
           d == GreaterOf(n, 1)
<1>1. n \in Nat /\ ca \in Nat /\ cb \in Nat /\ ca <= cb /\ cb <= n
  <2>1. IsFiniteSet(b) /\ cb <= n
    BY FS_Subset
  <2>2. IsFiniteSet(a) /\ ca <= cb
    BY <2>1, FS_Subset
  <2> QED
    BY <2>1, <2>2, FS_CardinalityType
<1>2. Share(a, whole) = (One * ca) \div d /\ Share(b, whole) = (One * cb) \div d
  BY DEF Share
<1> HIDE DEF n, ca, cb
<1>3. d \in Nat \ {0} /\ ca <= d /\ cb <= d
  BY <1>1 DEF GreaterOf
<1>4. One \in Nat
  BY RankingAssumption
<1> HIDE DEF d
<1>5. /\ One * ca \in Nat /\ One * cb \in Nat /\ One * ca <= One * cb
      /\ One * ca <= One * d /\ One * cb <= One * d
  BY <1>1, <1>3, <1>4, Multiplied
<1>6. Share(a, whole) <= Share(b, whole)
  BY <1>2, <1>3, <1>5, Divided
<1>7. Share(a, whole) \in 0 .. One /\ Share(b, whole) \in 0 .. One
  BY <1>2, <1>3, <1>4, <1>5, DividedIsShare
<1> QED
  BY <1>6, <1>7

\* The mean of the interview scores is a share.
LEMMA ReadinessIs ==
  ASSUME NEW s \in Seq(Nat)
  PROVE  Readiness(s) \in 0 .. One
<1>1. One \in Nat
  BY RankingAssumption
<1>2. CASE s = <<>>
  BY <1>1, <1>2 DEF Readiness
<1>3. CASE s # <<>>
  <2>1. PICK scale \in {1, 5, 10, 100} :
          Readiness(s)
            = Total([i \in DOMAIN s |-> LesserOf(One, (One * s[i]) \div scale)]) \div Len(s)
    BY <1>3 DEF Readiness
  <2> DEFINE n == Len(s)
             v == [i \in 1 .. n |-> LesserOf(One, (One * s[i]) \div scale)]
             h == [i \in 0 .. n |-> One * i]
  <2>2. n \in Nat \ {0} /\ DOMAIN s = 1 .. n
    BY <1>3
  <2>3. ASSUME NEW i \in 1 .. n PROVE v[i] \in Nat /\ v[i] <= One
    <3>1. s[i] \in Nat /\ scale \in Nat \ {0}
      OBVIOUS
    <3>2. One * s[i] \in Nat
      BY <1>1, <3>1
    <3>3. (One * s[i]) \div scale \in Nat
      BY <3>1, <3>2
    <3>4. LesserOf(One, (One * s[i]) \div scale) \in Nat
          /\ LesserOf(One, (One * s[i]) \div scale) <= One
      BY <1>1, <3>3 DEF LesserOf
    <3> QED
      BY <3>4
  <2>4. v = [i \in 1 .. n |-> v[i]]
    OBVIOUS
  <2>5. Readiness(s) = Total(v) \div n
    BY <2>1, <2>2
  <2> HIDE DEF v, n
  <2>6. v \in Seq(Nat) /\ Len(v) = n
    BY <2>2, <2>3, <2>4
  <2>7. ASSUME NEW i \in 0 .. n PROVE One * i \in Nat
    <3>1. i \in Nat
      BY <2>2
    <3> QED
      BY <1>1, <3>1
  <2>8. h \in [0 .. n -> Nat] /\ h[n] = One * n
    BY <2>2, <2>7
  <2>9. ASSUME NEW i \in 1 .. n PROVE h[i - 1] + v[i] <= h[i]
    <3> HIDE DEF h
    <3>1. i \in 0 .. n /\ i - 1 \in 0 .. n /\ i \in Nat /\ i - 1 \in Nat
      BY <2>2
    <3> USE DEF h
    <3>2. h[i] = One * i /\ h[i - 1] = One * (i - 1)
      BY <3>1
    <3>3. One * i = One * (i - 1) + One
      BY <1>1, <3>1
    <3>4. One * (i - 1) \in Nat
      BY <1>1, <3>1
    <3> HIDE DEF h
    <3> DEFINE x == One * (i - 1)
    <3>5. h[i - 1] = x /\ h[i] = x + One /\ x \in Nat /\ v[i] \in Nat /\ v[i] <= One
      BY <2>3, <3>2, <3>3, <3>4
    <3> HIDE DEF x
    <3> QED
      BY <1>1, <3>5
  <2>10. Total(v) \in Nat /\ Total(v) <= One * n
    <3> HIDE DEF h
    <3> HIDE DEF v
    <3>1. h \in [0 .. Len(v) -> Nat] /\ \A i \in 1 .. Len(v) : h[i - 1] + v[i] <= h[i]
      <4>1. h \in [0 .. n -> Nat] /\ \A i \in 1 .. n : h[i - 1] + v[i] <= h[i]
        BY <2>8, <2>9
      <4>2. Len(v) = n
        BY <2>6
      <4> HIDE DEF n
      <4> QED
        BY <4>1, <4>2
    <3>2. Total(v) \in Nat /\ Total(v) <= h[Len(v)]
      BY <2>6, <3>1, TotalIsBelow, ZenonT(60)
    <3> QED
      BY <2>6, <2>8, <3>2
  <2> QED
    BY <1>1, <2>2, <2>5, <2>10, DividedIsShare
<1> QED
  BY <1>2, <1>3

-----------------------------------------------------------------------------
(* The score.                                                              *)

\* What the retrievals leave: a typed index and a typed profile.
Indexed ==
  /\ offer \in [Pool -> Signals]
  /\ profile \in Profiles \union {Visitor}

LEMMA KnownIs ==
  ASSUME Indexed
  PROVE  /\ IsFiniteSet(profile.preferences) /\ profile.interview \in Seq(Nat)
         /\ One \in Nat \ {0} /\ Pool \subseteq Nat /\ IsFiniteSet(Pool)
         /\ \A j \in Pool : /\ offer[j].query \in 0 .. One /\ offer[j].source \in 0 .. One
                           /\ Freshness[offer[j].age] \in 0 .. One
                           /\ IsFiniteSet(offer[j].skills)
<1>1. IsFiniteSet(profile.preferences) /\ profile.interview \in Seq(Nat)
  <2>1. CASE profile \in Profiles
    BY <2>1, RankingAssumption
  <2>2. CASE profile = Visitor
    BY <2>2, FS_EmptySet DEF Visitor
  <2> QED
    BY <2>1, <2>2 DEF Indexed
<1>2. ASSUME NEW j \in Pool
      PROVE  /\ offer[j].query \in 0 .. One /\ offer[j].source \in 0 .. One
             /\ Freshness[offer[j].age] \in 0 .. One /\ IsFiniteSet(offer[j].skills)
  <2>1. offer[j] \in Signals
    BY DEF Indexed
  <2>2. /\ offer[j].query \in 0 .. One /\ offer[j].source \in 0 .. One
        /\ offer[j].age \in DOMAIN Freshness /\ IsFiniteSet(offer[j].skills)
    BY <2>1, RankingAssumption
  <2> QED
    BY <2>2, RankingAssumption
<1> QED
  BY <1>1, <1>2, RankingAssumption

LEMMA OverlapIs ==
  ASSUME Indexed, NEW j \in Pool
  PROVE  Overlap(j) \in 0 .. One
<1>1. IsFiniteSet(offer[j].skills)
  BY KnownIs
<1>2. offer[j].skills \intersect profile.skills \in SUBSET offer[j].skills
  OBVIOUS
<1> QED
  BY <1>1, <1>2, ShareIs DEF Overlap

\* A posting that meets more of the preferences has the larger share of them.
LEMMA PreferenceIs ==
  ASSUME Indexed, NEW i \in Pool, NEW j \in Pool, Met(j) \subseteq Met(i)
  PROVE  /\ PreferenceMatch(i) \in 0 .. One /\ PreferenceMatch(j) \in 0 .. One
         /\ PreferenceMatch(j) <= PreferenceMatch(i)
<1>1. IsFiniteSet(profile.preferences)
  BY KnownIs
<1>2. Met(i) \in SUBSET profile.preferences /\ Met(j) \in SUBSET Met(i)
  BY DEF Met
<1> QED
  BY <1>1, <1>2, ShareIs DEF PreferenceMatch

\* The fit of a posting follows its overlap and whether it is of the wanted role.
LEMMA FitIs ==
  ASSUME Indexed, NEW i \in Pool, NEW j \in Pool, Met(j) \subseteq Met(i),
         Overlap(j) <= Overlap(i)
  PROVE  /\ SupportedFit(i) \in 0 .. One /\ SupportedFit(j) \in 0 .. One
         /\ SupportedFit(j) <= SupportedFit(i)
<1> DEFINE r == Readiness(profile.interview)
           x == GreaterOf(Overlap(j), IF "role" \in Met(j) THEN One ELSE 0)
           y == GreaterOf(Overlap(i), IF "role" \in Met(i) THEN One ELSE 0)
<1>1. One \in Nat \ {0}
  BY KnownIs
<1>2. r \in 0 .. One
  BY KnownIs, ReadinessIs
<1>3. x \in 0 .. One /\ y \in 0 .. One /\ x <= y
  <2>1. Overlap(i) \in 0 .. One /\ Overlap(j) \in 0 .. One
    BY OverlapIs
  <2>2. "role" \in Met(j) => "role" \in Met(i)
    OBVIOUS
  <2> QED
    BY <1>1, <2>1, <2>2 DEF GreaterOf
<1>4. SupportedFit(i) = (r * y) \div One /\ SupportedFit(j) = (r * x) \div One
  BY DEF SupportedFit
<1> HIDE DEF r, x, y
<1>5. /\ r * x \in Nat /\ r * y \in Nat /\ r * x <= r * y
      /\ r * y <= r * One
  BY <1>1, <1>2, <1>3, Multiplied
<1>6. One * r <= One * One /\ r * One = One * r /\ One * One \in Nat
  BY <1>1, <1>2, Multiplied
<1>7. r * x <= One * One /\ r * y <= One * One
  <2> DEFINE a == r * x
             b == r * y
             c == r * One
             d == One * One
             e == One * r
  <2>1. a \in Nat /\ b \in Nat /\ a <= b /\ b <= c /\ e <= d /\ c = e /\ d \in Nat
    BY <1>5, <1>6
  <2>2. c \in Nat
    BY <1>1, <1>2
  <2> HIDE DEF a, b, c, d, e
  <2>3. a <= d /\ b <= d
    BY <2>1, <2>2
  <2> QED
    BY <2>3 DEF a, b, d
<1>8. (r * x) \div One <= (r * y) \div One
  BY <1>1, <1>5, Divided
<1>9. (r * x) \div One \in 0 .. One /\ (r * y) \div One \in 0 .. One
  BY <1>1, <1>5, <1>7, DividedIsShare
<1> QED
  BY <1>4, <1>8, <1>9

\* The inputs of the mean come and go together for two postings that both name skills, or
\* both name none.
LEMMA RerankIs ==
  ASSUME Indexed, NEW i \in Pool, NEW j \in Pool, Met(j) \subseteq Met(i),
         Overlap(j) <= Overlap(i), offer[j].query <= offer[i].query,
         (offer[i].skills = {}) = (offer[j].skills = {})
  PROVE  Rerank(i) \in 0 .. One /\ Rerank(j) \in 0 .. One /\ Rerank(j) <= Rerank(i)
<1> DEFINE Q(k) == << <<offer[k].query, 35>> >>
           S(k) == IF offer[k].skills # {} /\ profile.skills # {}
                   THEN << <<Overlap(k), 35>> >> ELSE <<>>
           P(k) == IF profile.preferences # {} THEN << <<PreferenceMatch(k), 20>> >> ELSE <<>>
           F(k) == IF profile.interview # <<>> THEN << <<SupportedFit(k), 10>> >> ELSE <<>>
<1>1. Below(Q(j), Q(i)) /\ Q(j) # <<>>
  <2>1. offer[j].query \in 0 .. One /\ offer[i].query \in 0 .. One
    BY KnownIs
  <2>2. 35 \in Nat \ {0}
    OBVIOUS
  <2> QED
    BY <2>1, <2>2, OneIsBelow
<1>2. Below(S(j), S(i))
  <2>1. Below(<< <<Overlap(j), 35>> >>, << <<Overlap(i), 35>> >>)
    <3>1. Overlap(j) \in 0 .. One /\ Overlap(i) \in 0 .. One
      BY OverlapIs
    <3>2. 35 \in Nat \ {0}
      OBVIOUS
    <3> QED
      BY <3>1, <3>2, OneIsBelow
  <2>2. CASE offer[j].skills # {} /\ profile.skills # {}
    <3>1. offer[i].skills # {} /\ profile.skills # {}
      BY <2>2
    <3>2. S(i) = << <<Overlap(i), 35>> >> /\ S(j) = << <<Overlap(j), 35>> >>
      BY <2>2, <3>1
    <3> QED
      BY <2>1, <3>2
  <2>3. CASE ~ (offer[j].skills # {} /\ profile.skills # {})
    <3>1. ~ (offer[i].skills # {} /\ profile.skills # {})
      BY <2>3
    <3>2. S(i) = <<>> /\ S(j) = <<>>
      BY <2>3, <3>1
    <3> QED
      BY NoneIsBelow, <3>2
  <2> QED
    BY <2>2, <2>3
<1>3. Below(P(j), P(i))
  <2>1. PreferenceMatch(j) \in 0 .. One /\ PreferenceMatch(i) \in 0 .. One
        /\ PreferenceMatch(j) <= PreferenceMatch(i)
    BY PreferenceIs
  <2>2. 20 \in Nat \ {0}
    OBVIOUS
  <2>3. Below(<< <<PreferenceMatch(j), 20>> >>, << <<PreferenceMatch(i), 20>> >>)
    BY <2>1, <2>2, OneIsBelow
  <2> QED
    BY <2>3, NoneIsBelow
<1>4. Below(F(j), F(i))
  <2>1. SupportedFit(j) \in 0 .. One /\ SupportedFit(i) \in 0 .. One
        /\ SupportedFit(j) <= SupportedFit(i)
    BY FitIs
  <2>2. 10 \in Nat \ {0}
    OBVIOUS
  <2>3. Below(<< <<SupportedFit(j), 10>> >>, << <<SupportedFit(i), 10>> >>)
    BY <2>1, <2>2, OneIsBelow
  <2> QED
    BY <2>3, NoneIsBelow
<1>5. Rerank(i) = Weighted(Q(i) \o S(i) \o P(i) \o F(i))
      /\ Rerank(j) = Weighted(Q(j) \o S(j) \o P(j) \o F(j))
  BY DEF Rerank
<1> DEFINE qj == Q(j)
           sj == S(j)
           pj == P(j)
           fj == F(j)
           qi == Q(i)
           si == S(i)
           pi == P(i)
           fi == F(i)
<1>6. /\ Below(qj, qi) /\ qj # <<>> /\ Below(sj, si) /\ Below(pj, pi) /\ Below(fj, fi)
      /\ Rerank(i) = Weighted(qi \o si \o pi \o fi)
      /\ Rerank(j) = Weighted(qj \o sj \o pj \o fj)
  BY <1>1, <1>2, <1>3, <1>4, <1>5
<1> HIDE DEF qj, sj, pj, fj, qi, si, pi, fi
<1>7. Below(qj \o sj, qi \o si) /\ qj \o sj # <<>>
  BY <1>6, JoinedIsBelow
<1>8. Below(qj \o sj \o pj, qi \o si \o pi) /\ qj \o sj \o pj # <<>>
  BY <1>6, <1>7, JoinedIsBelow
<1>9. Below(qj \o sj \o pj \o fj, qi \o si \o pi \o fi) /\ qj \o sj \o pj \o fj # <<>>
  BY <1>6, <1>8, JoinedIsBelow
<1> QED
  BY <1>6, <1>9, WeightedIs

\* The fusion of two ranks is a share.
LEMMA FusionIs ==
  ASSUME Indexed, lexical \in Lists, vector \in Lists, NEW j \in Pool
  PROVE  Fusion(j) \in 0 .. One
<1>1. One \in Nat \ {0}
  BY KnownIs
<1>2. ASSUME NEW s \in Lists PROVE Reciprocal(j, s) \in Nat
  <2>1. PICK n \in 0 .. TopK : s \in [1 .. n -> Pool]
    BY DEF Lists
  <2>2. CASE j \in IdsOf(s)
    <3>1. \E i \in DOMAIN s : s[i] = j
      BY <2>2 DEF IdsOf
    <3>2. PositionIn(j, s) \in DOMAIN s
      BY <3>1 DEF PositionIn
    <3>3. PositionIn(j, s) \in 1 .. n
      BY <2>1, <3>2
    <3>4. 60 + PositionIn(j, s) \in Nat \ {0}
      BY <3>3
    <3>5. One \div (60 + PositionIn(j, s)) \in Nat
      <4> DEFINE d == 60 + PositionIn(j, s)
      <4>1. d \in Nat \ {0}
        BY <3>4
      <4> HIDE DEF d
      <4>2. One \div d \in Nat
        BY <1>1, <4>1
      <4> QED
        BY <4>2 DEF d
    <3> QED
      BY <2>2, <3>5 DEF Reciprocal
  <2>3. CASE j \notin IdsOf(s)
    BY <2>3 DEF Reciprocal
  <2> QED
    BY <2>2, <2>3
<1>3. Reciprocal(j, lexical) \in Nat /\ Reciprocal(j, vector) \in Nat
  BY <1>2
<1> QED
  BY <1>1, <1>3 DEF Fusion, LesserOf

\* The mixture of four shares.
Mixture(f, r, a, q) == (35 * f + 30 * r + 20 * a + 15 * q) \div 100

LEMMA MixtureIs ==
  ASSUME NEW n \in Nat,
         NEW f1 \in 0 .. n, NEW r1 \in 0 .. n, NEW a1 \in 0 .. n, NEW q1 \in 0 .. n,
         NEW f2 \in 0 .. n, NEW r2 \in 0 .. n, NEW a2 \in 0 .. n, NEW q2 \in 0 .. n,
         f2 <= f1, r2 <= r1, a2 <= a1, q2 <= q1
  PROVE  /\ Mixture(f1, r1, a1, q1) \in 0 .. n
         /\ Mixture(f2, r2, a2, q2) <= Mixture(f1, r1, a1, q1)
<1> DEFINE x == 35 * f2 + 30 * r2 + 20 * a2 + 15 * q2
           y == 35 * f1 + 30 * r1 + 20 * a1 + 15 * q1
<1>1. x \in Nat /\ y \in Nat /\ x <= y /\ y <= n * 100 /\ 100 \in Nat \ {0}
  OBVIOUS
<1>2. Mixture(f1, r1, a1, q1) = y \div 100 /\ Mixture(f2, r2, a2, q2) = x \div 100
  BY DEF Mixture
<1> HIDE DEF x, y
<1>3. x \div 100 <= y \div 100
  BY <1>1, Divided
<1>4. y \div 100 \in 0 .. n
  BY <1>1, DividedIsShare
<1> QED
  BY <1>2, <1>3, <1>4

\* The score is a share, and no lower for a posting that is no worse in any signal.
LEMMA FinalIs ==
  ASSUME Indexed, lexical \in Lists, vector \in Lists, NEW i \in Pool, NEW j \in Pool,
         Dominates(i, j)
  PROVE  Final(i) \in 0 .. One /\ Final(j) <= Final(i)
<1>1. One \in Nat
  BY KnownIs
<1>2. /\ Met(j) \subseteq Met(i) /\ offer[j].query <= offer[i].query
      /\ Overlap(j) <= Overlap(i) /\ Fusion(j) <= Fusion(i)
      /\ Freshness[offer[j].age] <= Freshness[offer[i].age]
      /\ offer[j].source <= offer[i].source
  <2>1. /\ Overlap(i) \in 0 .. One /\ Overlap(j) \in 0 .. One
        /\ Fusion(i) \in 0 .. One /\ Fusion(j) \in 0 .. One
    BY OverlapIs, FusionIs
  <2>2. /\ offer[i].query \in 0 .. One /\ offer[i].source \in 0 .. One
        /\ Freshness[offer[i].age] \in 0 .. One
        /\ offer[j].query \in 0 .. One /\ offer[j].source \in 0 .. One
        /\ Freshness[offer[j].age] \in 0 .. One
    BY KnownIs
  <2> QED
    BY <1>1, <2>1, <2>2 DEF Dominates
<1>3. (offer[i].skills = {}) = (offer[j].skills = {})
  BY DEF Dominates
<1>4. Rerank(i) \in 0 .. One /\ Rerank(j) \in 0 .. One /\ Rerank(j) <= Rerank(i)
  BY <1>2, <1>3, RerankIs
<1>5. /\ Fusion(i) \in 0 .. One /\ Fusion(j) \in 0 .. One
      /\ Freshness[offer[i].age] \in 0 .. One /\ Freshness[offer[j].age] \in 0 .. One
      /\ offer[i].source \in 0 .. One /\ offer[j].source \in 0 .. One
  BY FusionIs, KnownIs
<1>6. /\ Final(i) = Mixture(Fusion(i), Rerank(i), Freshness[offer[i].age], offer[i].source)
      /\ Final(j) = Mixture(Fusion(j), Rerank(j), Freshness[offer[j].age], offer[j].source)
  BY DEF Final, Mixture
<1> DEFINE fi == Fusion(i)
           ri == Rerank(i)
           ai == Freshness[offer[i].age]
           qi == offer[i].source
           fj == Fusion(j)
           rj == Rerank(j)
           aj == Freshness[offer[j].age]
           qj == offer[j].source
<1>7. /\ fi \in 0 .. One /\ ri \in 0 .. One /\ ai \in 0 .. One /\ qi \in 0 .. One
      /\ fj \in 0 .. One /\ rj \in 0 .. One /\ aj \in 0 .. One /\ qj \in 0 .. One
      /\ fj <= fi /\ rj <= ri /\ aj <= ai /\ qj <= qi
      /\ Final(i) = Mixture(fi, ri, ai, qi) /\ Final(j) = Mixture(fj, rj, aj, qj)
  BY <1>2, <1>4, <1>5, <1>6
<1> HIDE DEF fi, ri, ai, qi, fj, rj, aj, qj
<1>8. /\ Mixture(fi, ri, ai, qi) \in 0 .. One
      /\ Mixture(fj, rj, aj, qj) <= Mixture(fi, ri, ai, qi)
  BY <1>1, <1>7, MixtureIs
<1> QED
  BY <1>7, <1>8

LEMMA ScoreIs ==
  ASSUME Indexed, lexical \in Lists, vector \in Lists, NEW j \in Pool
  PROVE  Final(j) \in 0 .. One
<1>1. /\ Overlap(j) \in 0 .. One /\ Fusion(j) \in 0 .. One
      /\ offer[j].query \in 0 .. One /\ offer[j].source \in 0 .. One
      /\ Freshness[offer[j].age] \in 0 .. One /\ One \in Nat
  BY KnownIs, OverlapIs, FusionIs
<1>2. Dominates(j, j)
  BY <1>1 DEF Dominates
<1> QED
  BY <1>2, FinalIs

-----------------------------------------------------------------------------
(* The ranking.                                                            *)

Order(S) == {ss \in S \X S : Above(ss[1], ss[2])}

\* The sort key orders any postings.
LEMMA KeyIsOrder ==
  ASSUME Indexed, lexical \in Lists, vector \in Lists, NEW S \in SUBSET Pool
  PROVE  StrictOrder(Order(S), S)
<1>1. ASSUME NEW i \in S PROVE Final(i) \in Int /\ i \in Int
  <2>1. i \in Pool /\ Pool \subseteq Nat /\ One \in Nat
    BY KnownIs
  <2>2. Final(i) \in 0 .. One
    BY <2>1, ScoreIs
  <2> QED
    BY <2>1, <2>2
<1>2. ASSUME NEW i \in S, NEW j \in S PROVE <<i, j>> \in Order(S) <=> Above(i, j)
  BY DEF Order
<1>3. ASSUME NEW i \in S PROVE <<i, i>> \notin Order(S)
  BY <1>1, <1>2 DEF Above
<1>4. ASSUME NEW i \in S, NEW j \in S, NEW k \in S,
             <<i, j>> \in Order(S), <<j, k>> \in Order(S)
      PROVE  <<i, k>> \in Order(S)
  BY <1>1, <1>2, <1>4 DEF Above
<1>5. ASSUME NEW i \in S, NEW j \in S, i # j
      PROVE  <<i, j>> \in Order(S) \/ <<j, i>> \in Order(S)
  BY <1>1, <1>2, <1>5 DEF Above
<1> QED
  BY <1>3, <1>4, <1>5 DEF StrictOrder

\* The sorted list holds the postings of the set, each above the ones after it.
LEMMA SortedIs ==
  ASSUME Indexed, lexical \in Lists, vector \in Lists, NEW S \in SUBSET Pool
  PROVE  /\ Cardinality(S) \in Nat
         /\ Sorted(S) \in [1 .. Cardinality(S) -> S]
         /\ \A p, q \in 1 .. Cardinality(S) :
              p < q => Final(Sorted(S)[q]) <= Final(Sorted(S)[p])
<1> DEFINE n == Cardinality(S)
           R == Order(S)
<1>1. IsFiniteSet(S)
  BY KnownIs, FS_Subset
<1>2. StrictOrder(R, S)
  BY KeyIsOrder
<1>3. ASSUME NEW j \in S
      PROVE  {i \in S : Above(i, j)} = Before(j, R, S)
  BY DEF Before, Order
<1>4. ASSUME NEW p \in 1 .. n
      PROVE  /\ Sorted(S)[p] \in S
             /\ Cardinality(Before(Sorted(S)[p], R, S)) = p - 1
  <2>1. Sorted(S)[p] = CHOOSE j \in S : Cardinality({i \in S : Above(i, j)}) = p - 1
    BY DEF Sorted
  <2> HIDE DEF n, R
  <2>2. \E j \in S : Cardinality(Before(j, R, S)) = p - 1
    BY <1>1, <1>2, PlacesAreTaken DEF n
  <2>3. \E j \in S : Cardinality({i \in S : Above(i, j)}) = p - 1
    BY <1>3, <2>2
  <2>4. /\ Sorted(S)[p] \in S
        /\ Cardinality({i \in S : Above(i, Sorted(S)[p])}) = p - 1
    BY <2>1, <2>3
  <2> QED
    BY <1>3, <2>4
<1>5. n \in Nat
  BY <1>1, FS_CardinalityType
<1>6. Sorted(S) \in [1 .. n -> S]
  <2> DEFINE g(p) == CHOOSE j \in S : Cardinality({i \in S : Above(i, j)}) = p - 1
  <2>1. Sorted(S) = [p \in 1 .. n |-> g(p)]
    BY DEF Sorted
  <2> HIDE DEF n, g
  <2>2. ASSUME NEW p \in 1 .. n PROVE g(p) \in S
    BY <1>4, <2>1
  <2> QED
    BY <2>1, <2>2
<1>7. ASSUME NEW p \in 1 .. n, NEW q \in 1 .. n, p < q
      PROVE  Final(Sorted(S)[q]) <= Final(Sorted(S)[p])
  <2> DEFINE a == Sorted(S)[p]
             b == Sorted(S)[q]
  <2>1. /\ a \in S /\ b \in S
        /\ Cardinality(Before(a, R, S)) = p - 1 /\ Cardinality(Before(b, R, S)) = q - 1
    BY <1>4
  <2>2. p \in Nat /\ q \in Nat
    BY <1>5
  <2> HIDE DEF a, b, n, R
  <2>3. ~ (<<b, a>> \in R)
    BY <1>1, <1>2, <1>7, <2>1, <2>2, LaterHasMoreBefore
  <2>4. a # b
    BY <1>7, <2>1, <2>2
  <2>5. <<a, b>> \in R
    BY <1>2, <2>1, <2>3, <2>4 DEF StrictOrder
  <2>6. Above(a, b)
    BY <2>1, <2>5 DEF R, Order
  <2>7. Final(a) \in 0 .. One /\ Final(b) \in 0 .. One /\ One \in Nat
    BY <2>1, ScoreIs, KnownIs
  <2>8. Final(b) <= Final(a)
    BY <2>6, <2>7 DEF Above
  <2> QED
    BY <2>8 DEF a, b
<1> QED
  BY <1>5, <1>6, <1>7

\* A page is a part of the list it is cut from.
LEMMA UptoIs ==
  ASSUME NEW n \in Nat, NEW S, NEW s \in [1 .. n -> S]
  PROVE  IdsOf(Upto(s, PageSize)) \subseteq S /\ Len(Upto(s, PageSize)) <= PageSize
<1>1. PageSize \in Nat \ {0}
  BY RankingAssumption
<1>2. s \in Seq(S) /\ Len(s) = n
  OBVIOUS
<1> DEFINE m == LesserOf(PageSize, n)
<1>3. m \in Nat /\ m <= PageSize /\ m <= n
  BY <1>1 DEF LesserOf
<1>4. Upto(s, PageSize) = SubSeq(s, 1, m)
  BY <1>2 DEF Upto
<1> HIDE DEF m
<1>5. SubSeq(s, 1, m) \in Seq(S) /\ Len(SubSeq(s, 1, m)) = m
  BY <1>2, <1>3
<1> DEFINE u == SubSeq(s, 1, m)
<1>6. u \in Seq(S) /\ Len(u) = m
  BY <1>5
<1> HIDE DEF u
<1>7. IdsOf(u) \subseteq S
  BY <1>6 DEF IdsOf
<1> QED
  BY <1>1, <1>3, <1>4, <1>6, <1>7 DEF u

\* No posting has a higher score than one that is ranked above it.
BestFirst ==
  \A i, j \in Found : \A p, q \in DOMAIN ranked :
     ranked[p] = i /\ ranked[q] = j /\ p < q => Final(j) <= Final(i)

\* The ranking is of what was found; nothing is found in an index that is not there.
RankingInv ==
  /\ offer \in [Pool -> Signals] \union {<<>>}
  /\ profile \in Profiles \union {Visitor}
  /\ lexical \in Lists /\ vector \in Lists
  /\ offer = <<>> => Found = {}
  /\ ranked # <<>> => /\ offer # <<>> /\ Cardinality(Found) \in Nat
                      /\ ranked \in [1 .. Cardinality(Found) -> Found] /\ BestFirst
  /\ page # <<>> => ranked # <<>>
  /\ IdsOf(page) \subseteq IdsOf(ranked) /\ Len(page) <= PageSize

LEMMA RankingStarts == RankingInit => RankingInv
<1> SUFFICES ASSUME RankingInit PROVE RankingInv
  OBVIOUS
<1>1. <<>> \in Lists
  <2>1. 0 \in 0 .. TopK
    BY RankingAssumption
  <2>2. <<>> \in [1 .. 0 -> Pool]
    OBVIOUS
  <2> QED
    BY <2>1, <2>2 DEF Lists
<1>2. Found = {} /\ IdsOf(page) = {}
  BY DEF RankingInit, Found, IdsOf
<1>3. Len(page) <= PageSize
  BY RankingAssumption DEF RankingInit
<1> QED
  BY <1>1, <1>2, <1>3 DEF RankingInit, RankingInv

LEMMA FoundIsIndexed ==
  ASSUME lexical \in Lists, vector \in Lists
  PROVE  Found \in SUBSET Pool
<1>1. ASSUME NEW s \in Lists PROVE IdsOf(s) \subseteq Pool
  <2>1. PICK n \in 0 .. TopK : s \in [1 .. n -> Pool]
    BY DEF Lists
  <2> QED
    BY <2>1 DEF IdsOf
<1> QED
  BY <1>1 DEF Found

\* A ranking is of postings that were found.
LEMMA RankedIs ==
  ASSUME RankingInv, ranked # <<>>
  PROVE  /\ Indexed /\ Found \in SUBSET Pool /\ Cardinality(Found) \in Nat
         /\ ranked \in [1 .. Cardinality(Found) -> Found] /\ IdsOf(ranked) \subseteq Found
<1>1. Indexed
  BY DEF RankingInv, Indexed
<1>2. Found \in SUBSET Pool
  BY FoundIsIndexed DEF RankingInv
<1>3. Cardinality(Found) \in Nat /\ ranked \in [1 .. Cardinality(Found) -> Found]
  BY DEF RankingInv
<1>4. IdsOf(ranked) \subseteq Found
  BY <1>3 DEF IdsOf
<1> QED
  BY <1>1, <1>2, <1>3, <1>4

LEMMA RetrieveKeeps ==
  ASSUME RankingInv, Retrieve
  PROVE  RankingInv'
<1>1. ranked = <<>> /\ page = <<>> /\ ranked' = <<>> /\ page' = <<>>
  BY DEF RankingInv, Retrieve
<1>2. /\ offer' \in [Pool -> Signals] /\ profile' \in Profiles
      /\ lexical' \in Lists /\ vector' \in Lists
  BY DEF Retrieve
<1>3. offer' = <<>> => Pool = {}
  BY <1>2
<1>4. ASSUME NEW s \in Lists PROVE IdsOf(s) \subseteq Pool
  <2>1. PICK n \in 0 .. TopK : s \in [1 .. n -> Pool]
    BY DEF Lists
  <2> QED
    BY <2>1 DEF IdsOf
<1>5. offer' = <<>> => Found' = {}
  BY <1>2, <1>3, <1>4 DEF Found
<1>6. IdsOf(page') = {} /\ Len(page') <= PageSize
  BY <1>1, RankingAssumption DEF IdsOf
<1> QED
  BY <1>1, <1>2, <1>5, <1>6 DEF RankingInv

\* The score and the order depend on the index, the profile and what the retrievals found.
LEMMA ScoreStays ==
  ASSUME UNCHANGED <<offer, profile, lexical, vector>>, NEW j
  PROVE  Final(j)' = Final(j)
<1>1. Fusion(j)' = Fusion(j)
  BY DEF Fusion, Reciprocal, PositionIn, IdsOf, LesserOf
<1>2. Met(j)' = Met(j) /\ Overlap(j)' = Overlap(j)
  BY DEF Met, Overlap, Share, GreaterOf
<1>3. PreferenceMatch(j)' = PreferenceMatch(j)
  BY <1>2 DEF PreferenceMatch, Share, GreaterOf
<1>4. Readiness(profile.interview)' = Readiness(profile.interview)
  BY DEF Readiness, Total, IdsOf, LesserOf
<1>5. SupportedFit(j)' = SupportedFit(j)
  BY <1>2, <1>4 DEF SupportedFit, GreaterOf
<1>6. Rerank(j)' = Rerank(j)
  BY <1>2, <1>3, <1>5 DEF Rerank, Weighted, Total
<1> QED
  BY <1>1, <1>6 DEF Final

LEMMA HybridCandidatesKeeps ==
  ASSUME RankingInv, HybridCandidates
  PROVE  RankingInv'
<1> DEFINE n == Cardinality(Found)
           s == Sorted(Found)
<1>1. page = <<>> /\ lexical \in Lists /\ vector \in Lists /\ Found \in SUBSET Pool
  BY FoundIsIndexed DEF RankingInv, HybridCandidates
<1>2. offer # <<>> /\ Indexed
  BY DEF RankingInv, HybridCandidates, Indexed
<1>3. ranked' = s /\ UNCHANGED <<offer, profile, lexical, vector, page>>
  BY DEF HybridCandidates
<1>4. Found' = Found
  BY <1>3 DEF Found, IdsOf
<1>5. /\ n \in Nat /\ s \in [1 .. n -> Found]
      /\ \A p, q \in 1 .. n : p < q => Final(s[q]) <= Final(s[p])
  BY <1>1, <1>2, SortedIs
<1>6. \A j : Final(j)' = Final(j)
  BY <1>3, ScoreStays
<1>7. Cardinality(Found)' = n
  BY <1>4
<1> HIDE DEF s
<1>8. ranked' \in [1 .. n -> Found]
  BY <1>3, <1>5
<1>9. BestFirst'
  <2> SUFFICES ASSUME NEW i \in Found', NEW j \in Found',
                      NEW p \in (DOMAIN ranked)', NEW q \in (DOMAIN ranked)',
                      ranked'[p] = i, ranked'[q] = j, p < q
               PROVE  Final(j)' <= Final(i)'
    BY DEF BestFirst
  <2>1. p \in 1 .. n /\ q \in 1 .. n /\ i = s[p] /\ j = s[q]
    BY <1>3, <1>5
  <2>2. Final(j) <= Final(i)
    BY <1>5, <2>1
  <2> QED
    BY <1>6, <2>2
<1>10. IdsOf(page)' = {} /\ (Len(page) <= PageSize)' /\ page' = <<>>
  BY <1>1, <1>3, RankingAssumption DEF IdsOf
<1> HIDE DEF n
<1> QED
  BY <1>1, <1>2, <1>3, <1>4, <1>5, <1>7, <1>8, <1>9, <1>10 DEF RankingInv, Indexed

\* Showing a page changes nothing else.
LEMMA ShowingKeeps ==
  ASSUME RankingInv, ranked # <<>>, UNCHANGED <<offer, profile, lexical, vector, ranked>>,
         IdsOf(page') \subseteq IdsOf(ranked), Len(page') <= PageSize
  PROVE  RankingInv'
<1>1. Found' = Found /\ IdsOf(ranked)' = IdsOf(ranked) /\ Cardinality(Found)' = Cardinality(Found)
  BY DEF Found, IdsOf
<1>2. \A j : Final(j)' = Final(j)
  BY ScoreStays
<1>3. BestFirst'
  BY <1>1, <1>2 DEF BestFirst, RankingInv
<1>4. IdsOf(page)' \subseteq IdsOf(ranked)' /\ (Len(page) <= PageSize)'
  BY <1>1 DEF IdsOf
<1> QED
  BY <1>1, <1>3, <1>4 DEF RankingInv

LEMMA IndexedJobsKeeps ==
  ASSUME RankingInv, IndexedJobs
  PROVE  RankingInv'
<1>1. ranked # <<>> /\ page' = Upto(ranked, PageSize)
      /\ UNCHANGED <<offer, profile, lexical, vector, ranked>>
  BY DEF IndexedJobs
<1> DEFINE n == Cardinality(Found)
<1>2. n \in Nat /\ ranked \in [1 .. n -> Found]
  BY <1>1, RankedIs
<1>3. ranked \in [1 .. n -> IdsOf(ranked)]
  BY <1>2 DEF IdsOf
<1> HIDE DEF n
<1>4. IdsOf(page') \subseteq IdsOf(ranked) /\ Len(page') <= PageSize
  BY <1>1, <1>2, <1>3, UptoIs
<1> QED
  BY <1>1, <1>4, ShowingKeeps

LEMMA NextPageKeeps ==
  ASSUME RankingInv, NextPage
  PROVE  RankingInv'
<1> DEFINE older == {j \in IdsOf(ranked) : j < page[Len(page)]}
           m == Cardinality(older)
           s == Sorted(older)
<1>1. /\ page # <<>> /\ page' = Upto(s, PageSize)
      /\ UNCHANGED <<offer, profile, lexical, vector, ranked>>
  BY DEF NextPage
<1>2. ranked # <<>>
  BY <1>1 DEF RankingInv
<1>3. older \subseteq IdsOf(ranked)
  OBVIOUS
<1>4. Indexed /\ lexical \in Lists /\ vector \in Lists /\ IdsOf(ranked) \subseteq Pool
  BY <1>2, RankedIs DEF RankingInv
<1> HIDE DEF older
<1>5. older \in SUBSET Pool
  BY <1>3, <1>4
<1>6. m \in Nat /\ s \in [1 .. m -> older]
  BY <1>4, <1>5, SortedIs
<1> HIDE DEF m, s
<1>7. IdsOf(page') \subseteq older /\ Len(page') <= PageSize
  BY <1>1, <1>6, UptoIs
<1> QED
  BY <1>1, <1>2, <1>3, <1>7, ShowingKeeps

LEMMA RankingKeeps ==
  ASSUME RankingInv, [RankingNext]_rankingVars
  PROVE  RankingInv'
<1>1. CASE Retrieve
  BY <1>1, RetrieveKeeps
<1>2. CASE HybridCandidates
  BY <1>2, HybridCandidatesKeeps
<1>3. CASE IndexedJobs
  BY <1>3, IndexedJobsKeeps
<1>4. CASE NextPage
  BY <1>4, NextPageKeeps
<1>5. CASE UNCHANGED rankingVars
  <2>1. UNCHANGED <<offer, profile, lexical, vector, ranked, page>>
    BY <1>5 DEF rankingVars
  <2>2. CASE ranked # <<>>
    BY <2>1, <2>2, ShowingKeeps DEF RankingInv
  <2>3. CASE ranked = <<>>
    BY <2>1, <2>3 DEF RankingInv, Found, IdsOf
  <2> QED
    BY <2>2, <2>3
<1> QED
  BY <1>1, <1>2, <1>3, <1>4, <1>5 DEF RankingNext

LEMMA RankingInvMeans ==
  ASSUME RankingInv
  PROVE  RankingTypeOK /\ DominanceRespected
<1>1. CASE ranked = <<>>
  <2>1. IdsOf(ranked) = {} /\ DOMAIN ranked = {} /\ Len(ranked) = 0
    BY <1>1 DEF IdsOf
  <2>2. Cardinality(Pool) \in Nat
    BY RankingAssumption, FS_CardinalityType
  <2>3. DominanceRespected
    BY <2>1 DEF DominanceRespected
  <2> QED
    BY <2>1, <2>2, <2>3 DEF RankingInv, RankingTypeOK
<1>2. CASE ranked # <<>>
  <2> DEFINE n == Cardinality(Found)
  <2>1. /\ Indexed /\ Found \in SUBSET Pool /\ n \in Nat
        /\ ranked \in [1 .. n -> Found] /\ IdsOf(ranked) \subseteq Found
    BY <1>2, RankedIs
  <2>2. n <= Cardinality(Pool)
    BY <2>1, RankingAssumption, FS_Subset
  <2> HIDE DEF n
  <2>3. RankingTypeOK
    <3>1. Len(ranked) = n
      BY <2>1
    <3> QED
      BY <2>1, <2>2, <3>1 DEF RankingInv, RankingTypeOK
  <2>4. ASSUME NEW j \in IdsOf(ranked) PROVE Final(j) \in 0 .. One
    <3>1. j \in Pool /\ lexical \in Lists /\ vector \in Lists
      BY <2>1 DEF RankingInv
    <3> QED
      BY <2>1, <3>1, ScoreIs
  <2>5. ASSUME NEW p \in DOMAIN ranked, NEW q \in DOMAIN ranked, p < q,
               Dominates(ranked[q], ranked[p])
        PROVE  Final(ranked[p]) = Final(ranked[q])
    <3> DEFINE a == ranked[p]
               b == ranked[q]
    <3>1. a \in Found /\ b \in Found /\ a \in Pool /\ b \in Pool
      BY <2>1
    <3>2. Final(b) <= Final(a)
      BY <1>2, <2>5, <3>1 DEF RankingInv, BestFirst
    <3> HIDE DEF a, b
    <3>3. lexical \in Lists /\ vector \in Lists /\ One \in Nat /\ Dominates(b, a)
      BY <2>5, KnownIs, <2>1 DEF RankingInv, a, b
    <3>4. Final(a) <= Final(b)
      BY <2>1, <3>1, <3>3, FinalIs
    <3>5. Final(a) \in 0 .. One /\ Final(b) \in 0 .. One
      BY <2>1, <3>1, <3>3, ScoreIs
    <3>6. Final(a) = Final(b)
      BY <3>2, <3>3, <3>4, <3>5
    <3> QED
      BY <3>6 DEF a, b
  <2> QED
    BY <2>3, <2>4, <2>5 DEF DominanceRespected
<1> QED
  BY <1>1, <1>2
-----------------------------------------------------------------------------
(* The recommendation.                                                     *)

Profile == [cv : Versions, preference : Nat, reports : Nat, fresh : BOOLEAN]

RequestRow == [at : {"idle", "preference", "reports", "look", "number", "derive"},
               since : Inputs \union {None}, cv : Versions \union {None},
               preference : Nat, reports : Nat, fresh : SUBSET Nat, next : Nat]

RecommendationTyped ==
  /\ input \in Inputs
  /\ profiles \in Seq(Profile)
  /\ request \in [Requests -> RequestRow]
  /\ run \in [status : {None, "queued", "processing", "completed", "failed"}, profile : Nat,
              since : Inputs \union {None}]
  /\ queue \in Nat

\* A profile of p's inputs, for a request that found the inputs "since".
CurrentFor(since, p) ==
  /\ p.cv = since.cv
  /\ p.preference >= since.preference
  /\ p.reports >= since.ready[p.cv]

\* What a request has read is not older than its beginning, and nothing becomes older.
Reads(r) ==
  r.at # "idle" =>
    /\ r.since \in Inputs /\ r.cv \in Versions
    /\ r.since.cv = r.cv
    /\ r.since.preference <= input.preference
    /\ \A v \in Versions : r.since.ready[v] <= input.ready[v]
    /\ r.at # "preference" => r.preference >= r.since.preference
    /\ r.at \in {"look", "number", "derive"} => r.reports >= r.since.ready[r.cv]

ReadsAreCurrent ==
  /\ \A q \in Requests : request[q].at # "idle" => request[q].cv \in Versions
  /\ Reads(request["recommendation"])

RunHasProfile ==
  run.status # None => /\ run.profile \in DOMAIN profiles
                       /\ run.since \in Inputs
                       /\ CurrentFor(run.since, profiles[run.profile])

\* There is a message, or an execution, of a run only.
WorkIsOfARun ==
  (queue # 0 \/ \E w \in Workers : worker[w].at # "idle") => run.status # None

RecommendationInv == RecommendationTyped /\ ReadsAreCurrent /\ RunHasProfile /\ WorkIsOfARun

LEMMA RecommendationStarts ==
  ASSUME RecommendationInit
  PROVE  RecommendationInv
<1> USE DEF RecommendationInit
<1>1. input \in Inputs
  <2>1. PICK v \in Versions : input = [cv |-> v, preference |-> 1, ready |-> [w \in Versions |-> 0]]
    OBVIOUS
  <2> QED
    BY <2>1 DEF Inputs
<1>2. NoRequest \in RequestRow /\ NoRequest.at = "idle"
  BY DEF NoRequest, RequestRow
<1>3. \A q \in Requests : request[q] = NoRequest
  OBVIOUS
<1>4. request \in [Requests -> RequestRow]
  BY <1>2
<1>5. RecommendationTyped
  BY <1>1, <1>4 DEF RecommendationTyped, NoRun, None
<1>6. ReadsAreCurrent
  BY <1>2, <1>3 DEF ReadsAreCurrent, Reads, Requests
<1>7. RunHasProfile
  BY DEF RunHasProfile, NoRun
<1>8. WorkIsOfARun
  BY DEF WorkIsOfARun, Resting
<1> QED
  BY <1>5, <1>6, <1>7, <1>8 DEF RecommendationInv

\* Changes of the inputs only add.
LEMMA ChangeKeeps ==
  ASSUME RecommendationInv, ActivateVersion \/ ChangePreferences \/ ReportReady
  PROVE  RecommendationInv'
<1> USE DEF RecommendationInv
<1>1. /\ input' \in Inputs
      /\ input'.preference >= input.preference
      /\ \A v \in Versions : input'.ready[v] >= input.ready[v]
      /\ profiles' = Invalidated /\ UNCHANGED <<request, run, queue, worker>>
  <2>1. /\ input.preference \in Nat /\ input.ready \in [Versions -> Nat]
        /\ input = [cv |-> input.cv, preference |-> input.preference, ready |-> input.ready]
    BY DEF RecommendationTyped, Inputs
  <2>2. ASSUME ActivateVersion
        PROVE  /\ input' \in Inputs /\ input'.preference = input.preference
               /\ input'.ready = input.ready
               /\ profiles' = Invalidated /\ UNCHANGED <<request, run, queue, worker>>
    BY <2>2 DEF ActivateVersion, Change, runVars, RecommendationTyped, Inputs
  <2>3. ASSUME ChangePreferences
        PROVE  /\ input' \in Inputs /\ input'.preference = input.preference + 1
               /\ input'.ready = input.ready
               /\ profiles' = Invalidated /\ UNCHANGED <<request, run, queue, worker>>
    BY <2>3 DEF ChangePreferences, Change, runVars, RecommendationTyped, Inputs
  <2>4. ASSUME ReportReady
        PROVE  /\ input' \in Inputs /\ input'.preference = input.preference
               /\ \A v \in Versions : input'.ready[v] >= input.ready[v]
               /\ profiles' = Invalidated /\ UNCHANGED <<request, run, queue, worker>>
    <3>1. PICK v \in Versions : Change([input EXCEPT !.ready[v] = @ + 1])
      BY <2>4 DEF ReportReady
    <3> DEFINE more == [input.ready EXCEPT ![v] = @ + 1]
    <3>2. more \in [Versions -> Nat] /\ \A w \in Versions : more[w] >= input.ready[w]
      BY <2>1
    <3>3. input' = [input EXCEPT !.ready = more]
      BY <3>1 DEF Change
    <3>4. profiles' = Invalidated /\ UNCHANGED <<request, run, queue, worker>>
      BY <3>1 DEF Change, runVars
    <3> HIDE DEF more
    <3>5. input' \in Inputs /\ input'.preference = input.preference /\ input'.ready = more
      BY <2>1, <3>2, <3>3 DEF RecommendationTyped, Inputs
    <3> QED
      BY <3>2, <3>4, <3>5
  <2> QED
    BY <2>1, <2>2, <2>3, <2>4
<1>2. /\ profiles' \in Seq(Profile) /\ DOMAIN profiles' = DOMAIN profiles
      /\ \A i \in DOMAIN profiles : profiles'[i] = [profiles[i] EXCEPT !.fresh = FALSE]
  <2>1. DOMAIN profiles = 1 .. Len(profiles) /\ Len(profiles) \in Nat
    BY DEF RecommendationTyped
  <2>2. \A i \in 1 .. Len(profiles) : profiles[i] \in Profile
    BY DEF RecommendationTyped
  <2>3. \A i \in 1 .. Len(profiles) : [profiles[i] EXCEPT !.fresh = FALSE] \in Profile
    BY <2>2 DEF Profile
  <2>4. profiles' = [i \in 1 .. Len(profiles) |-> [profiles[i] EXCEPT !.fresh = FALSE]]
    BY <1>1, <2>1 DEF Invalidated
  <2> QED
    BY <2>1, <2>3, <2>4
<1>3. RecommendationTyped'
  BY <1>1, <1>2 DEF RecommendationTyped
<1>4. ReadsAreCurrent'
  <2> DEFINE r == request["recommendation"]
  <2>1. r' = r
    BY <1>1
  <2>2. ASSUME r.at # "idle"
        PROVE  /\ r.since.preference <= input'.preference
               /\ \A v \in Versions : r.since.ready[v] <= input'.ready[v]
    <3>1. /\ r.since \in Inputs
          /\ r.since.preference <= input.preference
          /\ \A v \in Versions : r.since.ready[v] <= input.ready[v]
      BY <2>2 DEF ReadsAreCurrent, Reads
    <3>2. /\ input \in Inputs
          /\ r.since.preference \in Nat /\ r.since.ready \in [Versions -> Nat]
          /\ input.preference \in Nat /\ input.ready \in [Versions -> Nat]
          /\ input'.preference \in Nat /\ input'.ready \in [Versions -> Nat]
      BY <1>1, <3>1 DEF RecommendationTyped, Inputs
    <3> HIDE DEF r
    <3>3. r.since.preference <= input'.preference
      BY <1>1, <3>1, <3>2
    <3>4. ASSUME NEW v \in Versions PROVE r.since.ready[v] <= input'.ready[v]
      <4>1. r.since.ready[v] \in Nat /\ input.ready[v] \in Nat /\ input'.ready[v] \in Nat
        BY <3>2
      <4> QED
        BY <1>1, <3>1, <4>1
    <3> QED
      BY <3>3, <3>4
  <2>3. Reads(r)
    BY DEF ReadsAreCurrent
  <2> HIDE DEF r
  <2>4. Reads(r)'
    BY <2>1, <2>2, <2>3 DEF Reads
  <2> QED
    BY <1>1, <2>4 DEF ReadsAreCurrent, r
<1>5. RunHasProfile'
  <2> SUFFICES ASSUME run.status # None
               PROVE  /\ run.profile \in DOMAIN profiles'
                      /\ run.since \in Inputs
                      /\ CurrentFor(run.since, profiles'[run.profile])
    BY <1>1 DEF RunHasProfile, CurrentFor
  <2>1. /\ run.profile \in DOMAIN profiles /\ run.since \in Inputs
        /\ CurrentFor(run.since, profiles[run.profile])
    BY DEF RunHasProfile
  <2>2. profiles[run.profile] \in Profile
    BY <2>1 DEF RecommendationTyped
  <2> DEFINE p == profiles[run.profile]
  <2>3. [p EXCEPT !.fresh = FALSE].cv = p.cv /\ [p EXCEPT !.fresh = FALSE].preference = p.preference
        /\ [p EXCEPT !.fresh = FALSE].reports = p.reports
    BY <2>2 DEF Profile
  <2> QED
    BY <1>2, <2>1, <2>3 DEF CurrentFor
<1>6. WorkIsOfARun'
  BY <1>1 DEF WorkIsOfARun
<1> QED
  BY <1>3, <1>4, <1>5, <1>6

\* A request goes on.
LEMMA RequestMoves ==
  ASSUME RecommendationInv, NEW q \in Requests, NEW row \in RequestRow,
         request' = [request EXCEPT ![q] = row], input' = input,
         row.at # "idle" => row.cv \in Versions,
         q = "recommendation" => Reads(row)
  PROVE  ReadsAreCurrent' /\ request' \in [Requests -> RequestRow]
<1>1. request \in [Requests -> RequestRow]
  BY DEF RecommendationInv, RecommendationTyped
<1>2. request' \in [Requests -> RequestRow]
  BY <1>1
<1>3. \A k \in Requests : request'[k] = IF k = q THEN row ELSE request[k]
  BY <1>1
<1>4. \A k \in Requests : request'[k].at # "idle" => request'[k].cv \in Versions
  BY <1>3 DEF RecommendationInv, ReadsAreCurrent
<1>5. Reads(request["recommendation"])'
  <2>1. Reads(request'["recommendation"])
    <3>1. Reads(request["recommendation"])
      BY DEF RecommendationInv, ReadsAreCurrent
    <3>2. CASE q = "recommendation"
      BY <1>3, <3>2
    <3>3. CASE q # "recommendation"
      <4>1. request'["recommendation"] = request["recommendation"]
        BY <1>3, <3>3 DEF Requests
      <4> QED
        BY <3>1, <4>1
    <3> QED
      BY <3>2, <3>3
  <2> QED
    BY <2>1 DEF Reads
<1> QED
  BY <1>2, <1>4, <1>5 DEF ReadsAreCurrent

\* The request of a read that leaves everything else alone.
LEMMA ReadKeeps ==
  ASSUME RecommendationInv, NEW q \in Requests, NEW row \in RequestRow,
         request' = [request EXCEPT ![q] = row],
         row.at # "idle" => row.cv \in Versions,
         q = "recommendation" => Reads(row),
         UNCHANGED <<input, profiles, run, queue, worker>>
  PROVE  RecommendationInv'
<1>1. ReadsAreCurrent' /\ request' \in [Requests -> RequestRow]
  BY RequestMoves
<1>2. RecommendationTyped'
  BY <1>1 DEF RecommendationInv, RecommendationTyped
<1>3. RunHasProfile' /\ WorkIsOfARun'
  BY DEF RecommendationInv, RunHasProfile, WorkIsOfARun, CurrentFor
<1> QED
  BY <1>1, <1>2, <1>3 DEF RecommendationInv

LEMMA ReadsKeep ==
  ASSUME RecommendationInv, NEW q \in Requests,
         \/ ReadVersion(q) \/ ReadPreference(q) \/ ReadReports(q)
         \/ ReadNumber(q) \/ LookUpForSearch(q)
  PROVE  RecommendationInv'
<1> DEFINE r == request[q]
<1>1. /\ r \in RequestRow /\ input \in Inputs
      /\ r.at # "idle" => r.cv \in Versions
      /\ q = "recommendation" => Reads(r)
  BY DEF RecommendationInv, RecommendationTyped, ReadsAreCurrent
<1>2. NoRequest \in RequestRow /\ NoRequest.at = "idle"
  BY DEF NoRequest, RequestRow
<1>3. CASE ReadVersion(q)
  <2>1. PICK v \in IF q = "search" THEN Versions ELSE {input.cv} \ {None} :
          request' = [request EXCEPT ![q] =
            [NoRequest EXCEPT !.at = "preference", !.since = input, !.cv = v]]
    BY <1>3 DEF ReadVersion
  <2> DEFINE row == [NoRequest EXCEPT !.at = "preference", !.since = input, !.cv = v]
  <2>2. v \in Versions /\ (q = "recommendation" => v = input.cv)
    BY <1>1 DEF Inputs
  <2>3. row \in RequestRow /\ row.at = "preference" /\ row.since = input /\ row.cv = v
    BY <1>1, <2>2 DEF NoRequest, RequestRow
  <2>4. request' = [request EXCEPT ![q] = row]
    BY <2>1
  <2>5. UNCHANGED <<input, profiles, run, queue, worker>>
    BY <1>3 DEF ReadVersion, runVars
  <2> HIDE DEF row
  <2>6. q = "recommendation" => Reads(row)
    <3>1. /\ input.preference \in Nat /\ input.ready \in [Versions -> Nat]
      BY <1>1 DEF Inputs
    <3> QED
      BY <1>1, <2>2, <2>3, <3>1 DEF Reads
  <2> QED
    BY <2>2, <2>3, <2>4, <2>5, <2>6, ReadKeeps
<1>4. CASE ReadPreference(q)
  <2> DEFINE row == [r EXCEPT !.preference = input.preference,
                              !.at = IF q = "search" THEN "look" ELSE "reports"]
  <2>1. request' = [request EXCEPT ![q] = row] /\ r.at = "preference"
    BY <1>4 DEF ReadPreference, RecommendationInv, RecommendationTyped
  <2>2. /\ row \in RequestRow /\ row.at = IF q = "search" THEN "look" ELSE "reports"
        /\ row.since = r.since /\ row.cv = r.cv
        /\ row.preference = input.preference
    BY <1>1 DEF RequestRow, Inputs
  <2>3. UNCHANGED <<input, profiles, run, queue, worker>>
    BY <1>4 DEF ReadPreference, runVars
  <2> HIDE DEF row, r
  <2>4. q = "recommendation" => Reads(row)
    BY <1>1, <2>1, <2>2 DEF Reads
  <2> QED
    BY <1>1, <2>1, <2>2, <2>3, <2>4, ReadKeeps
<1>5. CASE ReadReports(q)
  <2> DEFINE row == [r EXCEPT !.reports = input.ready[r.cv],
                              !.at = IF q = "search" THEN "number" ELSE "look"]
  <2>1. request' = [request EXCEPT ![q] = row] /\ r.at = "reports"
    BY <1>5 DEF ReadReports, RecommendationInv, RecommendationTyped
  <2>2. input.ready[r.cv] \in Nat
    BY <1>1, <2>1 DEF Inputs
  <2>3. /\ row \in RequestRow /\ row.at = IF q = "search" THEN "number" ELSE "look"
        /\ row.since = r.since /\ row.cv = r.cv
        /\ row.preference = r.preference /\ row.reports = input.ready[r.cv]
    BY <1>1, <2>2 DEF RequestRow
  <2>4. UNCHANGED <<input, profiles, run, queue, worker>>
    BY <1>5 DEF ReadReports, runVars
  <2> HIDE DEF row, r
  <2>5. q = "recommendation" => Reads(row)
    BY <1>1, <2>1, <2>3 DEF Reads
  <2> QED
    BY <1>1, <2>1, <2>3, <2>4, <2>5, ReadKeeps
<1>6. CASE ReadNumber(q)
  <2> DEFINE row == [r EXCEPT !.next = Len(profiles) + 1, !.at = "derive",
                              !.fresh = IF q = "search" THEN {} ELSE Fresh]
  <2>1. request' = [request EXCEPT ![q] = row] /\ r.at = "number"
    BY <1>6 DEF ReadNumber, RecommendationInv, RecommendationTyped
  <2>2. Len(profiles) + 1 \in Nat /\ Fresh \in SUBSET Nat
    BY DEF RecommendationInv, RecommendationTyped, Fresh
  <2>3. /\ row \in RequestRow /\ row.at = "derive"
        /\ row.since = r.since /\ row.cv = r.cv
        /\ row.preference = r.preference /\ row.reports = r.reports
    BY <1>1, <2>2 DEF RequestRow
  <2>4. UNCHANGED <<input, profiles, run, queue, worker>>
    BY <1>6 DEF ReadNumber, runVars
  <2> HIDE DEF row, r
  <2>5. q = "recommendation" => Reads(row)
    BY <1>1, <2>1, <2>3 DEF Reads
  <2> QED
    BY <1>1, <2>1, <2>3, <2>4, <2>5, ReadKeeps
<1>7. CASE LookUpForSearch(q)
  <2> DEFINE row == IF \E i \in DOMAIN profiles : FitsSearch(r, profiles[i]) THEN NoRequest
                    ELSE [r EXCEPT !.at = "reports"]
  <2>1. request' = [request EXCEPT ![q] = row] /\ q = "search" /\ r.at = "look"
    BY <1>7 DEF LookUpForSearch, RecommendationInv, RecommendationTyped
  <2>2. row \in RequestRow /\ (row.at # "idle" => row.cv = r.cv)
    <3>1. [r EXCEPT !.at = "reports"] \in RequestRow /\ [r EXCEPT !.at = "reports"].cv = r.cv
      BY <1>1 DEF RequestRow
    <3> QED
      BY <1>2, <3>1
  <2>3. UNCHANGED <<input, profiles, run, queue, worker>>
    BY <1>7 DEF LookUpForSearch, runVars
  <2> HIDE DEF row, r
  <2>4. q # "recommendation"
    BY <2>1
  <2> QED
    BY <1>1, <2>1, <2>2, <2>3, <2>4, ReadKeeps
<1> QED
  BY <1>3, <1>4, <1>5, <1>6, <1>7

\* Of the places of some profiles, one is the last.
LEMMA LatestIsOne ==
  ASSUME NEW n \in Nat, NEW S, S \subseteq 1 .. n, S # {}
  PROVE  Latest(S) \in S
<1> DEFINE left == {m \in Nat : \E i \in S : m = n - i}
<1>1. left \subseteq Nat /\ left # {}
  <2>1. PICK i \in S : TRUE
    OBVIOUS
  <2>2. n - i \in left
    BY <2>1
  <2> QED
    BY <2>2
<1>2. PICK x \in left : \A y \in left : x <= y
  <2> HIDE DEF left
  <2> QED
    BY <1>1, LeastNat
<1>3. PICK i \in S : x = n - i
  OBVIOUS
<1>4. ASSUME NEW k \in S PROVE k <= i
  <2>1. n - i <= n - k
    <3>1. n - k \in left
      OBVIOUS
    <3> QED
      BY <1>2, <1>3, <3>1
  <2> QED
    BY <2>1
<1> QED
  BY <1>4 DEF Latest

\* The profiles, some of them retired.
Retired(kept) ==
  /\ kept = [i \in DOMAIN profiles |-> kept[i]]
  /\ \A i \in DOMAIN profiles : \/ kept[i] = profiles[i]
                                \/ kept[i] = [profiles[i] EXCEPT !.fresh = FALSE]

\* A profile is added at the end; the others change in their mark only.
LEMMA ProfileAdded ==
  ASSUME RecommendationInv, NEW kept, NEW p \in Profile,
         Retired(kept), profiles' = Append(kept, p)
  PROVE  /\ profiles' \in Seq(Profile) /\ Len(profiles') = Len(profiles) + 1
         /\ profiles'[Len(profiles) + 1] = p /\ Len(profiles) + 1 \in DOMAIN profiles'
         /\ \A i \in DOMAIN profiles :
              /\ i \in DOMAIN profiles'
              /\ profiles'[i].cv = profiles[i].cv
              /\ profiles'[i].preference = profiles[i].preference
              /\ profiles'[i].reports = profiles[i].reports
<1> DEFINE n == Len(profiles)
<1>1. DOMAIN profiles = 1 .. n /\ n \in Nat /\ profiles \in Seq(Profile)
  BY DEF RecommendationInv, RecommendationTyped
<1>2. ASSUME NEW i \in 1 .. n
      PROVE  /\ kept[i] \in Profile /\ kept[i].cv = profiles[i].cv
             /\ kept[i].preference = profiles[i].preference /\ kept[i].reports = profiles[i].reports
  <2>1. profiles[i] \in Profile
    BY <1>1
  <2>2. kept[i] = profiles[i] \/ kept[i] = [profiles[i] EXCEPT !.fresh = FALSE]
    BY <1>1 DEF Retired
  <2> QED
    BY <2>1, <2>2 DEF Profile
<1>3. kept \in Seq(Profile) /\ Len(kept) = n
  <2>1. kept = [i \in 1 .. n |-> kept[i]]
    BY <1>1 DEF Retired
  <2> HIDE DEF n
  <2> QED
    BY <1>1, <1>2, <2>1
<1> HIDE DEF n
<1>4. /\ profiles' \in Seq(Profile) /\ Len(profiles') = n + 1
      /\ profiles'[n + 1] = p /\ \A i \in 1 .. n : profiles'[i] = kept[i]
  BY <1>1, <1>3
<1>5. DOMAIN profiles' = 1 .. n + 1
  BY <1>4
<1>6. \A i \in 1 .. n : i \in 1 .. n + 1
  BY <1>1
<1> QED
  BY <1>1, <1>2, <1>4, <1>5, <1>6 DEF n

\* A run keeps its profile when profiles are added.
LEMMA RunStays ==
  ASSUME RecommendationInv, run' = run,
         \A i \in DOMAIN profiles :
              /\ i \in DOMAIN profiles'
              /\ profiles'[i].cv = profiles[i].cv
              /\ profiles'[i].preference = profiles[i].preference
              /\ profiles'[i].reports = profiles[i].reports
  PROVE  RunHasProfile'
<1> SUFFICES ASSUME run.status # None
             PROVE  /\ run.profile \in DOMAIN profiles'
                    /\ run.since \in Inputs
                    /\ CurrentFor(run.since, profiles'[run.profile])
  BY DEF RunHasProfile, CurrentFor
<1>1. /\ run.profile \in DOMAIN profiles /\ run.since \in Inputs
      /\ CurrentFor(run.since, profiles[run.profile])
  BY DEF RecommendationInv, RunHasProfile
<1> QED
  BY <1>1 DEF CurrentFor

\* A request that ends: it leaves nothing to be kept.
LEMMA RequestEnds ==
  ASSUME RecommendationInv, NEW q \in Requests,
         request' = [request EXCEPT ![q] = NoRequest], input' = input
  PROVE  ReadsAreCurrent' /\ request' \in [Requests -> RequestRow]
<1>1. NoRequest \in RequestRow /\ NoRequest.at = "idle"
  BY DEF NoRequest, RequestRow
<1> QED
  BY <1>1, RequestMoves DEF Reads

LEMMA LookUpKeeps ==
  ASSUME RecommendationInv, NEW q \in Requests, LookUp(q)
  PROVE  RecommendationInv'
<1> DEFINE r == request[q]
           fitting == {i \in DOMAIN profiles : Fits(r, profiles[i])}
<1>1. /\ r \in RequestRow /\ r.at = "look" /\ q = "recommendation"
      /\ r.cv \in Versions /\ Reads(r)
  BY DEF RecommendationInv, RecommendationTyped, ReadsAreCurrent, LookUp
<1>2. UNCHANGED <<input, profiles>>
  BY DEF LookUp
<1>3. CASE fitting = {}
  <2> DEFINE row == [r EXCEPT !.at = "number"]
  <2>1. request' = [request EXCEPT ![q] = row] /\ UNCHANGED <<run, queue, worker>>
    BY <1>3 DEF LookUp, runVars, RecommendationInv, RecommendationTyped
  <2>2. /\ row \in RequestRow /\ row.at = "number" /\ row.since = r.since /\ row.cv = r.cv
        /\ row.preference = r.preference /\ row.reports = r.reports
    BY <1>1 DEF RequestRow
  <2> HIDE DEF row, r
  <2>3. Reads(row)
    BY <1>1, <2>2 DEF Reads
  <2> QED
    BY <1>1, <1>2, <2>1, <2>2, <2>3, ReadKeeps
<1>4. CASE fitting # {}
  <2> DEFINE i == Latest(fitting)
  <2>1. /\ request' = [request EXCEPT ![q] = NoRequest]
        /\ run' = [status |-> "queued", profile |-> i, since |-> r.since]
        /\ UNCHANGED <<queue, worker>>
    BY <1>4 DEF LookUp, CreateRun
  <2>2. DOMAIN profiles = 1 .. Len(profiles) /\ Len(profiles) \in Nat
    BY DEF RecommendationInv, RecommendationTyped
  <2>3. i \in fitting
    <3>1. fitting \subseteq 1 .. Len(profiles)
      BY <2>2
    <3> HIDE DEF fitting
    <3> QED
      BY <1>4, <2>2, <3>1, LatestIsOne
  <2>4. i \in DOMAIN profiles /\ i \in Nat /\ Fits(r, profiles[i])
    <3> HIDE DEF i, r
    <3> QED
      BY <2>2, <2>3
  <2>5. ReadsAreCurrent' /\ request' \in [Requests -> RequestRow]
    BY <1>2, <2>1, RequestEnds
  <2> HIDE DEF i, fitting, r
  <2>6. CurrentFor(r.since, profiles[i]) /\ r.since \in Inputs
    BY <1>1, <2>4 DEF Reads, Fits, FitsSearch, CurrentFor
  <2>7. /\ run'.status = "queued" /\ run'.profile = i /\ run'.since = r.since
        /\ "queued" # None
    BY <2>1 DEF None
  <2>8. RunHasProfile'
    BY <1>2, <2>4, <2>6, <2>7 DEF RunHasProfile, CurrentFor
  <2>9. RecommendationTyped'
    BY <1>2, <2>1, <2>4, <2>5, <2>6 DEF RecommendationInv, RecommendationTyped
  <2>10. WorkIsOfARun'
    BY <2>7 DEF WorkIsOfARun
  <2> QED
    BY <2>5, <2>8, <2>9, <2>10 DEF RecommendationInv
<1> QED
  BY <1>3, <1>4

\* What a request derives from what it has read.
LEMMA DerivedIs ==
  ASSUME NEW r \in RequestRow, r.cv \in Versions
  PROVE  /\ Derived(r) \in Profile
         /\ Reads(r) /\ r.at = "derive" => CurrentFor(r.since, Derived(r)) /\ r.since \in Inputs
<1>1. /\ Derived(r).cv = r.cv /\ Derived(r).preference = r.preference
      /\ Derived(r).reports = r.reports
  BY DEF Derived
<1>2. Derived(r) \in Profile
  BY DEF Derived, Profile, RequestRow
<1>3. ASSUME Reads(r), r.at = "derive" PROVE CurrentFor(r.since, Derived(r)) /\ r.since \in Inputs
  BY <1>1, <1>3 DEF Reads, CurrentFor
<1> QED
  BY <1>2, <1>3

LEMMA DeriveKeeps ==
  ASSUME RecommendationInv, NEW q \in Requests, Derive(q)
  PROVE  RecommendationInv'
<1> DEFINE r == request[q]
           kept == [i \in DOMAIN profiles |->
                     IF i \in r.fresh THEN [profiles[i] EXCEPT !.fresh = FALSE] ELSE profiles[i]]
<1>1. /\ r \in RequestRow /\ r.at = "derive" /\ q = "recommendation"
      /\ r.cv \in Versions /\ Reads(r)
  BY DEF RecommendationInv, RecommendationTyped, ReadsAreCurrent, Derive
<1>2. input' = input /\ request' = [request EXCEPT ![q] = NoRequest]
  BY DEF Derive
<1>3. ReadsAreCurrent' /\ request' \in [Requests -> RequestRow]
  BY <1>2, RequestEnds
<1>4. CASE ~ NumberFree(r)
  <2>1. UNCHANGED <<profiles, run, queue, worker>>
    BY <1>4 DEF Derive, runVars
  <2>2. RecommendationTyped'
    BY <1>2, <1>3, <2>1 DEF RecommendationInv, RecommendationTyped
  <2>3. RunHasProfile' /\ WorkIsOfARun'
    BY <2>1 DEF RecommendationInv, RunHasProfile, WorkIsOfARun, CurrentFor
  <2> QED
    BY <1>3, <2>2, <2>3 DEF RecommendationInv
<1>5. CASE NumberFree(r)
  <2>1. /\ profiles' = Append(kept, Derived(r))
        /\ run' = [status |-> "queued", profile |-> r.next, since |-> r.since]
        /\ UNCHANGED <<queue, worker>>
    BY <1>5 DEF Derive, CreateRun
  <2>2. r.next = Len(profiles) + 1 /\ r.next \in Nat
    BY <1>1, <1>5 DEF NumberFree, RequestRow
  <2>3. /\ Derived(r) \in Profile /\ CurrentFor(r.since, Derived(r)) /\ r.since \in Inputs
    <3> HIDE DEF r
    <3> QED
      BY <1>1, DerivedIs
  <2>4. Retired(kept)
    BY DEF Retired
  <2> HIDE DEF kept, r
  <2>5. /\ profiles' \in Seq(Profile)
        /\ profiles'[Len(profiles) + 1] = Derived(r) /\ Len(profiles) + 1 \in DOMAIN profiles'
    BY <2>1, <2>3, <2>4, ProfileAdded
  <2>6. /\ run'.status = "queued" /\ run'.profile = r.next /\ run'.since = r.since
        /\ "queued" # None
    BY <2>1 DEF None
  <2>7. RunHasProfile'
    BY <2>2, <2>3, <2>5, <2>6 DEF RunHasProfile, CurrentFor
  <2>8. RecommendationTyped'
    BY <1>2, <1>3, <2>1, <2>2, <2>3, <2>5 DEF RecommendationInv, RecommendationTyped
  <2>9. WorkIsOfARun'
    BY <2>6 DEF WorkIsOfARun
  <2> QED
    BY <1>3, <2>7, <2>8, <2>9 DEF RecommendationInv
<1> QED
  BY <1>4, <1>5

LEMMA DeriveForSearchKeeps ==
  ASSUME RecommendationInv, NEW q \in Requests, DeriveForSearch(q)
  PROVE  RecommendationInv'
<1> DEFINE r == request[q]
<1>1. r \in RequestRow /\ r.at = "derive" /\ r.cv \in Versions
  BY DEF RecommendationInv, RecommendationTyped, ReadsAreCurrent, DeriveForSearch
<1>2. /\ input' = input /\ request' = [request EXCEPT ![q] = NoRequest]
      /\ UNCHANGED <<run, queue, worker>>
      /\ profiles' = IF NumberFree(r) THEN Append(profiles, Derived(r)) ELSE profiles
  BY DEF DeriveForSearch, runVars
<1>3. ReadsAreCurrent' /\ request' \in [Requests -> RequestRow]
  BY <1>2, RequestEnds
<1>4. /\ profiles' \in Seq(Profile)
      /\ \A i \in DOMAIN profiles :
              /\ i \in DOMAIN profiles'
              /\ profiles'[i].cv = profiles[i].cv
              /\ profiles'[i].preference = profiles[i].preference
              /\ profiles'[i].reports = profiles[i].reports
  <2>1. profiles \in Seq(Profile)
    BY DEF RecommendationInv, RecommendationTyped
  <2>2. CASE ~ NumberFree(r)
    BY <1>2, <2>1, <2>2
  <2>3. CASE NumberFree(r)
    <3>1. Derived(r) \in Profile
      <4> HIDE DEF r
      <4> QED
        BY <1>1, DerivedIs
    <3>2. profiles' = Append(profiles, Derived(r)) /\ Retired(profiles)
      BY <1>2, <2>1, <2>3 DEF Retired
    <3> HIDE DEF r
    <3> QED
      BY <3>1, <3>2, ProfileAdded
  <2> QED
    BY <2>2, <2>3
<1>5. RunHasProfile'
  BY <1>2, <1>4, RunStays
<1>6. RecommendationTyped'
  BY <1>2, <1>3, <1>4 DEF RecommendationInv, RecommendationTyped
<1>7. WorkIsOfARun'
  BY <1>2 DEF WorkIsOfARun, RecommendationInv
<1> QED
  BY <1>3, <1>5, <1>6, <1>7 DEF RecommendationInv

\* What happens to a run changes its status alone.
LEMMA RunKeeps ==
  ASSUME RecommendationInv,
         \/ Publish \/ GiveFeedback
         \/ \E w \in Workers : Take(w) \/ Score(w) \/ Store(w) \/ Raise(w) \/ Fail(w)
                               \/ Acknowledge(w) \/ Crash(w)
  PROVE  RecommendationInv'
<1>1. UNCHANGED <<input, profiles, request>>
  BY DEF Publish, GiveFeedback, Take, Score, Store, Raise, Fail, Acknowledge, Crash, profileVars
<1>2. queue \in Nat /\ queue' \in Nat
  <2>1. queue \in Nat
    BY DEF RecommendationInv, RecommendationTyped
  <2>2. queue' = queue \/ queue' = queue + 1 \/ (queue > 0 /\ queue' = queue - 1)
    BY DEF Publish, GiveFeedback, Take, Score, Store, Raise, Fail, Acknowledge, Crash
  <2> QED
    BY <2>1, <2>2
<1>3. run.status # None
  <2>1. \/ run.status # None \/ queue > 0 \/ \E w \in Workers : worker[w].at # "idle"
    BY DEF Publish, GiveFeedback, Take, Score, Store, Raise, Fail, Acknowledge, Crash, None
  <2> QED
    BY <1>2, <2>1 DEF RecommendationInv, WorkIsOfARun
<1>4. /\ run' \in [status : {None, "queued", "processing", "completed", "failed"}, profile : Nat,
                   since : Inputs \union {None}]
      /\ run'.status # None /\ run'.profile = run.profile /\ run'.since = run.since
  <2>1. run \in [status : {None, "queued", "processing", "completed", "failed"}, profile : Nat,
                 since : Inputs \union {None}]
    BY DEF RecommendationInv, RecommendationTyped
  <2>2. \/ run' = run
        \/ \E s \in {"processing", "completed", "failed"} : run' = [run EXCEPT !.status = s]
    BY DEF Publish, GiveFeedback, Take, Score, Store, Raise, Fail, Acknowledge, Crash
  <2> QED
    BY <1>3, <2>1, <2>2 DEF None
<1>5. RecommendationTyped'
  BY <1>1, <1>2, <1>4 DEF RecommendationInv, RecommendationTyped
<1>6. ReadsAreCurrent'
  BY <1>1 DEF RecommendationInv, ReadsAreCurrent, Reads
<1>7. RunHasProfile'
  BY <1>1, <1>3, <1>4 DEF RecommendationInv, RunHasProfile, CurrentFor
<1>8. WorkIsOfARun'
  BY <1>4 DEF WorkIsOfARun
<1> QED
  BY <1>5, <1>6, <1>7, <1>8 DEF RecommendationInv

LEMMA RecommendationKeeps ==
  ASSUME RecommendationInv, [RecommendationNext]_recommendationVars
  PROVE  RecommendationInv'
<1>1. CASE RecommendationNext
  BY <1>1, ChangeKeeps, ReadsKeep, LookUpKeeps, DeriveKeeps, DeriveForSearchKeeps, RunKeeps
     DEF RecommendationNext
<1>2. CASE UNCHANGED recommendationVars
  <2>1. UNCHANGED <<input, profiles, request, run, queue, worker>>
    BY <1>2 DEF recommendationVars, profileVars, runVars
  <2> QED
    BY <2>1 DEF RecommendationInv, RecommendationTyped, ReadsAreCurrent, Reads, RunHasProfile,
                CurrentFor, WorkIsOfARun
<1> QED
  BY <1>1, <1>2

LEMMA RecommendationInvMeans == RecommendationInv => RunIsCurrent
BY DEF RecommendationInv, RunHasProfile, RunIsCurrent, CurrentFor

\* A message is in the queue or with a worker, and there are no more than were published;
\* a number that was chosen is one there is room for.
Executing == {w \in Workers : worker[w].at # "idle"}

RecommendationBounded ==
  /\ changes \in 0 .. MaxChanges
  /\ Len(profiles) <= MaxProfiles
  /\ \A q \in Requests : request[q].at = "derive" => request[q].next <= MaxProfiles
  /\ run.status = None => run.profile = 0
  /\ worker \in [Workers -> [at : {"idle", "rank", "store", "failing", "done"}, replaced : 0 .. 2]]
  /\ published \in 0 .. MaxMessages
  /\ queue + Cardinality(Executing) <= published
  /\ matches \in 0 .. 2 /\ feedback \in BOOLEAN

LEMMA BoundedStarts ==
  ASSUME RecommendationInit
  PROVE  RecommendationBounded
<1>1. Executing = {} /\ Cardinality({}) = 0
  BY FS_EmptySet DEF RecommendationInit, Executing, Resting
<1>2. queue + Cardinality(Executing) <= published
  BY <1>1 DEF RecommendationInit
<1>3. /\ changes \in 0 .. MaxChanges /\ Len(profiles) <= MaxProfiles
      /\ published \in 0 .. MaxMessages /\ matches \in 0 .. 2 /\ feedback \in BOOLEAN
  <2>1. MaxChanges \in Nat /\ MaxProfiles \in Nat /\ MaxMessages \in Nat
    BY RecommendationAssumption
  <2>2. changes = 0 /\ profiles = <<>> /\ published = 0 /\ matches = 0 /\ feedback = FALSE
    BY DEF RecommendationInit
  <2>3. Len(profiles) = 0
    BY <2>2
  <2>4. feedback \in BOOLEAN
    BY <2>2, Zenon
  <2> QED
    BY <2>1, <2>2, <2>3, <2>4
<1>4. \A q \in Requests : request[q].at # "derive"
  BY DEF RecommendationInit, NoRequest
<1>5. run.profile = 0
  BY DEF RecommendationInit, NoRun
<1>6. worker \in [Workers -> [at : {"idle", "rank", "store", "failing", "done"}, replaced : 0 .. 2]]
  <2>1. Resting \in [at : {"idle", "rank", "store", "failing", "done"}, replaced : 0 .. 2]
    BY DEF Resting
  <2> QED
    BY <2>1 DEF RecommendationInit
<1> QED
  BY <1>2, <1>3, <1>4, <1>5, <1>6 DEF RecommendationBounded

\* A step of a request, or a change of the inputs.
LEMMA RequestsStayBounded ==
  ASSUME RecommendationInv, RecommendationBounded,
         \/ ActivateVersion \/ ChangePreferences \/ ReportReady
         \/ \E q \in Requests : ReadVersion(q) \/ ReadPreference(q) \/ ReadReports(q) \/ LookUp(q)
                                \/ LookUpForSearch(q) \/ ReadNumber(q) \/ Derive(q)
                                \/ DeriveForSearch(q)
  PROVE  RecommendationBounded'
<1>1. /\ changes \in 0 .. MaxChanges /\ MaxChanges \in Nat /\ MaxProfiles \in Nat
      /\ profiles \in Seq(Profile) /\ Len(profiles) \in Nat /\ Len(profiles) <= MaxProfiles
      /\ request \in [Requests -> RequestRow]
  BY RecommendationAssumption
     DEF RecommendationInv, RecommendationTyped, RecommendationBounded
<1>2. UNCHANGED <<queue, published, worker, matches, feedback>>
  BY DEF ActivateVersion, ChangePreferences, ReportReady, Change, ReadVersion, ReadPreference,
         ReadReports, LookUp, LookUpForSearch, ReadNumber, Derive, DeriveForSearch, CreateRun,
         runVars
<1>3. changes' \in 0 .. MaxChanges
  <2>1. changes' = changes \/ (changes < MaxChanges /\ changes' = changes + 1)
    BY DEF ActivateVersion, ChangePreferences, ReportReady, Change, ReadVersion, ReadPreference,
           ReadReports, LookUp, LookUpForSearch, ReadNumber, Derive, DeriveForSearch
  <2> QED
    BY <1>1, <2>1
<1>4. run' = run \/ run'.status = "queued"
  <2>1. ASSUME NEW i, NEW since, CreateRun(i, since) PROVE run'.status = "queued"
    BY <2>1 DEF CreateRun
  <2>2. ASSUME NEW q \in Requests, LookUp(q) \/ Derive(q) PROVE run' = run \/ run'.status = "queued"
    BY <2>1, <2>2 DEF LookUp, Derive, runVars
  <2>3. ASSUME NEW q \in Requests,
               \/ ReadVersion(q) \/ ReadPreference(q) \/ ReadReports(q)
               \/ LookUpForSearch(q) \/ ReadNumber(q) \/ DeriveForSearch(q)
        PROVE  run' = run
    BY <2>3 DEF ReadVersion, ReadPreference, ReadReports, LookUpForSearch, ReadNumber,
                DeriveForSearch, runVars
  <2>4. ASSUME ActivateVersion \/ ChangePreferences \/ ReportReady PROVE run' = run
    BY <2>4 DEF ActivateVersion, ChangePreferences, ReportReady, Change, runVars
  <2> QED
    BY <2>2, <2>3, <2>4
<1>5. Len(profiles') <= MaxProfiles
  <2>1. CASE ActivateVersion \/ ChangePreferences \/ ReportReady
    <3>1. profiles' = Invalidated
      BY <2>1 DEF ActivateVersion, ChangePreferences, ReportReady, Change
    <3>2. Len(profiles') = Len(profiles)
      <4>1. DOMAIN profiles = 1 .. Len(profiles)
        BY <1>1
      <4>2. ASSUME NEW n \in Nat, NEW f, DOMAIN f = 1 .. n, f = [i \in 1 .. n |-> f[i]]
            PROVE  Len(f) = n
        BY <4>2
      <4>3. DOMAIN Invalidated = 1 .. Len(profiles)
            /\ Invalidated = [i \in 1 .. Len(profiles) |-> Invalidated[i]]
        BY <4>1 DEF Invalidated
      <4> QED
        BY <1>1, <3>1, <4>2, <4>3
    <3> QED
      BY <1>1, <3>2
  <2>2. ASSUME NEW q \in Requests, Derive(q) \/ DeriveForSearch(q)
        PROVE  Len(profiles') <= MaxProfiles
    <3> DEFINE r == request[q]
               kept == [i \in DOMAIN profiles |->
                          IF i \in r.fresh THEN [profiles[i] EXCEPT !.fresh = FALSE]
                          ELSE profiles[i]]
    <3>1. /\ r.next <= MaxProfiles
      BY <2>2 DEF RecommendationBounded, Derive, DeriveForSearch
    <3>2. \/ profiles' = profiles
          \/ NumberFree(r) /\ profiles' = Append(profiles, Derived(r))
          \/ NumberFree(r) /\ profiles' = Append(kept, Derived(r))
      BY <2>2 DEF Derive, DeriveForSearch
    <3>3. NumberFree(r) => Len(profiles) + 1 <= MaxProfiles
      BY <3>1 DEF NumberFree
    <3>4. Retired(kept) /\ Retired(profiles)
      BY <1>1 DEF Retired
    <3>5. r \in RequestRow /\ r.cv \in Versions
      BY <1>1, <2>2 DEF RecommendationInv, ReadsAreCurrent, Derive, DeriveForSearch
    <3> HIDE DEF kept, r
    <3>6. Derived(r) \in Profile
      BY <3>5, DerivedIs
    <3>7. profiles' = profiles \/ (NumberFree(r) /\ Len(profiles') = Len(profiles) + 1)
      BY <3>2, <3>4, <3>6, ProfileAdded
    <3> QED
      BY <1>1, <3>3, <3>7
  <2>3. ASSUME NEW q \in Requests,
               \/ ReadVersion(q) \/ ReadPreference(q) \/ ReadReports(q) \/ LookUp(q)
               \/ LookUpForSearch(q) \/ ReadNumber(q)
        PROVE  profiles' = profiles
    BY <2>3 DEF ReadVersion, ReadPreference, ReadReports, LookUp, LookUpForSearch, ReadNumber
  <2> QED
    BY <1>1, <2>1, <2>2, <2>3
<1>6. \A q \in Requests : request'[q].at = "derive" => request'[q].next <= MaxProfiles
  <2>1. CASE request' = request
    BY <2>1 DEF RecommendationBounded
  <2>2. ASSUME NEW k \in Requests, NEW row, request' = [request EXCEPT ![k] = row],
               row.at = "derive" => row.next <= MaxProfiles
        PROVE  \A q \in Requests : request'[q].at = "derive" => request'[q].next <= MaxProfiles
    BY <1>1, <2>2 DEF RecommendationBounded
  <2>3. ASSUME NEW k \in Requests, ReadNumber(k)
        PROVE  \E row : /\ request' = [request EXCEPT ![k] = row]
                        /\ row.at = "derive" => row.next <= MaxProfiles
    <3> DEFINE r == request[k]
               row == [r EXCEPT !.next = Len(profiles) + 1, !.at = "derive",
                                !.fresh = IF k = "search" THEN {} ELSE Fresh]
    <3>1. request' = [request EXCEPT ![k] = row] /\ Len(profiles) < MaxProfiles
      BY <1>1, <2>3 DEF ReadNumber
    <3>2. row.next = Len(profiles) + 1
      BY <1>1 DEF RequestRow
    <3> HIDE DEF row, r
    <3>3. row.at = "derive" => row.next <= MaxProfiles
      BY <1>1, <3>1, <3>2
    <3> QED
      BY <3>1, <3>3, Zenon
  <2>4. ASSUME NEW k \in Requests,
               \/ ReadVersion(k) \/ ReadPreference(k) \/ ReadReports(k) \/ LookUp(k)
               \/ LookUpForSearch(k) \/ Derive(k) \/ DeriveForSearch(k)
        PROVE  \E row : request' = [request EXCEPT ![k] = row] /\ row.at # "derive"
    <3> DEFINE r == request[k]
    <3>1. r \in RequestRow
      BY <1>1
    <3>2. CASE ReadVersion(k)
      <4>1. PICK v : request' = [request EXCEPT ![k] =
                       [NoRequest EXCEPT !.at = "preference", !.since = input, !.cv = v]]
        BY <3>2 DEF ReadVersion
      <4>2. [NoRequest EXCEPT !.at = "preference", !.since = input, !.cv = v].at = "preference"
        BY DEF NoRequest
      <4> QED
        BY <4>1, <4>2
    <3>3. CASE ReadPreference(k)
      <4> DEFINE row == [r EXCEPT !.preference = input.preference,
                                  !.at = IF k = "search" THEN "look" ELSE "reports"]
      <4>1. request' = [request EXCEPT ![k] = row]
        BY <1>1, <3>3 DEF ReadPreference
      <4>2. row.at # "derive"
        BY <3>1 DEF RequestRow
      <4> QED
        BY <4>1, <4>2
    <3>4. CASE ReadReports(k)
      <4> DEFINE row == [r EXCEPT !.reports = input.ready[r.cv],
                                  !.at = IF k = "search" THEN "number" ELSE "look"]
      <4>1. request' = [request EXCEPT ![k] = row]
        BY <1>1, <3>4 DEF ReadReports
      <4>2. row.at # "derive"
        BY <3>1 DEF RequestRow
      <4> QED
        BY <4>1, <4>2
    <3>5. CASE LookUp(k)
      <4> DEFINE row == [r EXCEPT !.at = "number"]
      <4>1. request' = [request EXCEPT ![k] = row] \/ request' = [request EXCEPT ![k] = NoRequest]
        BY <1>1, <3>5 DEF LookUp
      <4>2. row.at # "derive" /\ NoRequest.at # "derive"
        BY <3>1 DEF RequestRow, NoRequest
      <4> QED
        BY <4>1, <4>2
    <3>6. CASE LookUpForSearch(k)
      <4> DEFINE row == [r EXCEPT !.at = "reports"]
      <4>1. request' = [request EXCEPT ![k] = row] \/ request' = [request EXCEPT ![k] = NoRequest]
        BY <1>1, <3>6 DEF LookUpForSearch
      <4>2. row.at # "derive" /\ NoRequest.at # "derive"
        BY <3>1 DEF RequestRow, NoRequest
      <4> QED
        BY <4>1, <4>2
    <3>7. CASE Derive(k) \/ DeriveForSearch(k)
      <4>1. request' = [request EXCEPT ![k] = NoRequest]
        BY <3>7 DEF Derive, DeriveForSearch
      <4>2. NoRequest.at # "derive"
        BY DEF NoRequest
      <4> QED
        BY <4>1, <4>2
    <3> QED
      BY <2>4, <3>2, <3>3, <3>4, <3>5, <3>6, <3>7
  <2>5. ASSUME ActivateVersion \/ ChangePreferences \/ ReportReady
        PROVE  request' = request
    BY <2>5 DEF ActivateVersion, ChangePreferences, ReportReady, Change
  <2> QED
    BY <2>1, <2>2, <2>3, <2>4, <2>5
<1>7. Executing' = Executing
  BY <1>2 DEF Executing
<1>8. run'.status = None => run'.profile = 0
  BY <1>4 DEF RecommendationBounded, None
<1> QED
  BY <1>2, <1>3, <1>5, <1>6, <1>7, <1>8 DEF RecommendationBounded

\* A step of the run: what a worker takes leaves the queue, what it drops comes back.
LEMMA RunStaysBounded ==
  ASSUME RecommendationInv, RecommendationBounded,
         \/ Publish \/ GiveFeedback
         \/ \E w \in Workers : Take(w) \/ Score(w) \/ Store(w) \/ Raise(w) \/ Fail(w)
                               \/ Acknowledge(w) \/ Crash(w)
  PROVE  RecommendationBounded'
<1> DEFINE Doing == [at : {"idle", "rank", "store", "failing", "done"}, replaced : 0 .. 2]
<1>1. UNCHANGED <<changes, profiles, request>>
  BY DEF Publish, GiveFeedback, Take, Score, Store, Raise, Fail, Acknowledge, Crash, profileVars
<1>2. /\ queue \in Nat /\ published \in 0 .. MaxMessages /\ MaxMessages \in Nat
      /\ worker \in [Workers -> Doing] /\ matches \in 0 .. 2 /\ feedback \in BOOLEAN
      /\ queue + Cardinality(Executing) <= published
  BY RecommendationAssumption DEF RecommendationInv, RecommendationTyped, RecommendationBounded
<1>3. IsFiniteSet(Workers) /\ Executing \in SUBSET Workers
  BY RecommendationAssumption DEF Executing
<1>4. IsFiniteSet(Executing) /\ Cardinality(Executing) \in Nat
  BY <1>3, FS_Subset, FS_CardinalityType
<1>5. run'.status = None => run'.profile = 0
  <2>1. run \in [status : {None, "queued", "processing", "completed", "failed"}, profile : Nat,
                 since : Inputs \union {None}]
    BY DEF RecommendationInv, RecommendationTyped
  <2>2. \/ run' = run
        \/ \E s \in {"processing", "completed", "failed"} : run' = [run EXCEPT !.status = s]
    BY DEF Publish, GiveFeedback, Take, Score, Store, Raise, Fail, Acknowledge, Crash
  <2>3. run.status = None => run.profile = 0
    BY DEF RecommendationBounded
  <2>4. ASSUME NEW s \in {"processing", "completed", "failed"}, run' = [run EXCEPT !.status = s]
        PROVE  run'.status # None
    BY <2>1, <2>4 DEF None
  <2> QED
    BY <2>2, <2>3, <2>4
<1>6. matches' \in 0 .. 2
  <2>1. matches' = matches \/ matches' = 1 \/ matches' = 2
    BY DEF Publish, GiveFeedback, Take, Score, Store, Raise, Fail, Acknowledge, Crash
  <2> QED
    BY <1>2, <2>1
<1>7. feedback' \in BOOLEAN
  <2>1. feedback' = feedback \/ feedback' = TRUE \/ feedback' = FALSE
    BY DEF Publish, GiveFeedback, Take, Score, Store, Raise, Fail, Acknowledge, Crash
  <2> QED
    BY <1>2, <2>1, Zenon
<1>8. published' \in 0 .. MaxMessages /\ worker' \in [Workers -> Doing]
      /\ queue' + Cardinality(Executing') <= published'
  <2>1. CASE UNCHANGED worker
    <3>1. Executing' = Executing
      BY <2>1 DEF Executing
    <3>2. \/ Publish \/ GiveFeedback
          \/ \E w \in Workers : Take(w) /\ published' = published /\ queue' = queue - 1
          \/ queue' = queue /\ published' = published
          \/ \E w \in Workers : Crash(w)
      BY DEF Take, Score, Store, Raise, Fail, Acknowledge
    <3>3. ASSUME NEW w \in Workers, Crash(w) PROVE FALSE
      <4>1. worker' = [worker EXCEPT ![w] = Resting] /\ worker[w].at # "idle"
        BY <3>3 DEF Crash
      <4>2. worker'[w] = Resting
        BY <1>2, <4>1
      <4> QED
        BY <2>1, <4>1, <4>2 DEF Resting
    <3>4. CASE Publish
      BY <1>2, <1>4, <2>1, <3>1, <3>4 DEF Publish
    <3>5. CASE GiveFeedback
      BY <1>2, <2>1, <3>1, <3>5 DEF GiveFeedback
    <3>6. ASSUME queue' = queue \/ queue' = queue - 1, published' = published
          PROVE  /\ published' \in 0 .. MaxMessages
                 /\ queue' + Cardinality(Executing') <= published'
      BY <1>2, <1>4, <3>1, <3>6
    <3> QED
      BY <1>2, <2>1, <3>2, <3>3, <3>4, <3>5, <3>6
  <2>2. ASSUME NEW w \in Workers, NEW doing \in Doing, worker' = [worker EXCEPT ![w] = doing],
               published' = published,
               \/ worker[w].at # "idle" /\ doing.at = "idle" /\ queue' \in {queue, queue + 1}
               \/ worker[w].at # "idle" /\ doing.at # "idle" /\ queue' = queue
               \/ worker[w].at = "idle" /\ doing.at # "idle" /\ queue' = queue - 1
        PROVE  /\ worker' \in [Workers -> Doing] /\ published' \in 0 .. MaxMessages
               /\ queue' + Cardinality(Executing') <= published'
    <3> HIDE DEF Doing
    <3>1. worker' \in [Workers -> Doing] /\ published' \in 0 .. MaxMessages
      BY <1>2, <2>2
    <3>2. \A v \in Workers : worker'[v] = IF v = w THEN doing ELSE worker[v]
      BY <1>2, <2>2
    <3>3. CASE worker[w].at # "idle" /\ doing.at = "idle" /\ queue' \in {queue, queue + 1}
      <4>1. Executing' = Executing \ {w} /\ w \in Executing
        BY <3>2, <3>3 DEF Executing
      <4>2. Cardinality(Executing') = Cardinality(Executing) - 1
        BY <1>4, <4>1, FS_RemoveElement
      <4> QED
        BY <1>2, <1>4, <2>2, <3>1, <3>3, <4>2
    <3>4. CASE worker[w].at # "idle" /\ doing.at # "idle" /\ queue' = queue
      <4>1. Executing' = Executing
        BY <3>2, <3>4 DEF Executing
      <4> QED
        BY <1>2, <2>2, <3>1, <3>4, <4>1
    <3>5. CASE worker[w].at = "idle" /\ doing.at # "idle" /\ queue' = queue - 1
      <4>1. Executing' = Executing \union {w} /\ w \notin Executing
        BY <3>2, <3>5 DEF Executing
      <4>2. Cardinality(Executing') = Cardinality(Executing) + 1
        BY <1>4, <4>1, FS_AddElement
      <4> QED
        BY <1>2, <1>4, <2>2, <3>1, <3>5, <4>2
    <3> QED
      BY <2>2, <3>3, <3>4, <3>5
  <2>3. ASSUME ~ (UNCHANGED worker)
        PROVE  \E w \in Workers, doing \in Doing :
                 /\ worker' = [worker EXCEPT ![w] = doing] /\ published' = published
                 /\ \/ worker[w].at # "idle" /\ doing.at = "idle" /\ queue' \in {queue, queue + 1}
                    \/ worker[w].at # "idle" /\ doing.at # "idle" /\ queue' = queue
                    \/ worker[w].at = "idle" /\ doing.at # "idle" /\ queue' = queue - 1
    <3>1. PICK w \in Workers : \/ Take(w) \/ Score(w) \/ Store(w) \/ Raise(w) \/ Fail(w)
                               \/ Acknowledge(w) \/ Crash(w)
      BY <2>3 DEF Publish, GiveFeedback
    <3>2. worker[w] \in Doing
      BY <1>2
    <3>3. published' = published
      BY <3>1 DEF Take, Score, Store, Raise, Fail, Acknowledge, Crash
    <3>4. CASE Take(w)
      <4> DEFINE doing == [worker[w] EXCEPT !.at = "rank"]
      <4>1. worker' = [worker EXCEPT ![w] = doing] /\ worker[w].at = "idle" /\ queue' = queue - 1
        BY <1>2, <2>3, <3>4 DEF Take
      <4>2. doing \in Doing /\ doing.at # "idle"
        BY <3>2
      <4> QED
        BY <3>3, <4>1, <4>2
    <3>5. CASE Score(w)
      <4> DEFINE doing == [at |-> "store", replaced |-> matches]
      <4>1. worker' = [worker EXCEPT ![w] = doing] /\ worker[w].at # "idle" /\ queue' = queue
        BY <3>5 DEF Score
      <4>2. doing \in Doing /\ doing.at # "idle"
        BY <1>2
      <4> QED
        BY <3>3, <4>1, <4>2
    <3>6. CASE Store(w) \/ Raise(w)
      <4>1. PICK at \in {"failing", "done"} :
              /\ worker' = [worker EXCEPT ![w] = [at |-> at, replaced |-> 0]]
              /\ worker[w].at # "idle" /\ queue' = queue
        BY <3>6 DEF Store, Raise
      <4> DEFINE doing == [at |-> at, replaced |-> 0]
      <4>2. doing \in Doing /\ doing.at # "idle"
        OBVIOUS
      <4> QED
        BY <3>3, <4>1, <4>2
    <3>7. CASE Fail(w)
      <4> DEFINE doing == [worker[w] EXCEPT !.at = "done"]
      <4>1. worker' = [worker EXCEPT ![w] = doing] /\ worker[w].at # "idle" /\ queue' = queue
        BY <1>2, <3>7 DEF Fail
      <4>2. doing \in Doing /\ doing.at # "idle"
        BY <3>2
      <4> QED
        BY <3>3, <4>1, <4>2
    <3>8. CASE Acknowledge(w) \/ Crash(w)
      <4>1. /\ worker' = [worker EXCEPT ![w] = Resting] /\ worker[w].at # "idle"
            /\ queue' \in {queue, queue + 1}
        BY <3>8 DEF Acknowledge, Crash
      <4>2. Resting \in Doing /\ Resting.at = "idle"
        BY DEF Resting
      <4> QED
        BY <3>3, <4>1, <4>2
    <3> QED
      BY <3>1, <3>4, <3>5, <3>6, <3>7, <3>8
  <2> QED
    BY <2>1, <2>2, <2>3
<1> QED
  BY <1>1, <1>2, <1>5, <1>6, <1>7, <1>8 DEF RecommendationBounded

LEMMA RecommendationStaysBounded ==
  ASSUME RecommendationInv, RecommendationBounded, [RecommendationNext]_recommendationVars
  PROVE  RecommendationBounded'
<1>1. CASE RecommendationNext
  BY <1>1, RequestsStayBounded, RunStaysBounded DEF RecommendationNext
<1>2. CASE UNCHANGED recommendationVars
  <2>1. UNCHANGED <<changes, profiles, request, run, queue, published, worker, matches, feedback>>
    BY <1>2 DEF recommendationVars, profileVars, runVars
  <2> QED
    BY <2>1 DEF RecommendationBounded, Executing
<1> QED
  BY <1>1, <1>2

LEMMA RecommendationIsTyped ==
  ASSUME RecommendationInv, RecommendationBounded
  PROVE  RecommendationTypeOK
<1>1. /\ Len(profiles) \in Nat /\ DOMAIN profiles = 1 .. Len(profiles)
      /\ request \in [Requests -> RequestRow] /\ queue \in Nat
  BY DEF RecommendationInv, RecommendationTyped
<1>2. run.profile \in 0 .. Len(profiles)
  BY <1>1 DEF RecommendationInv, RunHasProfile, RecommendationBounded
<1>3. Cardinality(Executing) \in Nat
  <2>1. Executing \in SUBSET Workers /\ IsFiniteSet(Workers)
    BY RecommendationAssumption DEF Executing
  <2> QED
    BY <2>1, FS_Subset, FS_CardinalityType
<1>4. queue \in 0 .. MaxMessages
  <2>1. /\ published \in 0 .. MaxMessages /\ MaxMessages \in Nat
        /\ queue + Cardinality(Executing) <= published
    BY RecommendationAssumption DEF RecommendationBounded
  <2> QED
    BY <1>1, <1>3, <2>1
<1>5. \A q \in Requests :
        request[q].at \in {"idle", "preference", "reports", "look", "number", "derive"}
  BY <1>1 DEF RequestRow
<1>6. input \in Inputs /\ run.status \in {None, "queued", "processing", "completed", "failed"}
  BY DEF RecommendationInv, RecommendationTyped
<1>7. \A w \in Workers : worker[w].at \in {"idle", "rank", "store", "failing", "done"}
  BY DEF RecommendationBounded
<1> QED
  BY <1>2, <1>4, <1>5, <1>6, <1>7 DEF RecommendationTypeOK, RecommendationBounded
-----------------------------------------------------------------------------
(* The application.                                                        *)

LEMMA StatusesAre ==
  /\ Statuses = {"planned", "applied", "screening", "interviewing", "offered", "accepted",
                 "rejected", "withdrawn"}
  /\ Transitions["planned"] = {"applied", "withdrawn"}
  /\ Transitions["applied"] = {"screening", "rejected", "withdrawn"}
  /\ Transitions["screening"] = {"interviewing", "rejected", "withdrawn"}
  /\ Transitions["interviewing"] = {"offered", "rejected", "withdrawn"}
  /\ Transitions["offered"] = {"accepted", "rejected", "withdrawn"}
  /\ \A s \in {"accepted", "rejected", "withdrawn"} : Transitions[s] = {}
BY DEF Statuses, Transitions

LEMMA ClosedAre ==
  Closed = {"accepted", "rejected", "withdrawn"} /\ Absent \notin Statuses
<1>1. ASSUME NEW s \in Statuses
      PROVE  Transitions[s] = {} <=> s \in {"accepted", "rejected", "withdrawn"}
  BY StatusesAre
<1> QED
  BY <1>1, StatusesAre DEF Closed, Absent

Decision == [key: Nat, saw: Statuses \union {Absent}, expected: Nat,
             target: Statuses \union {Absent}]

ApplicationTyped ==
  /\ application \in [status: Statuses \union {Absent}, version: 0 .. MaxVersion,
                      applied: BOOLEAN, closed: BOOLEAN]
  /\ used \in Nat /\ replays \subseteq 1 .. used
  /\ device \in [Devices -> Decision]
  /\ \A d \in Devices : /\ device[d].key <= used
                        /\ device[d].key # 0 => /\ device[d].target \in Statuses
                                                /\ device[d].expected < MaxVersion
  /\ history \in Seq([from: Statuses \union {Absent}, to: Statuses, key: Nat,
                      saw: Statuses \union {Absent}])

\* A decision that is still up to date was made on the present status; one that was made
\* when there was no application is the only one there is.
Seen(d) ==
  device[d].key # 0 =>
    /\ device[d].expected <= application.version
    /\ device[d].expected = application.version => device[d].saw = application.status
    /\ device[d].saw = Absent /\ device[d].key \notin replays =>
         /\ application.status = Absent
         /\ \A e \in Devices \ {d} : device[e].key = 0

KeysDiffer == \A d, e \in Devices : d # e /\ device[d].key = device[e].key => device[d].key = 0

Dated ==
  /\ application.closed = (application.status \in Closed)
  /\ application.status \in {"applied", "screening", "interviewing", "offered", "accepted"} =>
       application.applied
  /\ application.status = Absent <=> application.version = 0

Story ==
  /\ \A i \in DOMAIN history : history[i].from = history[i].saw /\ history[i].key \in replays
  /\ \A i, k \in DOMAIN history : history[i].key = history[k].key => i = k
  /\ \A i \in 1 .. Len(history) - 1 : history[i].to = history[i + 1].from
  /\ history # <<>> => history[Len(history)].to = application.status

ApplicationInv ==
  ApplicationTyped /\ (\A d \in Devices : Seen(d)) /\ KeysDiffer /\ Dated /\ Story

LEMMA ApplicationStarts ==
  ASSUME ApplicationInit
  PROVE  ApplicationInv
<1>1. 0 \in 0 .. MaxVersion /\ 0 \in Nat
  BY ApplicationAssumption
<1>2. application = [status |-> Absent, version |-> 0, applied |-> FALSE, closed |-> FALSE]
      /\ history = <<>> /\ replays = {} /\ used = 0
      /\ device = [d \in Devices |-> [key |-> 0, saw |-> Absent, expected |-> 0, target |-> Absent]]
  BY DEF ApplicationInit, Waiting
<1>3. ApplicationTyped
  BY <1>1, <1>2 DEF ApplicationTyped, Decision
<1>4. (\A d \in Devices : Seen(d)) /\ KeysDiffer
  BY <1>2 DEF Seen, KeysDiffer
<1>5. Dated
  <2>1. application.status = Absent /\ application.version = 0 /\ application.closed = FALSE
    BY <1>2
  <2>2. Absent \notin Closed
    BY ClosedAre DEF Closed
  <2>3. Absent \notin {"applied", "screening", "interviewing", "offered", "accepted"}
    BY DEF Absent
  <2>4. ~(application.status \in Closed)
    BY <2>1, <2>2
  <2>5. application.closed = (application.status \in Closed)
    <3>1. (application.status \in Closed) = FALSE
      BY <2>4
    <3> QED
      BY <2>1, <3>1, Zenon
  <2> QED
    BY <2>1, <2>3, <2>5 DEF Dated
<1>6. Story
  <2>1. history = <<>>
    BY <1>2
  <2>2. DOMAIN history = {}
    BY <2>1
  <2>3. 1 .. Len(history) - 1 = {}
    BY <2>1
  <2> QED
    BY <2>1, <2>2, <2>3 DEF Story
<1> QED
  BY <1>3, <1>4, <1>5, <1>6 DEF ApplicationInv

LEMMA DecideKeeps ==
  ASSUME ApplicationInv, NEW d \in Devices, Decide(d)
  PROVE  ApplicationInv'
<1> USE DEF ApplicationInv
<1>1. /\ device[d].key = 0 /\ application.version < MaxVersion /\ used' = used + 1
      /\ application.status = Absent => \A e \in Devices : device[e].key = 0
      /\ UNCHANGED <<application, history, replays>>
  BY DEF Decide
<1>2. PICK target \in Statuses :
        device' = [device EXCEPT ![d] =
          [key |-> used + 1, saw |-> application.status,
           expected |-> application.version, target |-> target]]
  BY DEF Decide
<1> DEFINE row == [key |-> used + 1, saw |-> application.status,
                   expected |-> application.version, target |-> target]
<1>3. /\ row \in Decision /\ row.key = used + 1 /\ row.saw = application.status
      /\ row.expected = application.version /\ row.target = target
      /\ used \in Nat /\ application.version \in Nat
  BY ApplicationAssumption DEF ApplicationTyped, Decision
<1> HIDE DEF row
<1>4. device'[d] = row /\ \A e \in Devices \ {d} : device'[e] = device[e]
  BY <1>2 DEF ApplicationTyped, row
<1>5. device' \in [Devices -> Decision]
  BY <1>2, <1>3 DEF ApplicationTyped, row
<1>6. ApplicationTyped'
  <2>1. \A e \in Devices : /\ device'[e].key <= used'
                           /\ device'[e].key # 0 => /\ device'[e].target \in Statuses
                                                    /\ device'[e].expected < MaxVersion
    <3>1. ASSUME NEW e \in Devices, e # d PROVE device[e].key \in Nat /\ device[e].key <= used
      BY DEF ApplicationTyped, Decision
    <3> QED
      BY <1>1, <1>3, <1>4, <3>1 DEF ApplicationTyped
  <2>2. used' \in Nat /\ replays' \subseteq 1 .. used'
    BY <1>1, <1>3 DEF ApplicationTyped
  <2> QED
    BY <1>1, <1>5, <2>1, <2>2 DEF ApplicationTyped
<1>7. ASSUME NEW e \in Devices PROVE Seen(e)'
  <2>1. CASE e = d
    BY <1>1, <1>3, <1>4, <2>1 DEF Seen
  <2>2. CASE e # d
    <3>1. device'[e] = device[e] /\ Seen(e)
      BY <1>4, <2>2
    <3>2. device[e].key # 0 => application.status # Absent
      BY <1>1
    <3> QED
      BY <1>1, <3>1, <3>2 DEF Seen
  <2> QED
    BY <2>1, <2>2
<1>8. KeysDiffer'
  <2>1. ASSUME NEW e \in Devices \ {d} PROVE device'[e].key \in Nat /\ device'[e].key <= used
    BY <1>4 DEF ApplicationTyped, Decision
  <2> QED
    BY <1>3, <1>4, <2>1 DEF KeysDiffer
<1>9. Dated' /\ Story'
  BY <1>1 DEF Dated, Story
<1> QED
  BY <1>6, <1>7, <1>8, <1>9

\* What is served was decided on the status it replaces, and leaves the bound.
LEMMA AcceptedIsUpToDate ==
  ASSUME ApplicationInv, NEW d \in Devices, device[d].key # 0, Accepted(device[d])
  PROVE  /\ device[d].key \notin replays /\ device[d].saw = application.status
         /\ application.version < MaxVersion
         /\ application.status # Absent => Allowed(application.status, device[d].target)
<1> USE DEF ApplicationInv
<1>1. device[d].key \notin replays
  BY DEF Accepted, New
<1>2. CASE device[d].saw = Absent
  <2>1. application.status = Absent
    BY <1>1, <1>2 DEF Seen
  <2> QED
    BY <1>1, <1>2, <2>1, ApplicationAssumption DEF Dated
<1>3. CASE device[d].saw # Absent
  <2>1. application.version = device[d].expected /\ Allowed(application.status, device[d].target)
    BY <1>3 DEF Accepted, Unchanged
  <2> QED
    BY <1>1, <2>1 DEF Seen, ApplicationTyped
<1> QED
  BY <1>2, <1>3

\* The row that is written has its dates.
LEMMA WrittenIsDated ==
  ASSUME ApplicationInv, NEW d \in Devices, device[d].key # 0, Accepted(device[d]),
         application' = Written(device[d])
  PROVE  /\ Dated' /\ application'.status = device[d].target
         /\ application'.version = application.version + 1
         /\ application' \in [status: Statuses \union {Absent}, version: 0 .. MaxVersion,
                              applied: BOOLEAN, closed: BOOLEAN]
<1> USE DEF ApplicationInv
<1> DEFINE r == device[d]
           old == application
           new == application'
<1>1. /\ r.saw = old.status /\ old.version < MaxVersion
      /\ old.status # Absent => Allowed(old.status, r.target)
  BY AcceptedIsUpToDate
<1>2. r.target \in Statuses /\ old.version \in Nat /\ old.status \in Statuses \union {Absent}
      /\ old.applied \in BOOLEAN /\ old.closed \in BOOLEAN
  BY ApplicationAssumption DEF ApplicationTyped
<1>3. /\ new.status = r.target /\ new.version = old.version + 1
      /\ new.applied = (old.applied \/ r.target = "applied"
                          \/ (r.saw = Absent /\ r.target # "planned"))
      /\ new.closed = (old.closed \/ r.target \in Closed)
      /\ new = [status |-> new.status, version |-> new.version, applied |-> new.applied,
                closed |-> new.closed]
  BY DEF Written
<1>4. /\ old.closed = (old.status \in Closed)
      /\ old.status \in {"applied", "screening", "interviewing", "offered", "accepted"}
           => old.applied
  BY DEF Dated
<1> HIDE DEF r, old, new
<1>5. r.target # Absent /\ Absent \notin Closed
  BY <1>2, ClosedAre, StatusesAre
<1>6. new.closed = (new.status \in Closed)
  <2>1. CASE old.closed
    <3>1. old.status \in Closed /\ old.status # Absent /\ Transitions[old.status] = {}
      BY <1>4, <1>5, <2>1 DEF Closed
    <3> QED
      BY <1>1, <1>3, <2>1, <3>1 DEF Allowed
  <2>2. CASE ~old.closed
    BY <1>3, <2>2
  <2> QED
    BY <2>1, <2>2
<1>7. new.status \in {"applied", "screening", "interviewing", "offered", "accepted"} => new.applied
  <2>1. CASE old.status = Absent
    BY <1>1, <1>3, <2>1
  <2>2. CASE old.status # Absent
    <3>1. old.status \in Statuses /\ (r.target = old.status \/ r.target \in Transitions[old.status])
      BY <1>1, <1>2, <2>2 DEF Allowed
    <3>2. r.target \in {"screening", "interviewing", "offered", "accepted"} =>
            old.status \in {"applied", "screening", "interviewing", "offered", "accepted"}
      BY <3>1, StatusesAre
    <3> QED
      BY <1>3, <1>4, <3>2
  <2> QED
    BY <2>1, <2>2
<1>8. new.version # 0 /\ new.version \in 0 .. MaxVersion /\ new.status # Absent
  BY <1>1, <1>2, <1>3, <1>5, ApplicationAssumption
<1>9. new.applied \in BOOLEAN /\ new.closed \in BOOLEAN
  BY <1>2, <1>3
<1>10. new \in [status: Statuses \union {Absent}, version: 0 .. MaxVersion,
                applied: BOOLEAN, closed: BOOLEAN]
  BY <1>2, <1>3, <1>8, <1>9
<1> QED
  BY <1>3, <1>6, <1>7, <1>8, <1>10 DEF Dated, r, old, new

\* The event that is added goes on with the story.
LEMMA StoryGoesOn ==
  ASSUME ApplicationInv, NEW d \in Devices, device[d].key # 0, Accepted(device[d]),
         application'.status = device[d].target,
         history' = Append(history, [from |-> application.status, to |-> device[d].target,
                                     key |-> device[d].key, saw |-> device[d].saw]),
         replays' = replays \union {device[d].key}
  PROVE  /\ Story'
         /\ history' \in Seq([from: Statuses \union {Absent}, to: Statuses, key: Nat,
                              saw: Statuses \union {Absent}])
<1> USE DEF ApplicationInv
<1> DEFINE Event == [from: Statuses \union {Absent}, to: Statuses, key: Nat,
                     saw: Statuses \union {Absent}]
           e == [from |-> application.status, to |-> device[d].target,
                 key |-> device[d].key, saw |-> device[d].saw]
           h == history'
<1>1. /\ device[d].key \notin replays /\ device[d].saw = application.status
  BY AcceptedIsUpToDate
<1>2. /\ e \in Event /\ e.from = application.status /\ e.to = device[d].target
      /\ e.key = device[d].key /\ e.saw = application.status /\ history \in Seq(Event)
  BY <1>1 DEF ApplicationTyped, Decision
<1>3. h = Append(history, e)
  OBVIOUS
<1> HIDE DEF e, Event, h
<1>4. /\ h \in Seq(Event) /\ Len(h) = Len(history) + 1 /\ h[Len(history) + 1] = e
      /\ \A i \in 1 .. Len(history) : h[i] = history[i]
      /\ Len(history) \in Nat
  BY <1>2, <1>3
<1>5. DOMAIN h = 1 .. Len(history) + 1 /\ DOMAIN history = 1 .. Len(history)
  BY <1>2, <1>4
<1>6. \A i \in DOMAIN h : h[i].from = h[i].saw /\ h[i].key \in replays'
  <2>1. ASSUME NEW i \in DOMAIN h PROVE i \in DOMAIN history \/ i = Len(history) + 1
    BY <1>4, <1>5
  <2> QED
    BY <1>2, <1>4, <1>5, <2>1 DEF Story
<1>7. \A i, k \in DOMAIN h : h[i].key = h[k].key => i = k
  <2>1. ASSUME NEW i \in DOMAIN h, i # Len(history) + 1
        PROVE  i \in DOMAIN history /\ h[i] = history[i] /\ h[i].key \in replays
    BY <1>4, <1>5, <2>1 DEF Story
  <2>2. h[Len(history) + 1].key \notin replays
    BY <1>1, <1>2, <1>4
  <2> QED
    BY <2>1, <2>2 DEF Story
<1>8. \A i \in 1 .. Len(h) - 1 : h[i].to = h[i + 1].from
  <2>1. ASSUME NEW i \in 1 .. Len(history) PROVE h[i].to = h[i + 1].from
    <3>1. CASE i = Len(history)
      <4>1. history # <<>> /\ h[i] = history[Len(history)] /\ h[i + 1] = e
        BY <1>4, <3>1
      <4> QED
        BY <1>2, <4>1 DEF Story
    <3>2. CASE i # Len(history)
      <4>1. i \in 1 .. Len(history) - 1 /\ i + 1 \in 1 .. Len(history)
        BY <1>4, <3>2
      <4> QED
        BY <1>4, <4>1 DEF Story
    <3> QED
      BY <3>1, <3>2
  <2> QED
    BY <1>4, <2>1
<1>9. h[Len(h)].to = application'.status
  BY <1>2, <1>4
<1> QED
  BY <1>4, <1>6, <1>7, <1>8, <1>9 DEF Story, h, Event

LEMMA SendKeeps ==
  ASSUME ApplicationInv, NEW d \in Devices, Send(d)
  PROVE  ApplicationInv'
<1> USE DEF ApplicationInv
<1>1. /\ device[d].key # 0 /\ used' = used
      /\ device' \in {device, [device EXCEPT ![d] = Waiting]}
  BY DEF Send
<1>2. /\ Waiting \in Decision /\ Waiting.key = 0
  BY DEF Waiting, Decision
<1>3. /\ device' \in [Devices -> Decision]
      /\ \A e \in Devices : device'[e] = device[e] \/ device'[e].key = 0
  BY <1>1, <1>2 DEF ApplicationTyped
<1>4. /\ \A e \in Devices : /\ device'[e].key <= used'
                            /\ device'[e].key # 0 => /\ device'[e].target \in Statuses
                                                     /\ device'[e].expected < MaxVersion
      /\ used' \in Nat
  BY <1>1, <1>3 DEF ApplicationTyped
<1>5. KeysDiffer'
  BY <1>3 DEF KeysDiffer
<1>6. CASE ~Accepted(device[d])
  <2>1. UNCHANGED <<application, history, replays>>
    BY <1>6 DEF Send
  <2>2. ApplicationTyped'
    BY <1>1, <1>3, <1>4, <2>1 DEF ApplicationTyped
  <2>3. (\A e \in Devices : Seen(e))'
    BY <1>3, <2>1 DEF Seen
  <2>4. Dated' /\ Story'
    BY <2>1 DEF Dated, Story
  <2> QED
    BY <1>5, <2>2, <2>3, <2>4
<1>7. CASE Accepted(device[d])
  <2>1. /\ application' = Written(device[d])
        /\ history' = Append(history, [from |-> application.status, to |-> device[d].target,
                                       key |-> device[d].key, saw |-> device[d].saw])
        /\ replays' = replays \union {device[d].key}
    BY <1>7 DEF Send
  <2>2. /\ Dated' /\ application'.status = device[d].target
        /\ application'.version = application.version + 1
        /\ application' \in [status: Statuses \union {Absent}, version: 0 .. MaxVersion,
                             applied: BOOLEAN, closed: BOOLEAN]
    BY <1>1, <1>7, <2>1, WrittenIsDated
  <2>3. /\ Story'
        /\ history' \in Seq([from: Statuses \union {Absent}, to: Statuses, key: Nat,
                             saw: Statuses \union {Absent}])
    BY <1>1, <1>7, <2>1, <2>2, StoryGoesOn
  <2>4. device[d].key \in 1 .. used
    BY <1>1 DEF ApplicationTyped, Decision
  <2>5. ApplicationTyped'
    BY <1>1, <1>3, <1>4, <2>1, <2>2, <2>3, <2>4 DEF ApplicationTyped
  <2>6. ASSUME NEW e \in Devices PROVE Seen(e)'
    <3>1. CASE device'[e].key = 0
      BY <3>1 DEF Seen
    <3>2. CASE device'[e].key # 0
      <4>1. device'[e] = device[e] /\ Seen(e) /\ device[e].key # 0
        BY <1>3, <3>2
      <4>2. device[e].expected \in Nat /\ application.version \in Nat
        BY ApplicationAssumption DEF ApplicationTyped, Decision
      <4>3. device'[e].expected <= application'.version
            /\ device'[e].expected # application'.version
        BY <2>2, <4>1, <4>2 DEF Seen
      <4>4. device[e].saw = Absent /\ device[e].key \notin replays' => FALSE
        BY <1>1, <2>1, <4>1 DEF Seen
      <4> QED
        BY <4>1, <4>3, <4>4 DEF Seen
    <3> QED
      BY <3>1, <3>2
  <2> QED
    BY <1>5, <2>2, <2>3, <2>5, <2>6
<1> QED
  BY <1>6, <1>7

LEMMA ApplicationKeeps ==
  ASSUME ApplicationInv, [ApplicationNext]_applicationVars
  PROVE  ApplicationInv'
<1>1. CASE ApplicationNext
  BY <1>1, DecideKeeps, SendKeeps DEF ApplicationNext
<1>2. CASE UNCHANGED applicationVars
  <2>1. UNCHANGED <<application, history, replays, device, used>>
    BY <1>2 DEF applicationVars
  <2> QED
    BY <2>1 DEF ApplicationInv, ApplicationTyped, Seen, KeysDiffer, Dated, Story
<1> QED
  BY <1>1, <1>2

LEMMA ApplicationInvMeans == ApplicationInv => HistoryIsOneStory /\ ApplicationTypeOK
<1>1. ApplicationInv => HistoryIsOneStory
  BY DEF ApplicationInv, Dated, Story, HistoryIsOneStory
<1>2. ApplicationInv => ApplicationTypeOK
  <2> SUFFICES ASSUME ApplicationInv PROVE ApplicationTypeOK
    OBVIOUS
  <2>1. \A d \in Devices : device[d].key \in 0 .. used
    BY DEF ApplicationInv, ApplicationTyped, Decision
  <2> QED
    BY <2>1 DEF ApplicationInv, ApplicationTyped, ApplicationTypeOK
<1> QED
  BY <1>1, <1>2
-----------------------------------------------------------------------------
(* The calls of a provider.                                                *)

CallerRow ==
  [step : {"idle", "budgeted", "admitted", "counted", "refused", "calling",
           "failed", "tripping", "leaving", "emptied", "charging"},
   attempt : 0 .. RetryAttempts, slot : Stores \union {"none"}, returned : BOOLEAN]

\* A call has a slot from its admission until it gives it back.
Slotted(row) ==
  /\ row.step \in {"idle", "budgeted", "admitted", "counted", "refused", "charging"} =>
       row.slot = "none"
  /\ row.step \in {"calling", "tripping", "leaving"} => row.slot \in Stores
  /\ row.step = "emptied" => row.slot = "redis"

\* What a call has counted in Redis, and in the local copy.
InRedis(row) ==
  IF row.step \in {"counted", "refused"} \/ (row.slot = "redis" /\ row.step # "emptied")
    THEN 1 ELSE 0
InLocal(row) == IF row.slot = "local" THEN 1 ELSE 0

ProviderInv ==
  ProviderTypeOK /\ (\A c \in Callers : Slotted(caller[c])) /\ CallsAccounted

\* The variables besides caller.
CountersTyped ==
  /\ slots \in [Stores -> Int] /\ lost \in Nat
  /\ circuit \in [Stores -> [failures : Nat, isOpen : BOOLEAN]]
  /\ spent \in [Stores -> Nat] /\ faults \in 0 .. MaxFaults

\* The counters change by what the call counts, or the key is deleted.
Follows(c, row) ==
  /\ \/ slots'["redis"] <= 0
     \/ slots'["redis"] - lost' - InRedis(row) <= slots["redis"] - lost - InRedis(caller[c])
  /\ slots'["local"] - InLocal(row) = slots["local"] - InLocal(caller[c])

LEMMA ProviderStarts ==
  ASSUME ProviderInit
  PROVE  ProviderInv
<1>1. /\ caller = [c \in Callers |-> IdleCaller] /\ slots = [b \in Stores |-> 0] /\ lost = 0
      /\ circuit = [b \in Stores |-> ClosedCircuit] /\ spent = [b \in Stores |-> 0] /\ faults = 0
  BY DEF ProviderInit
<1>2. IdleCaller \in CallerRow /\ Slotted(IdleCaller) /\ IdleCaller.slot = "none"
      /\ IdleCaller.step = "idle"
  <2>1. 0 \in 0 .. RetryAttempts
    BY ProviderAssumption
  <2> QED
    BY <2>1 DEF IdleCaller, CallerRow, Slotted
<1>3. ClosedCircuit \in [failures : Nat, isOpen : BOOLEAN] /\ 0 \in 0 .. MaxFaults
  BY ProviderAssumption DEF ClosedCircuit
<1>4. ProviderTypeOK
  BY <1>1, <1>2, <1>3 DEF ProviderTypeOK, CallerRow
<1>5. {c \in Callers : Counted(c)} = {} /\ {c \in Callers : caller[c].slot = "local"} = {}
  BY <1>1, <1>2 DEF Counted
<1>6. CallsAccounted
  <2>1. Cardinality({c \in Callers : Counted(c)}) = 0
        /\ Cardinality({c \in Callers : caller[c].slot = "local"}) = 0
    BY <1>5, FS_EmptySet
  <2>2. slots["redis"] = 0 /\ slots["local"] = 0
    BY <1>1 DEF Stores
  <2> QED
    BY <1>1, <2>1, <2>2 DEF CallsAccounted
<1> QED
  BY <1>1, <1>2, <1>4, <1>6 DEF ProviderInv

\* A set of calls that differs in one call.
LEMMA OneCallDiffers ==
  ASSUME NEW S \in SUBSET Callers, NEW T \in SUBSET Callers, NEW c \in Callers, S \ {c} = T \ {c}
  PROVE  /\ Cardinality(S) \in Nat /\ Cardinality(T) \in Nat
         /\ Cardinality(T) - (IF c \in T THEN 1 ELSE 0)
              = Cardinality(S) - (IF c \in S THEN 1 ELSE 0)
<1>1. ASSUME NEW U \in SUBSET Callers
      PROVE  /\ IsFiniteSet(U) /\ Cardinality(U) \in Nat
             /\ Cardinality(U) - (IF c \in U THEN 1 ELSE 0) = Cardinality(U \ {c})
  <2>1. IsFiniteSet(U) /\ Cardinality(U) \in Nat
    BY ProviderAssumption, FS_Subset, FS_CardinalityType
  <2>2. CASE c \in U
    <3>1. Cardinality(U \ {c}) = Cardinality(U) - 1
      BY <2>1, <2>2, FS_RemoveElement
    <3>2. (IF c \in U THEN 1 ELSE 0) = 1
      BY <2>2
    <3> HIDE <2>2
    <3> QED
      BY <2>1, <3>1, <3>2
  <2>3. CASE c \notin U
    <3>1. Cardinality(U \ {c}) = Cardinality(U)
      <4>1. U \ {c} = U
        BY <2>3
      <4> QED
        BY <4>1
    <3>2. (IF c \in U THEN 1 ELSE 0) = 0
      BY <2>3
    <3> HIDE <2>3
    <3> QED
      BY <2>1, <3>1, <3>2
  <2> QED
    BY <2>2, <2>3
<1> QED
  BY <1>1

\* A call goes on, and the counters follow it.
LEMMA CallKeeps ==
  ASSUME ProviderInv, NEW c \in Callers, NEW row \in CallerRow, Slotted(row),
         caller' = [caller EXCEPT ![c] = row], CountersTyped',
         Follows(c, row)
  PROVE  ProviderInv'
<1> USE DEF ProviderInv
<1>1. caller \in [Callers -> CallerRow] /\ CountersTyped
  BY DEF ProviderTypeOK, CallerRow, CountersTyped
<1>2. /\ caller' \in [Callers -> CallerRow] /\ caller'[c] = row
      /\ \A d \in Callers \ {c} : caller'[d] = caller[d]
  BY <1>1
<1>3. ProviderTypeOK'
  BY <1>2 DEF ProviderTypeOK, CallerRow, CountersTyped
<1>4. ASSUME NEW d \in Callers PROVE Slotted(caller'[d])
  BY <1>2
<1> DEFINE S == {d \in Callers : Counted(d)}
           T == {d \in Callers : Counted(d)'}
           L == {d \in Callers : caller[d].slot = "local"}
           M == {d \in Callers : caller'[d].slot = "local"}
<1>5. S \ {c} = T \ {c} /\ L \ {c} = M \ {c}
  BY <1>2 DEF Counted, At
<1>6. /\ InRedis(row) = (IF c \in T THEN 1 ELSE 0)
      /\ InRedis(caller[c]) = (IF c \in S THEN 1 ELSE 0)
      /\ InLocal(row) = (IF c \in M THEN 1 ELSE 0)
      /\ InLocal(caller[c]) = (IF c \in L THEN 1 ELSE 0)
  BY <1>2 DEF InRedis, InLocal, Counted, At
<1>7. /\ slots["redis"] <= Cardinality(S) + lost /\ slots["local"] = Cardinality(L)
  BY DEF CallsAccounted
<1>8. S \in SUBSET Callers /\ T \in SUBSET Callers /\ L \in SUBSET Callers /\ M \in SUBSET Callers
  OBVIOUS
<1>9. /\ slots["redis"] \in Int /\ slots["local"] \in Int /\ lost \in Nat
      /\ slots'["redis"] \in Int /\ slots'["local"] \in Int /\ lost' \in Nat
  BY <1>1 DEF CountersTyped, Stores
<1> DEFINE s == Cardinality(S)
           t == Cardinality(T)
           l == Cardinality(L)
           m == Cardinality(M)
<1>10. CallsAccounted' <=> slots'["redis"] <= t + lost' /\ slots'["local"] = m
  BY DEF CallsAccounted
<1> HIDE DEF S, T, L, M
<1>11. s \in Nat /\ t \in Nat /\ t - InRedis(row) = s - InRedis(caller[c])
  BY <1>5, <1>6, <1>8, OneCallDiffers
<1>12. l \in Nat /\ m \in Nat /\ m - InLocal(row) = l - InLocal(caller[c])
  BY <1>5, <1>6, <1>8, OneCallDiffers
<1>13. /\ InRedis(row) \in {0, 1} /\ InRedis(caller[c]) \in {0, 1}
       /\ InLocal(row) \in {0, 1} /\ InLocal(caller[c]) \in {0, 1}
  BY DEF InRedis, InLocal
<1> HIDE DEF s, t, l, m
<1>14. slots'["local"] = m
  BY <1>7, <1>9, <1>12, <1>13 DEF l, Follows
<1>15. slots'["redis"] <= t + lost'
  BY <1>7, <1>9, <1>11, <1>13 DEF s, Follows
<1> QED
  BY <1>3, <1>4, <1>10, <1>14, <1>15

\* What is known of a call.
LEMMA CallIs ==
  ASSUME ProviderInv, NEW c \in Callers
  PROVE  /\ caller[c] \in CallerRow /\ Slotted(caller[c]) /\ CountersTyped
         /\ slots["redis"] \in Int /\ slots["local"] \in Int /\ lost \in Nat
         /\ DOMAIN slots = Stores /\ Stores = {"redis", "local"}
         /\ IdleCaller \in CallerRow /\ Slotted(IdleCaller) /\ InRedis(IdleCaller) = 0
         /\ InLocal(IdleCaller) = 0
<1>1. caller[c] \in CallerRow /\ Slotted(caller[c]) /\ CountersTyped
  BY DEF ProviderInv, ProviderTypeOK, CallerRow, CountersTyped
<1>2. slots["redis"] \in Int /\ slots["local"] \in Int /\ lost \in Nat
      /\ DOMAIN slots = Stores /\ Stores = {"redis", "local"}
  BY <1>1 DEF CountersTyped, Stores
<1>3. IdleCaller \in CallerRow
  <2>1. 0 \in 0 .. RetryAttempts
    BY ProviderAssumption
  <2> QED
    BY <2>1 DEF IdleCaller, CallerRow
<1>4. Slotted(IdleCaller) /\ InRedis(IdleCaller) = 0 /\ InLocal(IdleCaller) = 0
  BY DEF IdleCaller, Slotted, InRedis, InLocal
<1> QED
  BY <1>1, <1>2, <1>3, <1>4

\* A call goes to another step, and stays where it is counted.
LEMMA GoesIs ==
  ASSUME ProviderInv, NEW c \in Callers,
         NEW step \in {"budgeted", "admitted", "counted", "refused", "tripping", "leaving",
                       "emptied"},
         Goes(c, step),
         step \in {"budgeted", "admitted", "counted", "refused"} => caller[c].slot = "none",
         step \in {"tripping", "leaving"} => caller[c].slot \in Stores,
         step = "emptied" => caller[c].slot = "redis"
  PROVE  \E row \in CallerRow :
           /\ Slotted(row) /\ caller' = [caller EXCEPT ![c] = row]
           /\ row.step = step /\ row.slot = caller[c].slot
<1> DEFINE row == [caller[c] EXCEPT !.step = step]
<1>1. caller' = [caller EXCEPT ![c] = row]
  BY DEF Goes, ProviderInv, ProviderTypeOK
<1>2. row \in CallerRow /\ row.step = step /\ row.slot = caller[c].slot
  BY CallIs DEF CallerRow
<1> HIDE DEF row
<1>3. Slotted(row)
  BY <1>2 DEF Slotted
<1> QED
  BY <1>1, <1>2, <1>3

LEMMA ReachesIs ==
  ASSUME ProviderInv, NEW b \in Stores, Reaches(b)
  PROVE  faults' \in 0 .. MaxFaults
BY ProviderAssumption DEF Reaches, ProviderInv, ProviderTypeOK

\* The steps before a slot is taken.
LEMMA BudgetKeeps ==
  ASSUME ProviderInv, NEW c \in Callers, NEW b \in Stores,
         EnsureBudget(c, b) \/ EnsureCircuitClosed(c, b)
  PROVE  ProviderInv'
<1>1. caller[c].step \in {"idle", "budgeted"} /\ UNCHANGED <<slots, lost, circuit, spent>>
      /\ faults' \in 0 .. MaxFaults
      /\ (Goes(c, "budgeted") \/ Goes(c, "admitted") \/ Done(c))
  BY ReachesIs DEF EnsureBudget, EnsureCircuitClosed, At
<1>2. caller[c].slot = "none" /\ InRedis(caller[c]) = 0 /\ InLocal(caller[c]) = 0
  BY <1>1, CallIs DEF Slotted, InRedis, InLocal
<1>3. CountersTyped'
  BY <1>1, CallIs DEF CountersTyped
<1>4. PICK row \in CallerRow : /\ Slotted(row) /\ caller' = [caller EXCEPT ![c] = row]
                               /\ InRedis(row) = 0 /\ InLocal(row) = 0
  <2>1. CASE Done(c)
    BY <2>1, CallIs DEF Done
  <2>2. CASE Goes(c, "budgeted") \/ Goes(c, "admitted")
    <3>1. PICK step \in {"budgeted", "admitted"} : Goes(c, step)
      BY <2>2
    <3>2. PICK row \in CallerRow : /\ Slotted(row) /\ caller' = [caller EXCEPT ![c] = row]
                                   /\ row.step = step /\ row.slot = "none"
      BY <1>2, <3>1, GoesIs
    <3>3. InRedis(row) = 0 /\ InLocal(row) = 0
      BY <3>2 DEF InRedis, InLocal
    <3> QED
      BY <3>2, <3>3
  <2> QED
    BY <1>1, <2>1, <2>2
<1>20. Follows(c, row)
  BY <1>1, <1>2, <1>3, <1>4, CallIs DEF Follows
<1> QED
  BY <1>1, <1>2, <1>3, <1>4, <1>20, CallIs, CallKeeps

LEMMA CountKeeps ==
  ASSUME ProviderInv, NEW c \in Callers, Count(c)
  PROVE  ProviderInv'
<1>1. /\ caller[c].step = "admitted" /\ UNCHANGED <<lost, circuit, spent, faults>>
      /\ slots' = [slots EXCEPT !["redis"] = @ + 1]
  BY DEF Count, At
<1>2. PICK step \in {"counted", "refused"} : Goes(c, step)
  BY DEF Count
<1>3. caller[c].slot = "none" /\ InRedis(caller[c]) = 0 /\ InLocal(caller[c]) = 0
  BY <1>1, CallIs DEF Slotted, InRedis, InLocal
<1>4. PICK row \in CallerRow : /\ Slotted(row) /\ caller' = [caller EXCEPT ![c] = row]
                               /\ row.step = step /\ row.slot = "none"
  BY <1>2, <1>3, GoesIs
<1>5. InRedis(row) = 1 /\ InLocal(row) = 0
  BY <1>4 DEF InRedis, InLocal
<1>6. slots'["redis"] = slots["redis"] + 1 /\ slots'["local"] = slots["local"] /\ CountersTyped'
  BY <1>1, CallIs DEF CountersTyped
<1>20. Follows(c, row)
  BY <1>1, <1>3, <1>4, <1>5, <1>6, CallIs DEF Follows
<1> QED
  BY <1>1, <1>3, <1>4, <1>5, <1>6, <1>20, CallIs, CallKeeps

LEMMA AdmitIs ==
  ASSUME ProviderInv, NEW c \in Callers, NEW b \in Stores, Admit(c, b)
  PROVE  \E row \in CallerRow :
           /\ Slotted(row) /\ caller' = [caller EXCEPT ![c] = row]
           /\ row.step = "calling" /\ row.slot = b
<1> DEFINE row == [caller[c] EXCEPT !.step = "calling", !.slot = b, !.attempt = 1]
<1>1. caller' = [caller EXCEPT ![c] = row]
  BY DEF Admit, ProviderInv, ProviderTypeOK
<1>2. 1 \in 0 .. RetryAttempts
  BY ProviderAssumption
<1>3. row \in CallerRow /\ row.step = "calling" /\ row.slot = b
  BY <1>2, CallIs DEF CallerRow
<1> HIDE DEF row
<1>4. Slotted(row)
  BY <1>3 DEF Slotted
<1> QED
  BY <1>1, <1>3, <1>4

LEMMA HoldKeeps ==
  ASSUME ProviderInv, NEW c \in Callers, Hold(c)
  PROVE  ProviderInv'
<1>1. caller[c].step = "counted" /\ UNCHANGED <<slots, lost, circuit, spent, faults>>
      /\ Admit(c, "redis")
  BY DEF Hold, At
<1>2. PICK row \in CallerRow : /\ Slotted(row) /\ caller' = [caller EXCEPT ![c] = row]
                               /\ row.step = "calling" /\ row.slot = "redis"
  BY <1>1, CallIs, AdmitIs
<1>3. caller[c].slot = "none"
  BY <1>1, CallIs DEF Slotted
<1>4. InRedis(caller[c]) = 1 /\ InLocal(caller[c]) = 0 /\ InRedis(row) = 1 /\ InLocal(row) = 0
  BY <1>1, <1>2, <1>3 DEF InRedis, InLocal
<1>5. CountersTyped'
  BY <1>1, CallIs DEF CountersTyped
<1>20. Follows(c, row)
  BY <1>1, <1>2, <1>4, <1>5, CallIs DEF Follows
<1> QED
  BY <1>1, <1>2, <1>4, <1>5, <1>20, CallIs, CallKeeps

LEMMA RefuseKeeps ==
  ASSUME ProviderInv, NEW c \in Callers, Refuse(c)
  PROVE  ProviderInv'
<1>1. caller[c].step = "refused" /\ UNCHANGED <<lost, circuit, spent, faults>>
      /\ Done(c) /\ slots' = [slots EXCEPT !["redis"] = @ - 1]
  BY DEF Refuse, At, Undone
<1>2. InRedis(caller[c]) = 1 /\ InLocal(caller[c]) = 0
  BY <1>1, CallIs DEF Slotted, InRedis, InLocal
<1>3. slots'["redis"] = slots["redis"] - 1 /\ slots'["local"] = slots["local"] /\ CountersTyped'
  BY <1>1, CallIs DEF CountersTyped
<1>4. caller' = [caller EXCEPT ![c] = IdleCaller]
  BY <1>1 DEF Done
<1>20. Follows(c, IdleCaller)
  BY <1>1, <1>2, <1>3, <1>4, CallIs DEF Follows
<1> QED
  BY <1>1, <1>2, <1>3, <1>4, <1>20, CallIs, CallKeeps

LEMMA FallBackKeeps ==
  ASSUME ProviderInv, NEW c \in Callers, FallBack(c)
  PROVE  ProviderInv'
<1>1. /\ caller[c].step \in {"admitted", "counted", "refused"} /\ UNCHANGED <<circuit, spent>>
      /\ lost' = IF caller[c].step = "admitted" THEN lost ELSE lost + 1
      /\ \/ slots' = [slots EXCEPT !["local"] = @ + 1] /\ Admit(c, "local")
         \/ Done(c) /\ slots' = slots
      /\ faults' \in 0 .. MaxFaults
  BY CallIs, ReachesIs DEF FallBack, At
<1>2. InLocal(caller[c]) = 0 /\ InRedis(caller[c]) = (IF caller[c].step = "admitted" THEN 0 ELSE 1)
  BY <1>1, CallIs DEF Slotted, InRedis, InLocal
<1>3. lost' = lost + InRedis(caller[c]) /\ lost' \in Nat /\ InRedis(caller[c]) \in Nat
  BY <1>1, <1>2, CallIs
<1>4. CASE Done(c) /\ slots' = slots
  <2>1. CountersTyped'
    BY <1>1, <1>3, <1>4, CallIs DEF CountersTyped
  <2>2. caller' = [caller EXCEPT ![c] = IdleCaller]
    BY <1>4 DEF Done
  <2>20. Follows(c, IdleCaller)
    BY <1>2, <1>3, <1>4, <2>1, <2>2, CallIs DEF Follows
  <2> QED
    BY <1>2, <1>3, <1>4, <2>1, <2>2, <2>20, CallIs, CallKeeps
<1>5. CASE slots' = [slots EXCEPT !["local"] = @ + 1] /\ Admit(c, "local")
  <2>1. slots'["redis"] = slots["redis"] /\ slots'["local"] = slots["local"] + 1 /\ CountersTyped'
    BY <1>1, <1>3, <1>5, CallIs DEF CountersTyped
  <2>2. PICK row \in CallerRow : /\ Slotted(row) /\ caller' = [caller EXCEPT ![c] = row]
                                 /\ row.step = "calling" /\ row.slot = "local"
    BY <1>5, CallIs, AdmitIs
  <2>3. InRedis(row) = 0 /\ InLocal(row) = 1
    BY <2>2 DEF InRedis, InLocal
  <2>20. Follows(c, row)
    BY <1>2, <1>3, <2>1, <2>2, <2>3, CallIs DEF Follows
  <2> QED
    BY <1>2, <1>3, <2>1, <2>2, <2>3, <2>20, CallIs, CallKeeps
<1> QED
  BY <1>1, <1>4, <1>5

\* The steps of a call that keeps its slot.
LEMMA CallingKeeps ==
  ASSUME ProviderInv, NEW c \in Callers,
         \/ Retry(c) \/ Trip(c)
         \/ \E b \in Stores : Succeed(c, b) \/ GiveUp(c, b)
  PROVE  ProviderInv'
<1>1. caller[c].step \in {"calling", "tripping"} /\ UNCHANGED <<slots, lost, spent>>
  BY DEF Retry, Trip, Succeed, GiveUp, At
<1>2. caller[c].slot \in Stores
  BY <1>1, CallIs DEF Slotted
<1>3. faults' \in 0 .. MaxFaults
  BY ReachesIs DEF Retry, Trip, Succeed, GiveUp, ProviderInv, ProviderTypeOK
<1>4. circuit' \in [Stores -> [failures : Nat, isOpen : BOOLEAN]]
  <2> DEFINE Circuit == [failures : Nat, isOpen : BOOLEAN]
  <2>1. circuit \in [Stores -> Circuit] /\ ClosedCircuit \in Circuit
    BY DEF ProviderInv, ProviderTypeOK, ClosedCircuit
  <2>2. CASE Retry(c)
    BY <2>1, <2>2 DEF Retry
  <2>3. CASE Trip(c)
    <3> DEFINE new == [circuit["redis"] EXCEPT !.isOpen = TRUE]
    <3>1. circuit' = [circuit EXCEPT !["redis"] = new]
      BY <2>1, <2>3 DEF Trip
    <3>2. new \in Circuit
      BY <2>1 DEF Stores
    <3> QED
      BY <2>1, <3>1, <3>2
  <2>4. ASSUME NEW b \in Stores, Succeed(c, b) PROVE circuit' \in [Stores -> Circuit]
    BY <2>1, <2>4 DEF Succeed
  <2>5. ASSUME NEW b \in Stores, GiveUp(c, b) PROVE circuit' \in [Stores -> Circuit]
    <3>1. PICK f \in Nat, o \in BOOLEAN :
            circuit' = [circuit EXCEPT ![b] = [failures |-> f, isOpen |-> o]]
      <4> DEFINE f == IF circuit[b].failures < FailureThreshold
                        THEN circuit[b].failures + 1 ELSE FailureThreshold
                 o == IF b = "local" THEN f = FailureThreshold ELSE circuit[b].isOpen
      <4>1. f \in Nat
        BY <2>1, ProviderAssumption
      <4>2. o \in BOOLEAN
        BY <2>1
      <4>3. circuit' = [circuit EXCEPT ![b] = [failures |-> f, isOpen |-> o]]
        BY <2>1, <2>5 DEF GiveUp
      <4> HIDE DEF f, o
      <4> QED
        BY <4>1, <4>2, <4>3
    <3>2. [failures |-> f, isOpen |-> o] \in Circuit
      OBVIOUS
    <3> QED
      BY <2>1, <3>1, <3>2
  <2> QED
    BY <2>2, <2>3, <2>4, <2>5
<1>5. CountersTyped'
  BY <1>1, <1>3, <1>4, CallIs DEF CountersTyped
<1>6. \E row \in CallerRow : /\ Slotted(row) /\ caller' = [caller EXCEPT ![c] = row]
                             /\ row.slot = caller[c].slot
                             /\ row.step \in {"calling", "tripping", "leaving"}
  <2>1. CASE Retry(c)
    <3> DEFINE row == [caller[c] EXCEPT !.attempt = @ + 1]
    <3>1. caller' = [caller EXCEPT ![c] = row] /\ caller[c].attempt + 1 \in 0 .. RetryAttempts
      BY <2>1, CallIs, ProviderAssumption DEF Retry, ProviderInv, ProviderTypeOK, CallerRow
    <3>2. row \in CallerRow /\ row.slot = caller[c].slot /\ row.step = "calling"
      BY <2>1, <3>1, CallIs DEF CallerRow, Retry, At
    <3> HIDE DEF row
    <3> QED
      BY <1>2, <3>1, <3>2 DEF Slotted
  <2>2. ASSUME NEW b \in Stores, Succeed(c, b)
        PROVE  \E row \in CallerRow : /\ Slotted(row) /\ caller' = [caller EXCEPT ![c] = row]
                                      /\ row.slot = caller[c].slot
                                      /\ row.step \in {"calling", "tripping", "leaving"}
    <3> DEFINE row == [caller[c] EXCEPT !.step = "leaving", !.returned = TRUE]
    <3>1. caller' = [caller EXCEPT ![c] = row]
      BY <2>2 DEF Succeed, ProviderInv, ProviderTypeOK
    <3>2. row \in CallerRow /\ row.slot = caller[c].slot /\ row.step = "leaving"
      BY CallIs DEF CallerRow
    <3> HIDE DEF row
    <3> QED
      BY <1>2, <3>1, <3>2 DEF Slotted
  <2>3. CASE Trip(c) \/ \E b \in Stores : GiveUp(c, b)
    <3>1. PICK step \in {"tripping", "leaving"} : Goes(c, step)
      BY <2>3 DEF Trip, GiveUp
    <3> QED
      BY <1>2, <3>1, GoesIs
  <2> QED
    BY <2>1, <2>2, <2>3
<1>7. PICK row \in CallerRow : /\ Slotted(row) /\ caller' = [caller EXCEPT ![c] = row]
                               /\ row.slot = caller[c].slot
                               /\ row.step \in {"calling", "tripping", "leaving"}
  BY <1>6
<1>8. InRedis(row) = InRedis(caller[c]) /\ InLocal(row) = InLocal(caller[c])
  BY <1>1, <1>7 DEF InRedis, InLocal
<1>9. InRedis(row) \in {0, 1} /\ InLocal(row) \in {0, 1}
  BY DEF InRedis, InLocal
<1>20. Follows(c, row)
  BY <1>1, <1>5, <1>7, <1>8, <1>9, CallIs DEF Follows
<1> QED
  BY <1>1, <1>5, <1>7, <1>8, <1>9, <1>20, CallIs, CallKeeps

LEMMA AfterSlotIs ==
  ASSUME ProviderInv, NEW c \in Callers, AfterSlot(c)
  PROVE  \E row \in CallerRow :
           /\ Slotted(row) /\ caller' = [caller EXCEPT ![c] = row]
           /\ InRedis(row) = 0 /\ InLocal(row) = 0
<1>1. CASE caller[c].returned
  <2> DEFINE row == [caller[c] EXCEPT !.step = "charging", !.slot = "none"]
  <2>1. caller' = [caller EXCEPT ![c] = row]
    BY <1>1 DEF AfterSlot, ProviderInv, ProviderTypeOK
  <2>2. row \in CallerRow /\ row.step = "charging" /\ row.slot = "none"
    BY CallIs DEF CallerRow
  <2> HIDE DEF row
  <2>3. Slotted(row) /\ InRedis(row) = 0 /\ InLocal(row) = 0
    BY <2>2 DEF Slotted, InRedis, InLocal
  <2> QED
    BY <2>1, <2>2, <2>3
<1>2. CASE ~caller[c].returned
  <2>1. caller' = [caller EXCEPT ![c] = IdleCaller]
    BY <1>2 DEF AfterSlot, Done
  <2> QED
    BY <2>1, CallIs
<1> QED
  BY <1>1, <1>2

LEMMA LeaveKeeps ==
  ASSUME ProviderInv, NEW c \in Callers, Leave(c)
  PROVE  ProviderInv'
<1> DEFINE b == caller[c].slot
<1>1. /\ caller[c].step = "leaving" /\ UNCHANGED <<lost, circuit, spent, faults>>
      /\ slots' = [slots EXCEPT ![b] = slots[b] - 1]
      /\ (b = "redis" /\ Goes(c, "emptied")) \/ AfterSlot(c)
  BY DEF Leave, At
<1>2. b \in {"redis", "local"}
  BY <1>1, CallIs DEF Slotted
<1>3. CountersTyped'
  BY <1>1, <1>2, CallIs DEF CountersTyped
<1>4. PICK row \in CallerRow : /\ Slotted(row) /\ caller' = [caller EXCEPT ![c] = row]
                               /\ InRedis(row) = 0 /\ InLocal(row) = 0
  <2>1. CASE AfterSlot(c)
    BY <2>1, AfterSlotIs
  <2>2. CASE b = "redis" /\ Goes(c, "emptied")
    <3>1. PICK row \in CallerRow : /\ Slotted(row) /\ caller' = [caller EXCEPT ![c] = row]
                                   /\ row.step = "emptied" /\ row.slot = b
      BY <2>2, GoesIs
    <3>2. InRedis(row) = 0 /\ InLocal(row) = 0
      BY <2>2, <3>1 DEF InRedis, InLocal
    <3> QED
      BY <3>1, <3>2
  <2> QED
    BY <1>1, <2>1, <2>2
<1>5. CASE b = "redis"
  <2>1. InRedis(caller[c]) = 1 /\ InLocal(caller[c]) = 0
    BY <1>1, <1>5 DEF InRedis, InLocal
  <2>2. slots'["redis"] = slots["redis"] - 1 /\ slots'["local"] = slots["local"]
    BY <1>1, <1>5, CallIs
  <2>20. Follows(c, row)
    BY <1>1, <1>3, <1>4, <2>1, <2>2, CallIs DEF Follows
  <2> QED
    BY <1>1, <1>3, <1>4, <2>1, <2>2, <2>20, CallIs, CallKeeps
<1>6. CASE b = "local"
  <2>1. InRedis(caller[c]) = 0 /\ InLocal(caller[c]) = 1
    BY <1>1, <1>6 DEF InRedis, InLocal
  <2>2. slots'["redis"] = slots["redis"] /\ slots'["local"] = slots["local"] - 1
    BY <1>1, <1>6, CallIs
  <2>20. Follows(c, row)
    BY <1>1, <1>3, <1>4, <2>1, <2>2, CallIs DEF Follows
  <2> QED
    BY <1>1, <1>3, <1>4, <2>1, <2>2, <2>20, CallIs, CallKeeps
<1> QED
  BY <1>2, <1>5, <1>6

LEMMA LeaveLostKeeps ==
  ASSUME ProviderInv, NEW c \in Callers, LeaveLost(c)
  PROVE  ProviderInv'
<1>1. /\ caller[c].step = "leaving" /\ caller[c].slot = "redis"
      /\ lost' = lost + 1 /\ AfterSlot(c) /\ UNCHANGED <<slots, circuit, spent>>
      /\ faults' \in 0 .. MaxFaults
  BY CallIs, ReachesIs DEF LeaveLost, At
<1>2. CountersTyped'
  BY <1>1, CallIs DEF CountersTyped
<1>3. PICK row \in CallerRow : /\ Slotted(row) /\ caller' = [caller EXCEPT ![c] = row]
                               /\ InRedis(row) = 0 /\ InLocal(row) = 0
  BY <1>1, AfterSlotIs
<1>4. InRedis(caller[c]) = 1 /\ InLocal(caller[c]) = 0
  BY <1>1 DEF InRedis, InLocal
<1>20. Follows(c, row)
  BY <1>1, <1>2, <1>3, <1>4, CallIs DEF Follows
<1> QED
  BY <1>1, <1>2, <1>3, <1>4, <1>20, CallIs, CallKeeps

\* DELETE leaves no count at all.
LEMMA EmptyKeeps ==
  ASSUME ProviderInv, NEW c \in Callers, Empty(c)
  PROVE  ProviderInv'
<1>1. /\ caller[c].step = "emptied" /\ AfterSlot(c) /\ lost' = 0
      /\ slots' = [slots EXCEPT !["redis"] = 0] /\ UNCHANGED <<circuit, spent, faults>>
  BY DEF Empty, At
<1>2. slots'["redis"] = 0 /\ slots'["local"] = slots["local"] /\ CountersTyped'
  BY <1>1, CallIs DEF CountersTyped
<1>3. PICK row \in CallerRow : /\ Slotted(row) /\ caller' = [caller EXCEPT ![c] = row]
                               /\ InRedis(row) = 0 /\ InLocal(row) = 0
  BY <1>1, AfterSlotIs
<1>4. InLocal(caller[c]) = 0
  BY <1>1, CallIs DEF Slotted, InLocal
<1>20. Follows(c, row)
  BY <1>1, <1>2, <1>3, <1>4, CallIs DEF Follows
<1> QED
  BY <1>1, <1>2, <1>3, <1>4, <1>20, CallIs, CallKeeps

LEMMA ChargeKeeps ==
  ASSUME ProviderInv, NEW c \in Callers, ChargeLost(c) \/ \E b \in Stores : Charge(c, b)
  PROVE  ProviderInv'
<1>1. /\ caller[c].step = "charging" /\ Done(c) /\ UNCHANGED <<slots, lost, circuit>>
      /\ faults' \in 0 .. MaxFaults
  BY CallIs, ReachesIs DEF ChargeLost, Charge, At
<1>2. spent' \in [Stores -> Nat]
  BY DEF ChargeLost, Charge, ProviderInv, ProviderTypeOK
<1>3. CountersTyped'
  BY <1>1, <1>2, CallIs DEF CountersTyped
<1>4. InRedis(caller[c]) = 0 /\ InLocal(caller[c]) = 0
  BY <1>1, CallIs DEF Slotted, InRedis, InLocal
<1>5. caller' = [caller EXCEPT ![c] = IdleCaller]
  BY <1>1 DEF Done
<1>20. Follows(c, IdleCaller)
  BY <1>1, <1>3, <1>4, <1>5, CallIs DEF Follows
<1> QED
  BY <1>1, <1>3, <1>4, <1>5, <1>20, CallIs, CallKeeps

\* The steps of the keys, and of the whole process.
LEMMA KeysKeep ==
  ASSUME ProviderInv, SlotsExpire \/ \E b \in Stores : Cool(b)
  PROVE  ProviderInv'
<1> USE DEF ProviderInv
<1>1. UNCHANGED <<caller, spent, faults>>
  BY DEF SlotsExpire, Cool
<1>2. {c \in Callers : Counted(c)}' = {c \in Callers : Counted(c)}
  BY <1>1 DEF Counted, At
<1>3. Cardinality({c \in Callers : Counted(c)}) \in Nat
  BY ProviderAssumption, FS_Subset, FS_CardinalityType
<1>4. CASE SlotsExpire
  <2>1. slots' = [slots EXCEPT !["redis"] = 0] /\ lost' = 0 /\ circuit' = circuit
    BY <1>4 DEF SlotsExpire
  <2>2. slots' \in [Stores -> Int] /\ slots'["redis"] = 0 /\ slots'["local"] = slots["local"]
    BY <2>1 DEF ProviderTypeOK, Stores
  <2>3. ProviderTypeOK'
    BY <1>1, <2>1, <2>2 DEF ProviderTypeOK
  <2>4. slots'["redis"] <= Cardinality({c \in Callers : Counted(c)})' + lost'
    <3>1. Cardinality({c \in Callers : Counted(c)})' = Cardinality({c \in Callers : Counted(c)})
      BY <1>2
    <3>2. slots'["redis"] = 0 /\ lost' = 0
      BY <2>1, <2>2
    <3> QED
      BY <1>3, <3>1, <3>2
  <2>5. slots'["local"] = Cardinality({c \in Callers : caller'[c].slot = "local"})
    BY <1>1, <2>2 DEF CallsAccounted
  <2>6. CallsAccounted'
    BY <2>4, <2>5 DEF CallsAccounted
  <2> QED
    BY <1>1, <2>3, <2>6
<1>5. ASSUME NEW b \in Stores, Cool(b) PROVE ProviderInv'
  <2>1. UNCHANGED <<slots, lost>>
    BY <1>5 DEF Cool
  <2>2. circuit' \in [Stores -> [failures : Nat, isOpen : BOOLEAN]]
    <3> DEFINE new == [circuit[b] EXCEPT !.isOpen = FALSE]
    <3>1. circuit' = [circuit EXCEPT ![b] = new] \/ circuit' = [circuit EXCEPT ![b] = ClosedCircuit]
      BY <1>5 DEF Cool, ProviderTypeOK
    <3>2. new \in [failures : Nat, isOpen : BOOLEAN]
          /\ ClosedCircuit \in [failures : Nat, isOpen : BOOLEAN]
      BY DEF ProviderTypeOK, ClosedCircuit
    <3> HIDE DEF new
    <3> QED
      BY <3>1, <3>2 DEF ProviderTypeOK
  <2>3. ProviderTypeOK'
    BY <1>1, <2>1, <2>2 DEF ProviderTypeOK
  <2>4. CallsAccounted'
    BY <1>1, <1>2, <2>1 DEF CallsAccounted
  <2> QED
    BY <1>1, <2>3, <2>4
<1> QED
  BY <1>4, <1>5

\* What the process had counted in Redis is lost with it.
LEMMA RestartKeeps ==
  ASSUME ProviderInv, Restart
  PROVE  ProviderInv'
<1> USE DEF ProviderInv
<1> DEFINE S == {c \in Callers : Counted(c)}
<1>1. /\ faults < MaxFaults /\ faults' = faults + 1
      /\ caller' = [c \in Callers |-> IdleCaller]
      /\ lost' = lost + Cardinality(S)
      /\ slots' = [slots EXCEPT !["local"] = 0]
      /\ circuit' = [circuit EXCEPT !["local"] = ClosedCircuit]
      /\ spent' = [spent EXCEPT !["local"] = 0]
  BY DEF Restart
<1>2. Cardinality(S) \in Nat /\ slots["redis"] <= Cardinality(S) + lost
  BY ProviderAssumption, FS_Subset, FS_CardinalityType DEF CallsAccounted
<1>3. IdleCaller \in CallerRow /\ Slotted(IdleCaller) /\ IdleCaller.step = "idle"
      /\ IdleCaller.slot = "none"
  <2>1. 0 \in 0 .. RetryAttempts
    BY ProviderAssumption
  <2> QED
    BY <2>1 DEF IdleCaller, CallerRow, Slotted
<1>4. lost \in Nat /\ slots \in [Stores -> Int] /\ faults' \in 0 .. MaxFaults
  BY <1>1, ProviderAssumption DEF ProviderTypeOK
<1> HIDE DEF S
<1>5. lost' \in Nat /\ slots' \in [Stores -> Int] /\ slots'["local"] = 0
      /\ slots'["redis"] = slots["redis"] /\ slots["redis"] \in Int
  BY <1>1, <1>2, <1>4 DEF Stores
<1>6. ClosedCircuit \in [failures : Nat, isOpen : BOOLEAN]
  BY DEF ClosedCircuit
<1>7. circuit' \in [Stores -> [failures : Nat, isOpen : BOOLEAN]] /\ spent' \in [Stores -> Nat]
  BY <1>1, <1>6 DEF ProviderTypeOK
<1>8. caller' \in [Callers -> CallerRow]
  BY <1>1, <1>3
<1>9. ProviderTypeOK'
  BY <1>4, <1>5, <1>7, <1>8 DEF ProviderTypeOK, CallerRow
<1>10. {c \in Callers : Counted(c)}' = {} /\ {c \in Callers : caller'[c].slot = "local"} = {}
  BY <1>1, <1>3 DEF Counted, At
<1>11. CallsAccounted'
  <2>1. Cardinality({}) = 0
    BY FS_EmptySet
  <2>2. slots'["redis"] <= 0 + lost'
    BY <1>1, <1>2, <1>4, <1>5
  <2> QED
    BY <1>5, <1>10, <2>1, <2>2 DEF CallsAccounted
<1>12. \A c \in Callers : Slotted(caller'[c])
  BY <1>1, <1>3
<1> QED
  BY <1>9, <1>11, <1>12

LEMMA ProviderKeeps ==
  ASSUME ProviderInv, [ProviderNext]_providerVars
  PROVE  ProviderInv'
<1>1. CASE ProviderNext
  BY <1>1, BudgetKeeps, CountKeeps, HoldKeeps, RefuseKeeps, FallBackKeeps, CallingKeeps,
     LeaveKeeps, LeaveLostKeeps, EmptyKeeps, ChargeKeeps, KeysKeep, RestartKeeps
     DEF ProviderNext
<1>2. CASE UNCHANGED providerVars
  <2>1. UNCHANGED <<caller, slots, lost, circuit, spent, faults>>
    BY <1>2 DEF providerVars
  <2> QED
    BY <2>1 DEF ProviderInv, ProviderTypeOK, CallsAccounted, Counted, At
<1> QED
  BY <1>1, <1>2

LEMMA ProviderInvMeans == ProviderInv => CallsAccounted /\ ProviderTypeOK
BY DEF ProviderInv
-----------------------------------------------------------------------------
(* The session limit.                                                      *)

\* A session that has renewed within a lease has an entry, which lasts as long, and the key
\* lasts as long as its entries.
Leases ==
  /\ \A s \in Sessions : s \in Open /\ age[s] < LeaseTime =>
       s \in DOMAIN entry /\ entry[s] + age[s] >= LeaseTime
  /\ \A s \in DOMAIN entry : entry[s] <= keyLife

LimiterInv ==
  /\ entry \in [DOMAIN entry -> 0 .. LeaseTime]
  /\ LimiterTypeOK /\ Leases /\ Cardinality(DOMAIN entry) <= SessionLimit

LEMMA LimiterStarts ==
  ASSUME LimiterInit
  PROVE  LimiterInv
<1>1. entry = <<>> /\ keyLife = 0 /\ session = [s \in Sessions |-> "none"]
      /\ age = [s \in Sessions |-> 0]
  BY DEF LimiterInit
<1>2. DOMAIN entry = {} /\ entry \in [DOMAIN entry -> 0 .. LeaseTime]
  BY <1>1
<1>3. Cardinality(DOMAIN entry) = 0
  BY <1>2, FS_EmptySet
<1>4. Open = {}
  BY <1>1 DEF Open
<1>5. LimiterTypeOK
  BY <1>1, <1>2, LimiterAssumption DEF LimiterTypeOK
<1> QED
  BY <1>2, <1>3, <1>4, <1>5, LimiterAssumption DEF LimiterInv, Leases

\* The entries are finitely many.
LEMMA EntriesFinite ==
  ASSUME LimiterInv, NEW T, T \subseteq DOMAIN entry
  PROVE  IsFiniteSet(T) /\ Cardinality(T) \in Nat /\ Cardinality(T) <= Cardinality(DOMAIN entry)
         /\ Cardinality(T) <= SessionLimit
<1>1. IsFiniteSet(DOMAIN entry)
  BY LimiterAssumption, FS_Subset DEF LimiterInv, LimiterTypeOK
<1>2. IsFiniteSet(T) /\ Cardinality(T) <= Cardinality(DOMAIN entry)
  BY <1>1, FS_Subset
<1>3. Cardinality(T) \in Nat /\ Cardinality(DOMAIN entry) \in Nat
  BY <1>1, <1>2, FS_CardinalityType
<1> QED
  BY <1>2, <1>3, LimiterAssumption DEF LimiterInv

LEMMA AcquireKeeps ==
  ASSUME LimiterInv, NEW s \in Sessions, Acquire(s)
  PROVE  LimiterInv'
<1> USE DEF LimiterInv
<1> DEFINE alive == {r \in DOMAIN entry : entry[r] > 0}
           running == [r \in alive |-> entry[r]]
           new == entry'
<1>1. session[s] = "none" /\ s \notin alive /\ DOMAIN running = alive
  BY DEF Acquire
<1>2. IsFiniteSet(alive) /\ Cardinality(alive) \in Nat /\ Cardinality(alive) <= SessionLimit
  BY EntriesFinite
<1>3. /\ \A r \in DOMAIN entry : entry[r] \in 0 .. LeaseTime
      /\ DOMAIN entry \subseteq Sessions /\ LeaseTime \in Nat /\ keyLife \in 0 .. LeaseTime
  BY LimiterAssumption DEF LimiterTypeOK
<1>4. \A r \in Sessions : r \in Open /\ age[r] < LeaseTime => r \in alive
  BY <1>3 DEF Leases, LimiterTypeOK
<1>5. CASE Cardinality(alive) >= SessionLimit
  <2>1. new = running /\ UNCHANGED <<keyLife, session, age>>
    BY <1>1, <1>5 DEF Acquire
  <2> HIDE DEF alive, new
  <2>2. DOMAIN new = alive /\ \A r \in alive : new[r] = entry[r]
    BY <2>1
  <2>3. alive \subseteq DOMAIN entry
    BY DEF alive
  <2>4. new \in [DOMAIN new -> 0 .. LeaseTime] /\ Cardinality(DOMAIN new) <= SessionLimit
    BY <1>2, <1>3, <2>1, <2>2, <2>3
  <2>5. LimiterTypeOK'
    BY <1>3, <2>1, <2>2, <2>3 DEF LimiterTypeOK, new
  <2>6. Leases'
    BY <1>4, <2>1, <2>2, <2>3 DEF Leases, Open, new
  <2> QED
    BY <2>4, <2>5, <2>6 DEF new
<1>6. CASE ~(Cardinality(alive) >= SessionLimit)
  <2>1. /\ new = [r \in alive \union {s} |-> IF r = s THEN LeaseTime ELSE running[r]]
        /\ keyLife' = LeaseTime
        /\ session' = [session EXCEPT ![s] = "setup"]
        /\ age' = [age EXCEPT ![s] = 0]
    BY <1>1, <1>6 DEF Acquire
  <2>2. /\ DOMAIN new = alive \union {s} /\ new[s] = LeaseTime
        /\ \A r \in alive : new[r] = entry[r]
    BY <1>1, <2>1
  <2>3. alive \subseteq DOMAIN entry
    OBVIOUS
  <2>4. new = [r \in DOMAIN new |-> new[r]]
    BY <2>1
  <2> HIDE DEF alive, new
  <2>5. Cardinality(DOMAIN new) <= SessionLimit
    <3>1. Cardinality(alive \union {s}) = Cardinality(alive) + 1
      BY <1>1, <1>2, FS_AddElement
    <3> QED
      BY <1>2, <1>6, <2>2, <3>1, LimiterAssumption
  <2>6. \A r \in DOMAIN new : new[r] \in 0 .. LeaseTime
    BY <1>3, <2>2, <2>3
  <2>7. new \in [DOMAIN new -> 0 .. LeaseTime]
    BY <2>4, <2>6
  <2>8. /\ session' \in [Sessions -> {"none", "setup", "live", "blocked"}]
        /\ age' \in [Sessions -> 0 .. LeaseTime]
        /\ age'[s] = 0 /\ \A r \in Sessions \ {s} : session'[r] = session[r] /\ age'[r] = age[r]
    BY <1>3, <2>1 DEF LimiterTypeOK
  <2>9. LimiterTypeOK'
    BY <1>3, <2>1, <2>2, <2>3, <2>6, <2>8 DEF LimiterTypeOK, new
  <2>10. ASSUME NEW r \in Sessions, r \in Open', age'[r] < LeaseTime
         PROVE  r \in DOMAIN new /\ new[r] + age'[r] >= LeaseTime
    <3>1. CASE r = s
      BY <1>3, <2>2, <2>8, <3>1
    <3>2. CASE r # s
      <4>1. r \in Open /\ age[r] < LeaseTime
        BY <2>8, <2>10, <3>2 DEF Open
      <4>2. r \in alive /\ entry[r] + age[r] >= LeaseTime
        BY <1>4, <4>1 DEF Leases
      <4> QED
        BY <2>2, <2>8, <3>2, <4>2
    <3> QED
      BY <3>1, <3>2
  <2>11. ASSUME NEW r \in DOMAIN new PROVE new[r] <= keyLife'
    <3>1. new[r] \in 0 .. LeaseTime /\ LeaseTime \in Nat /\ keyLife' = LeaseTime
      BY <1>3, <2>1, <2>6
    <3> QED
      BY <3>1
  <2> QED
    BY <2>5, <2>7, <2>9, <2>10, <2>11 DEF Leases, new
<1> QED
  BY <1>5, <1>6

\* The steps that change no entry and no age: a session goes on, or comes to an end.
LEMMA SessionKeeps ==
  ASSUME LimiterInv, NEW s \in Sessions,
         \/ SetupComplete(s) \/ Block(s) \/ Resume(s)
         \/ Refresh(s) /\ ~HasEntry(s)
  PROVE  LimiterInv'
<1> USE DEF LimiterInv
<1>1. UNCHANGED <<entry, keyLife>>
  BY DEF SetupComplete, Block, Resume, Refresh
<1>2. /\ session' \in [Sessions -> {"none", "setup", "live", "blocked"}]
      /\ age' \in [Sessions -> 0 .. LeaseTime]
  BY LimiterAssumption DEF LimiterTypeOK, SetupComplete, Block, Resume, Refresh, Gone
<1>3. \A r \in Sessions : r \in Open' => r \in Open /\ age'[r] = age[r]
  BY DEF LimiterTypeOK, SetupComplete, Block, Resume, Refresh, Gone, Open
<1>4. LimiterTypeOK'
  BY <1>1, <1>2 DEF LimiterTypeOK
<1>5. Leases'
  BY <1>1, <1>3 DEF Leases
<1> QED
  BY <1>1, <1>4, <1>5

LEMMA RefreshKeeps ==
  ASSUME LimiterInv, NEW s \in Sessions, Refresh(s), HasEntry(s)
  PROVE  LimiterInv'
<1> USE DEF LimiterInv
<1> DEFINE new == entry'
<1>1. /\ new = [r \in DOMAIN entry \union {s} |-> IF r = s THEN LeaseTime ELSE entry[r]]
      /\ keyLife' = LeaseTime /\ age' = [age EXCEPT ![s] = 0] /\ session' = session
      /\ s \in DOMAIN entry
  BY DEF Refresh, HasEntry, Leased
<1>2. /\ DOMAIN new = DOMAIN entry /\ new[s] = LeaseTime
      /\ \A r \in DOMAIN entry \ {s} : new[r] = entry[r]
      /\ new = [r \in DOMAIN new |-> new[r]]
  BY <1>1
<1>3. /\ \A r \in DOMAIN entry : entry[r] \in 0 .. LeaseTime
      /\ DOMAIN entry \subseteq Sessions /\ LeaseTime \in Nat /\ keyLife \in 0 .. LeaseTime
  BY LimiterAssumption DEF LimiterTypeOK
<1> HIDE DEF new
<1>4. \A r \in DOMAIN new : new[r] \in 0 .. LeaseTime
  BY <1>2, <1>3
<1>5. new \in [DOMAIN new -> 0 .. LeaseTime]
  BY <1>2, <1>4
<1>6. /\ age' \in [Sessions -> 0 .. LeaseTime] /\ age'[s] = 0
      /\ \A r \in Sessions \ {s} : age'[r] = age[r]
  BY <1>1, <1>3 DEF LimiterTypeOK
<1>7. LimiterTypeOK'
  BY <1>1, <1>2, <1>3, <1>4, <1>6 DEF LimiterTypeOK, new
<1>8. ASSUME NEW r \in Sessions, r \in Open', age'[r] < LeaseTime
      PROVE  r \in DOMAIN new /\ new[r] + age'[r] >= LeaseTime
  <2>1. CASE r = s
    BY <1>1, <1>2, <1>3, <1>6, <2>1
  <2>2. CASE r # s
    BY <1>1, <1>2, <1>6, <1>8, <2>2 DEF Leases, Open
  <2> QED
    BY <2>1, <2>2
<1>9. \A r \in DOMAIN new : new[r] <= keyLife'
  BY <1>1, <1>3, <1>4
<1> QED
  BY <1>2, <1>5, <1>7, <1>8, <1>9 DEF Leases, new

LEMMA ReleaseKeeps ==
  ASSUME LimiterInv, NEW s \in Sessions, Release(s)
  PROVE  LimiterInv'
<1> USE DEF LimiterInv
<1> DEFINE new == entry'
<1>1. /\ session' = [session EXCEPT ![s] = "none"] /\ age' = [age EXCEPT ![s] = 0]
      /\ keyLife' = keyLife /\ new \in {entry, [r \in DOMAIN entry \ {s} |-> entry[r]]}
  BY DEF Release, Gone, Without
<1>2. /\ DOMAIN entry \ {s} \subseteq DOMAIN new /\ DOMAIN new \subseteq DOMAIN entry
      /\ \A r \in DOMAIN new : new[r] = entry[r]
      /\ new = [r \in DOMAIN new |-> new[r]]
  BY <1>1
<1>3. /\ \A r \in DOMAIN entry : entry[r] \in 0 .. LeaseTime
      /\ DOMAIN entry \subseteq Sessions /\ LeaseTime \in Nat
  BY LimiterAssumption DEF LimiterTypeOK
<1> HIDE DEF new
<1>4. new \in [DOMAIN new -> 0 .. LeaseTime]
  BY <1>2, <1>3
<1>5. Cardinality(DOMAIN new) <= SessionLimit
  BY <1>2, EntriesFinite
<1>6. /\ session' \in [Sessions -> {"none", "setup", "live", "blocked"}]
      /\ age' \in [Sessions -> 0 .. LeaseTime] /\ session'[s] = "none"
      /\ \A r \in Sessions \ {s} : session'[r] = session[r] /\ age'[r] = age[r]
  BY <1>1, <1>3 DEF LimiterTypeOK
<1>7. LimiterTypeOK'
  BY <1>1, <1>2, <1>3, <1>6 DEF LimiterTypeOK, new
<1>8. \A r \in Sessions : r \in Open' => r # s /\ r \in Open
  BY <1>6 DEF Open
<1>9. Leases'
  BY <1>1, <1>2, <1>6, <1>8 DEF Leases, new
<1> QED
  BY <1>4, <1>5, <1>7, <1>9 DEF new

\* An entry loses no more of its lease than its session grows older.
LEMMA TickKeeps ==
  ASSUME LimiterInv, Tick
  PROVE  LimiterInv'
<1> USE DEF LimiterInv
<1> DEFINE new == entry'
<1>1. /\ keyLife' = Less(keyLife) /\ session' = session
      /\ new = IF keyLife' = 0 THEN <<>> ELSE [s \in DOMAIN entry |-> Less(entry[s])]
      /\ age' = [s \in Sessions |->
                   IF s \in Open /\ age[s] < LeaseTime THEN age[s] + 1 ELSE age[s]]
  BY DEF Tick
<1>2. /\ \A r \in DOMAIN entry : entry[r] \in 0 .. LeaseTime
      /\ DOMAIN entry \subseteq Sessions /\ LeaseTime \in Nat /\ keyLife \in 0 .. LeaseTime
      /\ \A s \in Sessions : age[s] \in 0 .. LeaseTime
  BY LimiterAssumption DEF LimiterTypeOK
<1>3. \A n \in 0 .. LeaseTime : Less(n) \in 0 .. LeaseTime /\ (n = 0 => Less(n) = 0)
                                /\ (n # 0 => Less(n) = n - 1)
  BY <1>2 DEF Less
<1>4. /\ DOMAIN new \subseteq DOMAIN entry
      /\ \A r \in DOMAIN new : new[r] = Less(entry[r])
      /\ keyLife' # 0 => DOMAIN new = DOMAIN entry
      /\ new = [r \in DOMAIN new |-> new[r]]
  <2>1. CASE keyLife' = 0
    <3>1. new = <<>>
      BY <1>1, <2>1
    <3> QED
      BY <2>1, <3>1
  <2>2. CASE keyLife' # 0
    <3>1. new = [s \in DOMAIN entry |-> Less(entry[s])]
      BY <1>1, <2>2
    <3> QED
      BY <3>1
  <2> QED
    BY <2>1, <2>2
<1> HIDE DEF new
<1>5. \A r \in DOMAIN new : new[r] \in 0 .. LeaseTime
  BY <1>2, <1>3, <1>4
<1>6. new \in [DOMAIN new -> 0 .. LeaseTime]
  BY <1>4, <1>5
<1>7. age' \in [Sessions -> 0 .. LeaseTime]
  <2>1. ASSUME NEW s \in Sessions PROVE age'[s] \in 0 .. LeaseTime
    BY <1>1, <1>2
  <2> QED
    BY <1>1, <2>1
<1>8. LimiterTypeOK'
  BY <1>1, <1>2, <1>3, <1>4, <1>5, <1>7 DEF LimiterTypeOK, new
<1>9. Cardinality(DOMAIN new) <= SessionLimit
  BY <1>4, EntriesFinite
<1>10. ASSUME NEW r \in Sessions, r \in Open', age'[r] < LeaseTime
       PROVE  r \in DOMAIN new /\ new[r] + age'[r] >= LeaseTime
  <2>1. r \in Open
    BY <1>1, <1>10 DEF Open
  <2>2. age[r] < LeaseTime /\ age'[r] = age[r] + 1
    BY <1>1, <1>2, <1>10, <2>1
  <2>3. r \in DOMAIN entry /\ entry[r] + age[r] >= LeaseTime /\ entry[r] <= keyLife
    BY <2>1, <2>2 DEF Leases
  <2>4. entry[r] \in Nat /\ age[r] \in Nat /\ keyLife \in Nat /\ entry[r] > 1
    BY <1>2, <1>10, <2>2, <2>3
  <2>5. keyLife' # 0
    BY <1>1, <1>2, <1>3, <2>3, <2>4
  <2>6. new[r] = entry[r] - 1
    BY <1>2, <1>3, <1>4, <2>3, <2>4, <2>5
  <2> QED
    BY <1>4, <2>2, <2>3, <2>4, <2>5, <2>6
<1>11. ASSUME NEW r \in DOMAIN new PROVE new[r] <= keyLife'
  <2>1. entry[r] <= keyLife /\ entry[r] \in 0 .. LeaseTime /\ new[r] = Less(entry[r])
    BY <1>2, <1>4 DEF Leases
  <2> QED
    BY <1>1, <1>2, <1>3, <2>1
<1> QED
  BY <1>6, <1>8, <1>9, <1>10, <1>11 DEF Leases, new

LEMMA LimiterKeeps ==
  ASSUME LimiterInv, [LimiterNext]_limiterVars
  PROVE  LimiterInv'
<1>1. CASE LimiterNext
  BY <1>1, AcquireKeeps, SessionKeeps, RefreshKeeps, ReleaseKeeps, TickKeeps DEF LimiterNext
<1>2. CASE UNCHANGED limiterVars
  BY <1>2 DEF limiterVars, LimiterInv, LimiterTypeOK, Leases, Open
<1> QED
  BY <1>1, <1>2

LEMMA LimiterInvMeans ==
  ASSUME LimiterInv
  PROVE  LimitHolds /\ LimiterTypeOK
<1>1. {s \in Open : age[s] < LeaseTime} \subseteq DOMAIN entry
  BY DEF LimiterInv, Leases, Open
<1> QED
  BY <1>1, EntriesFinite DEF LimiterInv, LimitHolds
-----------------------------------------------------------------------------
(* The stream.                                                             *)

Heard == IF holding.client = Nothing THEN 0 ELSE 1

StreamTyped ==
  /\ timeline \in Seq(Loops \X (1 .. MaxAudio + MaxContent))
  /\ numbers \in Seq(Nat)
  /\ upstream \in Seq(Nat) /\ downstream \in Seq(Nat)
  /\ holding \in [Loops -> 0 .. MaxAudio + MaxContent]
  /\ made \in [Loops -> Nat] /\ \A l \in Loops : made[l] <= Limit(l)
  /\ again \in [Loops -> Nat] /\ \A l \in Loops : again[l] \in 1 .. made[l] + 1
  /\ link \in BOOLEAN /\ drops \in 0 .. MaxDrops

\* What has been made has been recorded, once and in the order of its arrival.
TimelineKept ==
  /\ numbers = [n \in 1 .. Len(timeline) |-> n]
  /\ Distinct(timeline)
  /\ \A l \in Loops, i \in Nat : Recorded(l, i) <=> i \in 1 .. made[l]

\* Audio that is held has been recorded after all that was forwarded.
AudioKept ==
  /\ \A i, k \in DOMAIN upstream : i < k => upstream[i] < upstream[k]
  /\ \A i \in DOMAIN upstream : upstream[i] \in 1 .. made["client"]
  /\ holding["client"] # Nothing =>
       /\ holding["client"] \in 1 .. made["client"]
       /\ \A i \in DOMAIN upstream : upstream[i] < holding["client"]
  /\ made["client"] <= Len(upstream) + drops + Heard

ContentKept ==
  /\ \A i \in DOMAIN downstream : downstream[i] \in 1 .. made["provider"]
  /\ holding["provider"] # Nothing => holding["provider"] \in 1 .. made["provider"]

StreamInv == StreamTyped /\ TimelineKept /\ AudioKept /\ ContentKept

LEMMA StreamStarts ==
  ASSUME StreamInit
  PROVE  StreamInv
<1>1. /\ timeline = <<>> /\ numbers = <<>> /\ upstream = <<>> /\ downstream = <<>>
      /\ holding = [l \in Loops |-> 0] /\ made = [l \in Loops |-> 0]
      /\ again = [l \in Loops |-> 1] /\ link = TRUE /\ drops = 0
  BY DEF StreamInit, Nothing
<1>2. 0 \in 0 .. MaxAudio + MaxContent /\ 0 \in 0 .. MaxDrops /\ 0 \in Nat /\ 1 \in 1 .. 0 + 1
      /\ \A l \in Loops : 0 <= Limit(l)
  BY StreamAssumption DEF Limit
<1>3. StreamTyped
  <2>1. made \in [Loops -> Nat] /\ (\A l \in Loops : made[l] <= Limit(l))
        /\ again \in [Loops -> Nat] /\ (\A l \in Loops : again[l] \in 1 .. made[l] + 1)
    BY <1>1, <1>2
  <2> QED
    BY <1>1, <1>2, <2>1 DEF StreamTyped
<1>4. /\ DOMAIN timeline = {} /\ DOMAIN upstream = {} /\ DOMAIN downstream = {}
      /\ Len(timeline) = 0 /\ Len(upstream) = 0
  BY <1>1
<1>5. TimelineKept
  <2>1. numbers = [n \in 1 .. Len(timeline) |-> n]
    BY <1>1, <1>4
  <2>2. Distinct(timeline)
    BY <1>4 DEF Distinct
  <2>3. \A l \in Loops : 1 .. made[l] = {}
    BY <1>1
  <2>4. \A l \in Loops, i \in Nat : ~Recorded(l, i)
    BY <1>4 DEF Recorded
  <2> QED
    BY <2>1, <2>2, <2>3, <2>4 DEF TimelineKept
<1>6. AudioKept /\ ContentKept
  BY <1>1, <1>4 DEF AudioKept, ContentKept, Heard, Nothing, Loops
<1> QED
  BY <1>3, <1>5, <1>6 DEF StreamInv

\* A new event is recorded at the end, a known one is not recorded again.
\* The next event of a loop, or one it repeats.
LEMMA IncomingCounts ==
  ASSUME StreamInv, NEW l \in Loops, NEW i \in 1 .. Limit(l), Incoming(l, i)
  PROVE  /\ made' \in [Loops -> Nat] /\ again' \in [Loops -> Nat]
         /\ \A k \in Loops : made'[k] <= Limit(k) /\ again'[k] \in 1 .. made'[k] + 1
         /\ \A k \in Loops \ {l} : made'[k] = made[k]
         /\ made[l] \in Nat /\ i \in Nat
         /\ \/ i \in 1 .. made[l] /\ made'[l] = made[l]
            \/ i = made[l] + 1 /\ made'[l] = i
<1> USE DEF StreamInv
<1>1. /\ made' = [made EXCEPT ![l] = IF i > @ THEN i ELSE @]
      /\ again' = [again EXCEPT ![l] = i + 1]
      /\ i \in again[l] .. made[l] + 1 /\ i <= Limit(l)
  BY DEF Incoming
<1>2. /\ made \in [Loops -> Nat] /\ again \in [Loops -> Nat]
      /\ \A k \in Loops : made[k] <= Limit(k) /\ again[k] \in 1 .. made[k] + 1
  BY DEF StreamTyped
<1>3. made[l] \in Nat /\ again[l] \in Nat /\ Limit(l) \in Nat
  BY <1>2, StreamAssumption DEF Limit
<1>4. i \in Nat /\ i >= 1 /\ i <= made[l] + 1
  BY <1>1, <1>2, <1>3
<1>5. /\ made'[l] = (IF i > made[l] THEN i ELSE made[l]) /\ again'[l] = i + 1
      /\ \A k \in Loops \ {l} : made'[k] = made[k] /\ again'[k] = again[k]
      /\ made' \in [Loops -> Nat] /\ again' \in [Loops -> Nat]
  BY <1>1, <1>2, <1>4
<1>6. /\ \/ i \in 1 .. made[l] /\ made'[l] = made[l]
         \/ i = made[l] + 1 /\ made'[l] = i
  BY <1>3, <1>4, <1>5
<1>7. made'[l] <= Limit(l) /\ again'[l] \in 1 .. made'[l] + 1
  BY <1>1, <1>2, <1>3, <1>4, <1>5
<1> QED
  BY <1>2, <1>3, <1>4, <1>5, <1>6, <1>7

\* A new event is recorded at the end, a known one is not recorded again.
LEMMA RecordKeeps ==
  ASSUME StreamInv, NEW l \in Loops, NEW i \in 1 .. Limit(l), Incoming(l, i), Record(l, i)
  PROVE  /\ TimelineKept'
         /\ timeline' \in Seq(Loops \X (1 .. MaxAudio + MaxContent)) /\ numbers' \in Seq(Nat)
<1> USE DEF StreamInv
<1>1. /\ \A k \in Loops \ {l} : made'[k] = made[k]
      /\ made[l] \in Nat /\ i \in Nat
      /\ \/ i \in 1 .. made[l] /\ made'[l] = made[l]
         \/ i = made[l] + 1 /\ made'[l] = i
  BY IncomingCounts
<1>2. /\ timeline \in Seq(Loops \X (1 .. MaxAudio + MaxContent)) /\ numbers \in Seq(Nat)
      /\ Len(timeline) \in Nat /\ DOMAIN timeline = 1 .. Len(timeline)
  BY DEF StreamTyped
<1>3. /\ numbers = [n \in 1 .. Len(timeline) |-> n] /\ Distinct(timeline)
      /\ \A k \in Loops, j \in Nat : Recorded(k, j) <=> j \in 1 .. made[k]
  BY DEF TimelineKept
<1>4. CASE Recorded(l, i)
  <2>1. timeline' = timeline /\ numbers' = numbers
    BY <1>4 DEF Record
  <2>2. i \in 1 .. made[l]
    BY <1>1, <1>3, <1>4
  <2>3. made'[l] = made[l]
    BY <1>1, <2>2
  <2>4. \A k \in Loops, j \in Nat : Recorded(k, j)' <=> j \in 1 .. made'[k]
    BY <1>1, <1>3, <2>1, <2>3 DEF Recorded
  <2> QED
    BY <1>2, <1>3, <2>1, <2>4 DEF TimelineKept, Distinct
<1>5. CASE ~Recorded(l, i)
  <2> DEFINE t == timeline'
             e == <<l, i>>
             m == Len(timeline)
  <2>1. t = Append(timeline, e) /\ numbers' = Append(numbers, NextNumber)
    BY <1>5 DEF Record
  <2>2. e \in Loops \X (1 .. MaxAudio + MaxContent)
    BY StreamAssumption DEF Limit
  <2>3. i = made[l] + 1 /\ made'[l] = i
    BY <1>1, <1>3, <1>5
  <2>4. Len(numbers) = m /\ NextNumber = m + 1
    <3>1. Len(numbers) = m
      BY <1>2, <1>3
    <3>2. CASE m = 0
      BY <1>2, <3>1, <3>2 DEF NextNumber
    <3>3. CASE m # 0
      <4>1. numbers[m] = m /\ numbers # <<>>
        BY <1>2, <1>3, <3>1, <3>3
      <4> QED
        BY <3>1, <4>1 DEF NextNumber
    <3> QED
      BY <3>1, <3>2, <3>3
  <2> HIDE DEF e, t
  <2>5. /\ t \in Seq(Loops \X (1 .. MaxAudio + MaxContent)) /\ Len(t) = m + 1 /\ t[m + 1] = e
        /\ \A n \in 1 .. m : t[n] = timeline[n]
        /\ DOMAIN t = 1 .. m + 1
    BY <1>2, <2>1, <2>2
  <2>6. numbers' = [n \in 1 .. m + 1 |-> n] /\ numbers' \in Seq(Nat)
    <3>1. /\ numbers' \in Seq(Nat) /\ Len(numbers') = m + 1 /\ numbers'[m + 1] = m + 1
          /\ \A n \in 1 .. m : numbers'[n] = numbers[n]
      BY <1>2, <2>1, <2>4
    <3>2. \A n \in 1 .. m : numbers[n] = n
      BY <1>3
    <3>3. ASSUME NEW n \in 1 .. m + 1 PROVE numbers'[n] = n
      <4>1. n \in 1 .. m \/ n = m + 1
        BY <1>2
      <4> QED
        BY <3>1, <3>2, <4>1
    <3> QED
      BY <1>2, <3>1, <3>3
  <2>7. \A n \in 1 .. m : t[n] # e
    BY <1>2, <1>5, <2>5 DEF Recorded, e
  <2>8. Distinct(t)
    <3>1. ASSUME NEW a \in DOMAIN t, NEW b \in DOMAIN t, t[a] = t[b] PROVE a = b
      <4>1. a \in 1 .. m \/ a = m + 1
        BY <1>2, <2>5
      <4>2. b \in 1 .. m \/ b = m + 1
        BY <1>2, <2>5
      <4>3. a \in 1 .. m /\ b \in 1 .. m => a = b
        BY <1>2, <1>3, <2>5, <3>1 DEF Distinct
      <4> QED
        BY <2>5, <2>7, <3>1, <4>1, <4>2, <4>3
    <3> QED
      BY <3>1 DEF Distinct
  <2>9. ASSUME NEW k \in Loops, NEW j \in Nat PROVE Recorded(k, j)' <=> j \in 1 .. made'[k]
    <3>1. Recorded(k, j)' <=> Recorded(k, j) \/ <<k, j>> = e
      <4>1. Recorded(k, j)' <=> \E n \in 1 .. m + 1 : t[n] = <<k, j>>
        BY <2>5 DEF Recorded, t
      <4>2. Recorded(k, j) <=> \E n \in 1 .. m : timeline[n] = <<k, j>>
        BY <1>2 DEF Recorded
      <4>3. ASSUME NEW n \in 1 .. m + 1 PROVE n \in 1 .. m \/ n = m + 1
        BY <1>2
      <4>4. m + 1 \in 1 .. m + 1 /\ \A n \in 1 .. m : n \in 1 .. m + 1
        BY <1>2
      <4> QED
        BY <2>5, <4>1, <4>2, <4>3, <4>4
    <3>2. <<k, j>> = e <=> k = l /\ j = i
      BY DEF e
    <3>3. CASE k = l
      <4>1. Recorded(k, j) <=> j \in 1 .. made[l]
        BY <1>3, <3>3
      <4> QED
        BY <1>1, <2>3, <3>1, <3>2, <3>3, <4>1
    <3>4. CASE k # l
      BY <1>1, <1>3, <3>1, <3>2, <3>4
    <3> QED
      BY <3>3, <3>4
  <2> QED
    BY <2>5, <2>6, <2>8, <2>9 DEF TimelineKept, t
<1> QED
  BY <1>4, <1>5

LEMMA ReceiveAudioKeeps ==
  ASSUME StreamInv, NEW i \in 1 .. MaxAudio, ReceiveAudio(i)
  PROVE  StreamInv'
<1> USE DEF StreamInv
<1> DEFINE fwd == IF ToForward(i) THEN i ELSE Nothing
<1>1. /\ Incoming("client", i) /\ Record("client", i)
      /\ holding' = [holding EXCEPT !["client"] = fwd]
      /\ UNCHANGED <<upstream, downstream, link, drops>>
  BY DEF ReceiveAudio
<1>2. "client" \in Loops /\ "provider" \in Loops /\ i \in 1 .. Limit("client")
      /\ "client" # "provider" /\ Loops = {"client", "provider"}
  BY DEF Loops, Limit
<1>3. /\ TimelineKept'
      /\ timeline' \in Seq(Loops \X (1 .. MaxAudio + MaxContent)) /\ numbers' \in Seq(Nat)
  BY <1>1, <1>2, RecordKeeps
<1>4. /\ made' \in [Loops -> Nat] /\ again' \in [Loops -> Nat]
      /\ \A k \in Loops : made'[k] <= Limit(k) /\ again'[k] \in 1 .. made'[k] + 1
      /\ made'["provider"] = made["provider"]
      /\ made["client"] \in Nat /\ i \in Nat
      /\ \/ i \in 1 .. made["client"] /\ made'["client"] = made["client"]
         \/ i = made["client"] + 1 /\ made'["client"] = i
  BY <1>1, <1>2, IncomingCounts
<1>5. holding["client"] = Nothing
  BY <1>1 DEF Incoming
<1>6. ToForward(i) <=> i \notin 1 .. made["client"]
  BY <1>2, <1>4 DEF ToForward, TimelineKept
<1>7. fwd \in 0 .. MaxAudio + MaxContent
  BY StreamAssumption DEF Nothing
<1>8. holding'["client"] = fwd /\ holding'["provider"] = holding["provider"]
      /\ holding' \in [Loops -> 0 .. MaxAudio + MaxContent]
  BY <1>1, <1>2, <1>7 DEF StreamTyped
<1>9. StreamTyped'
  BY <1>1, <1>3, <1>4, <1>8 DEF StreamTyped
<1>10. upstream \in Seq(Nat) /\ Len(upstream) \in Nat /\ drops \in Nat
  BY StreamAssumption DEF StreamTyped
<1>11. AudioKept'
  <2>1. /\ \A k \in DOMAIN upstream : upstream[k] \in 1 .. made["client"]
        /\ \A k, n \in DOMAIN upstream : k < n => upstream[k] < upstream[n]
        /\ made["client"] <= Len(upstream) + drops
    BY <1>5, <1>10 DEF AudioKept, Heard
  <2>2. CASE i \in 1 .. made["client"]
    <3>1. made'["client"] = made["client"] /\ fwd = Nothing
      BY <1>4, <1>6, <2>2
    <3> QED
      BY <1>1, <1>8, <1>10, <2>1, <3>1 DEF AudioKept, Heard
  <2>3. CASE i = made["client"] + 1
    <3>1. made'["client"] = i /\ fwd = i /\ i # Nothing
      BY <1>4, <1>6, <2>3 DEF Nothing
    <3>2. \A k \in DOMAIN upstream : upstream[k] < i /\ upstream[k] \in 1 .. i
      BY <1>4, <2>1, <2>3
    <3>3. i <= Len(upstream) + drops + 1
      BY <1>4, <1>10, <2>1, <2>3
    <3>4. i \in 1 .. i
      BY <1>4
    <3> QED
      BY <1>1, <1>8, <2>1, <3>1, <3>2, <3>3, <3>4 DEF AudioKept, Heard
  <2> QED
    BY <1>4, <2>2, <2>3
<1>12. ContentKept'
  BY <1>1, <1>4, <1>8 DEF ContentKept
<1> QED
  BY <1>3, <1>9, <1>11, <1>12

LEMMA ReceiveContentKeeps ==
  ASSUME StreamInv, NEW i \in 1 .. MaxContent, ReceiveContent(i)
  PROVE  StreamInv'
<1> USE DEF StreamInv
<1>1. /\ Incoming("provider", i) /\ Record("provider", i)
      /\ holding' = [holding EXCEPT !["provider"] = i]
      /\ UNCHANGED <<upstream, downstream, link, drops>>
  BY DEF ReceiveContent
<1>2. "client" \in Loops /\ "provider" \in Loops /\ i \in 1 .. Limit("provider")
      /\ "client" # "provider" /\ Loops = {"client", "provider"}
  BY DEF Loops, Limit
<1>3. /\ TimelineKept'
      /\ timeline' \in Seq(Loops \X (1 .. MaxAudio + MaxContent)) /\ numbers' \in Seq(Nat)
  BY <1>1, <1>2, RecordKeeps
<1>4. /\ made' \in [Loops -> Nat] /\ again' \in [Loops -> Nat]
      /\ \A k \in Loops : made'[k] <= Limit(k) /\ again'[k] \in 1 .. made'[k] + 1
      /\ made'["client"] = made["client"]
      /\ made["provider"] \in Nat /\ i \in Nat
      /\ \/ i \in 1 .. made["provider"] /\ made'["provider"] = made["provider"]
         \/ i = made["provider"] + 1 /\ made'["provider"] = i
  BY <1>1, <1>2, IncomingCounts
<1>5. i \in 0 .. MaxAudio + MaxContent
  BY StreamAssumption
<1>6. holding'["provider"] = i /\ holding'["client"] = holding["client"]
      /\ holding' \in [Loops -> 0 .. MaxAudio + MaxContent]
  BY <1>1, <1>2, <1>5 DEF StreamTyped
<1>7. StreamTyped'
  BY <1>1, <1>3, <1>4, <1>6 DEF StreamTyped
<1>8. AudioKept'
  BY <1>1, <1>4, <1>6 DEF AudioKept, Heard
<1>9. ContentKept'
  <2>1. i \in 1 .. made'["provider"]
        /\ \A j \in 1 .. made["provider"] : j \in 1 .. made'["provider"]
    BY <1>4
  <2> QED
    BY <1>1, <1>6, <2>1 DEF ContentKept
<1> QED
  BY <1>3, <1>7, <1>8, <1>9

LEMMA ForwardAudioKeeps ==
  ASSUME StreamInv, ForwardAudio
  PROVE  StreamInv'
<1> USE DEF StreamInv
<1> DEFINE h == holding["client"]
           u == upstream'
           m == Len(upstream)
<1>1. /\ h # Nothing /\ u = Append(upstream, h)
      /\ holding' = [holding EXCEPT !["client"] = Nothing]
      /\ UNCHANGED <<timeline, numbers, downstream, made, again, link, drops>>
  BY DEF ForwardAudio
<1>2. /\ upstream \in Seq(Nat) /\ h \in Nat /\ m \in Nat /\ DOMAIN upstream = 1 .. m
      /\ made["client"] \in Nat /\ drops \in Nat
  BY StreamAssumption DEF StreamTyped, Loops
<1>3. /\ h \in 1 .. made["client"]
      /\ \A i \in 1 .. m : upstream[i] < h /\ upstream[i] \in 1 .. made["client"]
      /\ \A i, k \in 1 .. m : i < k => upstream[i] < upstream[k]
      /\ made["client"] <= m + drops + 1
  BY <1>1, <1>2 DEF AudioKept, Heard
<1>4. holding'["client"] = Nothing /\ holding'["provider"] = holding["provider"]
      /\ holding' \in [Loops -> 0 .. MaxAudio + MaxContent]
  BY <1>1, StreamAssumption DEF StreamTyped, Loops, Nothing
<1> HIDE DEF h, u
<1>5. u \in Seq(Nat) /\ Len(u) = m + 1 /\ u[m + 1] = h /\ DOMAIN u = 1 .. m + 1
      /\ \A i \in 1 .. m : u[i] = upstream[i]
  BY <1>1, <1>2
<1>6. StreamTyped'
  BY <1>1, <1>4, <1>5 DEF StreamTyped, Limit, u
<1>7. AudioKept'
  <2>1. ASSUME NEW i \in 1 .. m + 1, NEW k \in 1 .. m + 1, i < k PROVE u[i] < u[k]
    <3>1. i \in 1 .. m
      BY <1>2, <2>1
    <3>2. k \in 1 .. m \/ k = m + 1
      BY <1>2
    <3> QED
      BY <1>3, <1>5, <2>1, <3>1, <3>2
  <2>2. ASSUME NEW i \in 1 .. m + 1 PROVE u[i] \in 1 .. made["client"]
    <3>1. i \in 1 .. m \/ i = m + 1
      BY <1>2
    <3> QED
      BY <1>3, <1>5, <3>1
  <2>3. made["client"] <= Len(u) + drops + 0
    BY <1>2, <1>3, <1>5
  <2> QED
    BY <1>1, <1>4, <1>5, <2>1, <2>2, <2>3 DEF AudioKept, Heard, u
<1>8. TimelineKept' /\ ContentKept'
  BY <1>1, <1>4 DEF TimelineKept, ContentKept, Recorded, Distinct
<1> QED
  BY <1>6, <1>7, <1>8

LEMMA ShowContentKeeps ==
  ASSUME StreamInv, ShowContent
  PROVE  StreamInv'
<1> USE DEF StreamInv
<1> DEFINE h == holding["provider"]
           d == downstream'
           m == Len(downstream)
<1>1. /\ h # Nothing /\ d = Append(downstream, h)
      /\ holding' = [holding EXCEPT !["provider"] = Nothing]
      /\ UNCHANGED <<timeline, numbers, upstream, made, again, link, drops>>
  BY DEF ShowContent
<1>2. /\ downstream \in Seq(Nat) /\ h \in Nat /\ m \in Nat /\ DOMAIN downstream = 1 .. m
  BY StreamAssumption DEF StreamTyped, Loops
<1>3. h \in 1 .. made["provider"] /\ \A i \in 1 .. m : downstream[i] \in 1 .. made["provider"]
  BY <1>1, <1>2 DEF ContentKept
<1>4. holding'["provider"] = Nothing /\ holding'["client"] = holding["client"]
      /\ holding' \in [Loops -> 0 .. MaxAudio + MaxContent]
  BY <1>1, StreamAssumption DEF StreamTyped, Loops, Nothing
<1> HIDE DEF h, d
<1>5. d \in Seq(Nat) /\ DOMAIN d = 1 .. m + 1 /\ d[m + 1] = h
      /\ \A i \in 1 .. m : d[i] = downstream[i]
  BY <1>1, <1>2
<1>6. StreamTyped'
  BY <1>1, <1>4, <1>5 DEF StreamTyped, Limit, d
<1>7. ContentKept'
  <2>1. ASSUME NEW i \in 1 .. m + 1 PROVE d[i] \in 1 .. made["provider"]
    <3>1. i \in 1 .. m \/ i = m + 1
      BY <1>2
    <3> QED
      BY <1>3, <1>5, <3>1
  <2> QED
    BY <1>1, <1>4, <1>5, <2>1 DEF ContentKept, d
<1>8. TimelineKept' /\ AudioKept'
  BY <1>1, <1>4 DEF TimelineKept, AudioKept, Heard, Recorded, Distinct
<1> QED
  BY <1>6, <1>7, <1>8

\* A lost connection costs the chunk that is held.
LEMMA DropLinkKeeps ==
  ASSUME StreamInv, DropLink
  PROVE  StreamInv'
<1> USE DEF StreamInv
<1>1. /\ drops < MaxDrops /\ link' = FALSE /\ drops' = drops + 1
      /\ holding' = [l \in Loops |-> Nothing]
      /\ UNCHANGED <<timeline, numbers, upstream, downstream, made, again>>
  BY DEF DropLink
<1>2. /\ drops' \in 0 .. MaxDrops /\ drops \in Nat /\ Len(upstream) \in Nat
      /\ made["client"] \in Nat
      /\ Nothing \in 0 .. MaxAudio + MaxContent
  BY <1>1, StreamAssumption DEF StreamTyped, Nothing, Loops
<1>3. StreamTyped'
  BY <1>1, <1>2 DEF StreamTyped, Limit
<1>4. holding'["client"] = Nothing /\ holding'["provider"] = Nothing
  BY <1>1 DEF Loops
<1>5. made["client"] <= Len(upstream) + drops' + 0
  BY <1>1, <1>2 DEF AudioKept, Heard
<1>6. AudioKept' /\ ContentKept'
  BY <1>1, <1>4, <1>5 DEF AudioKept, ContentKept, Heard
<1>7. TimelineKept'
  BY <1>1 DEF TimelineKept, Recorded, Distinct
<1> QED
  BY <1>3, <1>6, <1>7

LEMMA ReconnectKeeps ==
  ASSUME StreamInv, Reconnect
  PROVE  StreamInv'
<1> USE DEF StreamInv
<1>1. /\ link' = TRUE
      /\ again' \in [Loops -> 1 .. MaxAudio + MaxContent]
      /\ \A l \in Loops : again'[l] \in {made[l], made[l] + 1} \ {0}
      /\ UNCHANGED <<timeline, numbers, upstream, downstream, holding, made, drops>>
  BY DEF Reconnect
<1>2. again' \in [Loops -> Nat] /\ \A l \in Loops : made[l] \in Nat
  BY <1>1, StreamAssumption DEF StreamTyped
<1>3. \A l \in Loops : again'[l] \in 1 .. made[l] + 1
  BY <1>1, <1>2
<1>4. StreamTyped'
  BY <1>1, <1>2, <1>3 DEF StreamTyped, Limit
<1>5. TimelineKept' /\ AudioKept' /\ ContentKept'
  BY <1>1 DEF TimelineKept, AudioKept, ContentKept, Heard, Recorded, Distinct
<1> QED
  BY <1>4, <1>5

LEMMA StreamKeeps ==
  ASSUME StreamInv, [StreamNext]_streamVars
  PROVE  StreamInv'
<1>1. CASE StreamNext
  BY <1>1, ReceiveAudioKeeps, ReceiveContentKeeps, ForwardAudioKeeps, ShowContentKeeps,
     DropLinkKeeps, ReconnectKeeps DEF StreamNext
<1>2. CASE UNCHANGED streamVars
  <2>1. UNCHANGED <<timeline, numbers, upstream, downstream, holding, made, again, link, drops>>
    BY <1>2 DEF streamVars
  <2> QED
    BY <2>1 DEF StreamInv, StreamTyped, TimelineKept, AudioKept, ContentKept, Heard, Recorded,
                Distinct, Limit
<1> QED
  BY <1>1, <1>2

LEMMA StreamInvMeans ==
  ASSUME StreamInv
  PROVE  TranscriptKept /\ StreamTypeOK
<1> USE DEF StreamInv
<1>1. /\ made["client"] \in 0 .. MaxAudio /\ made["provider"] \in 0 .. MaxContent
      /\ "client" \in Loops /\ "provider" \in Loops
  BY StreamAssumption DEF StreamTyped, Loops, Limit
<1>2. StreamTypeOK
  BY <1>1 DEF StreamTyped, StreamTypeOK
<1>3. /\ upstream \in Seq(Nat) /\ Len(upstream) \in Nat /\ DOMAIN upstream = 1 .. Len(upstream)
      /\ \A i \in DOMAIN upstream : upstream[i] \in Nat
      /\ downstream \in Seq(Nat) /\ \A i \in DOMAIN downstream : downstream[i] \in Nat
  BY DEF StreamTyped
<1>4. RecordedAudio = 1 .. made["client"]
  BY <1>1, StreamAssumption DEF RecordedAudio, TimelineKept
<1>5. Cardinality(RecordedAudio) = made["client"]
  <2> DEFINE c == made["client"]
  <2>1. c \in Nat /\ RecordedAudio = 1 .. c
    BY <1>1, <1>4, StreamAssumption
  <2> HIDE DEF c
  <2>2. Cardinality(1 .. c) = c
    BY <2>1, FS_Interval
  <2> QED
    BY <2>1, <2>2 DEF c
<1>6. Distinct(upstream)
  <2>1. ASSUME NEW i \in DOMAIN upstream, NEW k \in DOMAIN upstream, upstream[i] = upstream[k]
        PROVE  i = k
    <3>1. i \in Nat /\ k \in Nat /\ upstream[i] \in Nat /\ upstream[k] \in Nat
      BY <1>3
    <3>2. ~(i < k) /\ ~(k < i)
      BY <2>1, <3>1 DEF AudioKept
    <3> QED
      BY <3>1, <3>2
  <2> QED
    BY <2>1 DEF Distinct
<1>7. \A n \in 1 .. Len(upstream) - 1 : upstream[n] < upstream[n + 1]
  <2>1. ASSUME NEW n \in 1 .. Len(upstream) - 1 PROVE upstream[n] < upstream[n + 1]
    <3>1. n \in DOMAIN upstream /\ n + 1 \in DOMAIN upstream /\ n < n + 1
      BY <1>3
    <3> QED
      BY <3>1 DEF AudioKept
  <2> QED
    BY <2>1
<1>8. \A n \in DOMAIN upstream : upstream[n] \in RecordedAudio
  BY <1>4 DEF AudioKept
<1>9. Cardinality(RecordedAudio) <=
        Len(upstream) + drops + (IF holding.client = Nothing THEN 0 ELSE 1)
  BY <1>5 DEF AudioKept, Heard
<1>10. \A n \in DOMAIN downstream : Recorded("provider", downstream[n])
  BY <1>1, <1>3 DEF ContentKept, TimelineKept
<1> QED
  BY <1>2, <1>6, <1>7, <1>8, <1>9, <1>10 DEF TranscriptKept, TimelineKept
-----------------------------------------------------------------------------
(* The components together.                                                *)

PoolInv ==
  /\ part \in Parts
  /\ part = "catalogue" => CatalogueInv
  /\ part = "answers" => AnswerInv
  /\ part = "ranking" => RankingInv
  /\ part = "recommendation" => RecommendationInv /\ RecommendationBounded
  /\ part = "application" => ApplicationInv
  /\ part = "calls" => ProviderInv
  /\ part = "limiter" => LimiterInv
  /\ part = "stream" => StreamInv

LEMMA PoolStarts == Init => PoolInv
BY CatalogueStarts, AnswerStarts, RankingStarts, RecommendationStarts, BoundedStarts,
   ApplicationStarts, ProviderStarts, LimiterStarts, StreamStarts
   DEF Init, PoolInv

\* Of a step of the pool, a component sees a step of its own.
LEMMA OwnSteps ==
  ASSUME [Next]_allVars
  PROVE  /\ part' = part
         /\ part = "catalogue" => [CatalogueNext]_catalogueVars
         /\ part = "answers" => [AnswerNext]_searchVars
         /\ part = "ranking" => [RankingNext]_rankingVars
         /\ part = "recommendation" => [RecommendationNext]_recommendationVars
         /\ part = "application" => [ApplicationNext]_applicationVars
         /\ part = "calls" => [ProviderNext]_providerVars
         /\ part = "limiter" => [LimiterNext]_limiterVars
         /\ part = "stream" => [StreamNext]_streamVars
<1>1. CASE UNCHANGED allVars
  BY <1>1 DEF allVars
<1>2. CASE Next
  <2>1. part' = part
    BY <1>2 DEF Next, Only
  <2>2. part = "catalogue" => CatalogueNext
    BY <1>2 DEF Next
  <2>3. part = "answers" => AnswerNext
    BY <1>2 DEF Next
  <2>4. part = "ranking" => RankingNext
    BY <1>2 DEF Next
  <2>5. part = "recommendation" => RecommendationNext
    BY <1>2 DEF Next
  <2>6. part = "application" => ApplicationNext
    BY <1>2 DEF Next
  <2>7. part = "calls" => ProviderNext
    BY <1>2 DEF Next
  <2>8. part = "limiter" => LimiterNext
    BY <1>2 DEF Next
  <2>9. part = "stream" => StreamNext
    BY <1>2 DEF Next
  <2> QED
    BY <2>1, <2>2, <2>3, <2>4, <2>5, <2>6, <2>7, <2>8, <2>9
<1> QED
  BY <1>1, <1>2

LEMMA PoolKeeps ==
  ASSUME PoolInv, [Next]_allVars
  PROVE  PoolInv'
<1>1. ASSUME part = "catalogue" PROVE CatalogueInv'
  BY <1>1, OwnSteps, CatalogueKeeps DEF PoolInv
<1>2. ASSUME part = "answers" PROVE AnswerInv'
  BY <1>2, OwnSteps, AnswerKeeps DEF PoolInv
<1>3. ASSUME part = "ranking" PROVE RankingInv'
  BY <1>3, OwnSteps, RankingKeeps DEF PoolInv
<1>4. ASSUME part = "recommendation" PROVE RecommendationInv' /\ RecommendationBounded'
  BY <1>4, OwnSteps, RecommendationKeeps, RecommendationStaysBounded DEF PoolInv
<1>5. ASSUME part = "application" PROVE ApplicationInv'
  BY <1>5, OwnSteps, ApplicationKeeps DEF PoolInv
<1>6. ASSUME part = "calls" PROVE ProviderInv'
  BY <1>6, OwnSteps, ProviderKeeps DEF PoolInv
<1>7. ASSUME part = "limiter" PROVE LimiterInv'
  BY <1>7, OwnSteps, LimiterKeeps DEF PoolInv
<1>8. ASSUME part = "stream" PROVE StreamInv'
  BY <1>8, OwnSteps, StreamKeeps DEF PoolInv
<1> QED
  BY <1>1, <1>2, <1>3, <1>4, <1>5, <1>6, <1>7, <1>8, OwnSteps DEF PoolInv

LEMMA PoolInvariantHolds == Spec => []PoolInv
BY PoolStarts, PoolKeeps, PTL DEF Spec

\* Every variable of the component that runs keeps its type: what the code may write into
\* a column, a counter or a list is in the range the others read it with.
THEOREM TypesStayCorrect == Spec => []TypeOK
<1>1. ASSUME PoolInv PROVE TypeOK
  <2>1. CASE part = "catalogue"
    <3>1. CatalogueTypeOK
      BY <1>1, <2>1, CatalogueInvMeans DEF PoolInv
    <3> QED
      BY <2>1, <3>1 DEF TypeOK
  <2>2. CASE part = "answers"
    <3>1. AnswerTypeOK
      BY <1>1, <2>2, AnswerInvMeans DEF PoolInv
    <3> QED
      BY <2>2, <3>1 DEF TypeOK
  <2>3. CASE part = "ranking"
    <3>1. RankingTypeOK
      BY <1>1, <2>3, RankingInvMeans DEF PoolInv
    <3> QED
      BY <2>3, <3>1 DEF TypeOK
  <2>4. CASE part = "recommendation"
    <3>1. RecommendationTypeOK
      BY <1>1, <2>4, RecommendationIsTyped DEF PoolInv
    <3> QED
      BY <2>4, <3>1 DEF TypeOK
  <2>5. CASE part = "application"
    <3>1. ApplicationTypeOK
      BY <1>1, <2>5, ApplicationInvMeans DEF PoolInv
    <3> QED
      BY <2>5, <3>1 DEF TypeOK
  <2>6. CASE part = "calls"
    <3>1. ProviderTypeOK
      BY <1>1, <2>6, ProviderInvMeans DEF PoolInv
    <3> QED
      BY <2>6, <3>1 DEF TypeOK
  <2>7. CASE part = "limiter"
    <3>1. LimiterTypeOK
      BY <1>1, <2>7, LimiterInvMeans DEF PoolInv
    <3> QED
      BY <2>7, <3>1 DEF TypeOK
  <2>8. CASE part = "stream"
    <3>1. StreamTypeOK
      BY <1>1, <2>8, StreamInvMeans DEF PoolInv
    <3> QED
      BY <2>8, <3>1 DEF TypeOK
  <2> QED
    BY <1>1, <2>1, <2>2, <2>3, <2>4, <2>5, <2>6, <2>7, <2>8 DEF PoolInv, Parts
<1> QED
  BY <1>1, PoolInvariantHolds, PTL

\* FR-JOB-002, FR-JOB-003, FR-JOB-006, FR-JOB-011, FR-JOB-012: what is shown of a posting has
\* a source, was verified and is not withdrawn, and the two filters agree (_verify_and_upsert,
\* _eligible_job_ids, _job_matches_filters, the moderation of reports, openai_jobs.py).
THEOREM PostingsStayVouchedFor == Spec => []PostingsAreVouchedFor
<1>1. ASSUME PoolInv PROVE PostingsAreVouchedFor
  <2>1. part = "catalogue" => FiltersAgree /\ ListedIsVouchedFor
    BY <1>1, CatalogueInvMeans DEF PoolInv
  <2>2. part = "answers" => ProvenanceKept
    BY <1>1, AnswerInvMeans DEF PoolInv
  <2> QED
    BY <2>1, <2>2 DEF PostingsAreVouchedFor
<1> QED
  BY <1>1, PoolInvariantHolds, PTL

\* FR-JOB-007: see DominanceRespected (_score and the sort key of _hybrid_candidates).
THEOREM RankingStaysFair == Spec => []RankingIsFair
<1>1. PoolInv => RankingIsFair
  BY RankingInvMeans DEF PoolInv, RankingIsFair
<1> QED
  BY <1>1, PoolInvariantHolds, PTL

\* FR-REC-001: see RunIsCurrent (ProductRecommendationService create, CandidateProfileBuilder,
\* product.recommendations.generate).
THEOREM RecommendationsStayCurrent == Spec => []RecommendationsAreCurrent
<1>1. PoolInv => RecommendationsAreCurrent
  BY RecommendationInvMeans DEF PoolInv, RecommendationsAreCurrent
<1> QED
  BY <1>1, PoolInvariantHolds, PTL

\* FR-JOB-010: see HistoryIsOneStory (the status updates of an application, their version
\* and their idempotency keys).
THEOREM ApplicationsStayOneStory == Spec => []ApplicationsAreOneStory
<1>1. PoolInv => ApplicationsAreOneStory
  BY ApplicationInvMeans DEF PoolInv, ApplicationsAreOneStory
<1> QED
  BY <1>1, PoolInvariantHolds, PTL

\* NFR-AVL-004: calls of a provider and sessions of a user are counted, and given back, once
\* (core/provider_resilience.py, RealtimeSessionLimiter).
THEOREM LimitsStayKept == Spec => []LimitsAreKept
<1>1. ASSUME PoolInv PROVE LimitsAreKept
  <2>1. part = "calls" => CallsAccounted
    BY <1>1, ProviderInvMeans DEF PoolInv
  <2>2. part = "limiter" => LimitHolds
    BY <1>1, LimiterInvMeans DEF PoolInv
  <2> QED
    BY <2>1, <2>2 DEF LimitsAreKept
<1> QED
  BY <1>1, PoolInvariantHolds, PTL

\* NFR-AVL-005: see TranscriptKept (the two halves of the bridge of a live interview, its
\* transcript and the numbers of its events).
THEOREM SpeechStaysKept == Spec => []SpeechIsKept
<1>1. PoolInv => SpeechIsKept
  BY StreamInvMeans DEF PoolInv, SpeechIsKept
<1> QED
  BY <1>1, PoolInvariantHolds, PTL
=============================================================================
