-------------------------- MODULE InterviewProofs ---------------------------
(***************************************************************************)
(* For any number of tokens and credits: an interview occupies at most one *)
(* reservation, is charged exactly when it is billable, and has at most    *)
(* one connection.                                                         *)
(*                                                                         *)
(* The first two follow from what the transactions in flight may believe.  *)
(* A create_realtime_token that saw no reservation to keep is right, since *)
(* it holds the interview; one that saw an open reservation may be wrong,  *)
(* but only because the reconciler released it.  The reconciler holds the  *)
(* interview's own reservation, open, of an interview not yet billable.    *)
(***************************************************************************)
EXTENDS Interview, TLAPS

OnlyOwnHold ==
  \A t \in Token : hold[t] \in {"reserved", "captured"} => t = reservation

BillableIsCaptured == billable <=> Has("captured")

UnusedHasNoHold == \A t \in Token : token[t] = "unused" => hold[t] = "none"

TokensHaveReservation == \A t \in Token : token[t] # "unused" => reservation # NoToken

IssuerIsRight ==
  ~InterviewFree =>
    /\ token[issuing.token] = "unused"
    /\ issuing.saw = "nothing" => ~Has("reserved") /\ ~Has("captured")
    /\ issuing.saw = "lapsed" => Has("reserved") \/ Has("released")
    /\ issuing.saw = "kept" => reservation # NoToken

SettlerIsRight ==
  ~HoldFree => settling.hold = reservation /\ Has("reserved") /\ settling.action # "capture"

PaidOnce ==
  /\ OnlyOwnHold /\ BillableIsCaptured /\ UnusedHasNoHold /\ TokensHaveReservation
  /\ IssuerIsRight /\ SettlerIsRight

\* The interview is connectable only when no connection is left.
OneSocket ==
  /\ \A t, u \in Token : conn[t] # "none" /\ conn[u] # "none" => t = u
  /\ status \in {"ready", "interrupted"} => \A t \in Token : conn[t] = "none"
  /\ \A t \in Token : conn[t] # "none" => token[t] # "unused"

IInv == TypeOK /\ PaidOnce /\ OneSocket

-----------------------------------------------------------------------------
(* Types *)

LEMMA HelperTypes ==
  ASSUME TypeOK
  PROVE  /\ ReleaseOwn \/ CaptureOwn =>
              /\ hold' \in [Token -> {"none", "reserved", "captured", "released"}]
              /\ available' \in Int /\ reserved' \in Int
         /\ EvaluateNow => /\ status' \in Status
                           /\ report' \in [Attempt -> {"none", "processing", "ready", "failed"}]
         /\ EvaluateNow => ReleaseOwn \/ CaptureOwn
         /\ \A s \in Status : CloseAs(s) => status' \in Status /\ UNCHANGED report /\ ReleaseOwn
<1>1. ReleaseOwn \/ CaptureOwn =>
        /\ hold' \in [Token -> {"none", "reserved", "captured", "released"}]
        /\ available' \in Int /\ reserved' \in Int
  BY DEF TypeOK, ReleaseOwn, CaptureOwn, money
<1>2. EvaluateNow => ReleaseOwn \/ CaptureOwn
  BY DEF EvaluateNow
<1>3. EvaluateNow => /\ status' \in Status
                     /\ report' \in [Attempt -> {"none", "processing", "ready", "failed"}]
  BY DEF EvaluateNow, TypeOK, Status
<1>4. \A s \in Status : CloseAs(s) => status' \in Status /\ UNCHANGED report /\ ReleaseOwn
  BY DEF CloseAs
<1> QED
  BY <1>1, <1>2, <1>3, <1>4

LEMMA SessionTypes == TypeOK /\ Session => TypeOK'
<1> SUFFICES ASSUME TypeOK, NEW t \in Token,
                    \/ Connect(t) \/ CandidateSpeaks(t) \/ ContentSent(t) \/ MarkBillable(t) \/ Drop(t)
                    \/ Interrupt(t) \/ ServerDies(t) \/ ClientEnds(t) \/ ConnectionTimesOut(t)
             PROVE  TypeOK'
  BY DEF Session
<1> USE DEF workers, deadlines, Open
<1>1. CASE Connect(t)
  BY <1>1 DEF Connect, TypeOK, Status, Ongoing, money
<1>2. CASE CandidateSpeaks(t) \/ ContentSent(t) \/ Drop(t) \/ ServerDies(t)
  <2>1. CASE CandidateSpeaks(t)
    BY <2>1 DEF CandidateSpeaks, TypeOK, money
  <2>2. CASE ContentSent(t)
    BY <2>2 DEF ContentSent, TypeOK, money
  <2>3. CASE Drop(t)
    BY <2>3 DEF Drop, TypeOK, money
  <2>4. CASE ServerDies(t)
    BY <2>4 DEF ServerDies, TypeOK, money
  <2> QED
    BY <1>2, <2>1, <2>2, <2>3, <2>4
<1>3. CASE MarkBillable(t)
  <2>1. UNCHANGED money \/ CaptureOwn
    BY <1>3 DEF MarkBillable
  <2>2. /\ hold' \in [Token -> {"none", "reserved", "captured", "released"}]
        /\ available' \in Int /\ reserved' \in Int
    BY <2>1, HelperTypes DEF money, TypeOK
  <2> QED
    <3>1. billable' \in BOOLEAN
      BY <1>3 DEF MarkBillable, TypeOK
    <3>2. conn' \in [Token -> {"none", "closing"} \cup Open]
      BY <1>3 DEF MarkBillable, TypeOK
    <3>3. UNCHANGED <<status, spoken, deadlines, reservation, token, report, workers>>
      BY <1>3 DEF MarkBillable
    <3> QED
      BY <2>2, <3>1, <3>2, <3>3 DEF TypeOK
<1>4. CASE Interrupt(t)
  <2>1. status' \in Status /\ gone' \in BOOLEAN
    BY <1>4 DEF Interrupt, TypeOK, Status, Ongoing
  <2>2. conn' \in [Token -> {"none", "closing"} \cup Open]
    BY <1>4 DEF Interrupt, TypeOK
  <2>3. UNCHANGED <<billable, spoken, over, due, reservation, token, money, report, workers>>
    BY <1>4 DEF Interrupt
  <2> QED
    BY <2>1, <2>2, <2>3 DEF TypeOK, money
<1>5. CASE ClientEnds(t)
  <2>1. /\ status' \in Status
        /\ report' \in [Attempt -> {"none", "processing", "ready", "failed"}]
        /\ hold' \in [Token -> {"none", "reserved", "captured", "released"}]
        /\ available' \in Int /\ reserved' \in Int
    <3>1. CASE CloseAs("cancelled")
      BY <3>1, HelperTypes DEF Status, TypeOK
    <3>2. CASE EvaluateNow
      BY <3>2, HelperTypes
    <3>3. CASE UNCHANGED <<status, report, money>>
      BY <3>3 DEF TypeOK, money
    <3> QED
      BY <1>5, <3>1, <3>2, <3>3 DEF ClientEnds
  <2>2. conn' \in [Token -> {"none", "closing"} \cup Open]
    BY <1>5 DEF ClientEnds, TypeOK
  <2>3. UNCHANGED <<billable, spoken, deadlines, reservation, token, workers>>
    BY <1>5 DEF ClientEnds
  <2> QED
    BY <2>1, <2>2, <2>3 DEF TypeOK
<1>6. CASE ConnectionTimesOut(t)
  <2>1. /\ status' \in Status
        /\ report' \in [Attempt -> {"none", "processing", "ready", "failed"}]
        /\ hold' \in [Token -> {"none", "reserved", "captured", "released"}]
        /\ available' \in Int /\ reserved' \in Int
    <3>1. CASE CloseAs("timed_out")
      BY <3>1, HelperTypes DEF Status, TypeOK
    <3>2. CASE EvaluateNow
      BY <3>2, HelperTypes
    <3>3. CASE UNCHANGED <<status, report, money>>
      BY <3>3 DEF TypeOK, money
    <3> QED
      BY <1>6, <3>1, <3>2, <3>3 DEF ConnectionTimesOut
  <2>2. conn' \in [Token -> {"none", "closing"} \cup Open]
    BY <1>6 DEF ConnectionTimesOut, TypeOK
  <2>3. UNCHANGED <<billable, spoken, deadlines, reservation, token, workers>>
    BY <1>6 DEF ConnectionTimesOut
  <2> QED
    BY <2>1, <2>2, <2>3 DEF TypeOK
<1> QED
  BY <1>1, <1>2, <1>3, <1>4, <1>5, <1>6

LEMMA UserTypes == TypeOK /\ User => TypeOK'
<1> SUFFICES ASSUME TypeOK, User PROVE TypeOK'
  OBVIOUS
<1> USE DEF workers, deadlines
<1>1. ASSUME NEW t \in Token, IssueBegins(t) PROVE TypeOK'
  <2>1. issuing' \in [token: Token, saw: {"nothing", "kept", "lapsed"}]
    BY <1>1 DEF IssueBegins
  <2> QED
    BY <1>1, <2>1 DEF IssueBegins, TypeOK, money
<1>2. CASE IssueCommits
  <2>1. issuing.token \in Token /\ issuing.saw \in {"nothing", "kept", "lapsed"}
    BY <1>2 DEF IssueCommits, InterviewFree, TypeOK
  <2>2. token' \in [Token -> {"unused", "active", "consumed", "revoked", "expired"}]
    BY <1>2 DEF IssueCommits, TypeOK
  <2>3. /\ hold' \in [Token -> {"none", "reserved", "captured", "released"}]
        /\ available' \in Int /\ reserved' \in Int /\ reservation' \in Token \cup {NoToken}
    <3>1. CASE issuing.saw = "kept"
      BY <1>2, <3>1 DEF IssueCommits, TypeOK, money
    <3>2. CASE issuing.saw = "lapsed"
      BY <1>2, <2>1, <3>2 DEF IssueCommits, TypeOK
    <3>3. CASE issuing.saw = "nothing"
      BY <1>2, <2>1, <3>3 DEF IssueCommits, TypeOK
    <3> QED
      BY <2>1, <3>1, <3>2, <3>3
  <2> QED
    BY <1>2, <2>2, <2>3 DEF IssueCommits, TypeOK
<1>3. CASE IssueAborts
  BY <1>3 DEF IssueAborts, TypeOK, money
<1>4. CASE End
  <2>1. /\ status' \in Status
        /\ report' \in [Attempt -> {"none", "processing", "ready", "failed"}]
        /\ hold' \in [Token -> {"none", "reserved", "captured", "released"}]
        /\ available' \in Int /\ reserved' \in Int
    BY <1>4, HelperTypes DEF End
  <2> QED
    BY <1>4, <2>1 DEF End, TypeOK
<1>5. CASE Cancel
  <2>1. /\ status' \in Status /\ UNCHANGED report
        /\ hold' \in [Token -> {"none", "reserved", "captured", "released"}]
        /\ available' \in Int /\ reserved' \in Int
    BY <1>5, HelperTypes DEF Cancel, Status
  <2> QED
    BY <1>5, <2>1 DEF Cancel, TypeOK
<1>6. CASE RetryEvaluation
  BY <1>6 DEF RetryEvaluation, TypeOK, Status, money
<1>7. ASSUME NEW i \in Attempt, Evaluated(i) PROVE TypeOK'
  BY <1>7 DEF Evaluated, TypeOK, Status, money
<1> QED
  BY <1>1, <1>2, <1>3, <1>4, <1>5, <1>6, <1>7 DEF User

LEMMA BeatTypes == TypeOK /\ Beat => TypeOK'
<1> SUFFICES ASSUME TypeOK, Beat PROVE TypeOK'
  OBVIOUS
<1> USE DEF deadlines
<1>1. CASE SettleBegins
  <2>1. reservation \in Token
    BY <1>1 DEF SettleBegins, Has, TypeOK
  <2>2. settling' \in [hold: Token, action: {"capture", "release", "time_out", "defer"}]
    BY <1>1, <2>1 DEF SettleBegins
  <2> QED
    BY <1>1, <2>2 DEF SettleBegins, TypeOK, money
<1>2. CASE SettleCommits
  BY <1>2 DEF SettleCommits, HoldFree, TypeOK, Status, money
<1>3. CASE SettleAborts \/ SweepLists
  BY <1>3 DEF SettleAborts, SweepLists, TypeOK, money
<1>4. CASE SweepCounts
  <2>1. /\ status' \in Status
        /\ report' \in [Attempt -> {"none", "processing", "ready", "failed"}]
        /\ hold' \in [Token -> {"none", "reserved", "captured", "released"}]
        /\ available' \in Int /\ reserved' \in Int
    <3>1. CASE EvaluateNow
      BY <3>1, HelperTypes
    <3>2. CASE UNCHANGED <<status, report, money>>
      BY <3>2 DEF TypeOK, money
    <3> QED
      BY <1>4, <3>1, <3>2 DEF SweepCounts
  <2>2. sweep' \in {"idle", "listed", "empty"}
    BY <1>4 DEF SweepCounts
  <2> QED
    BY <1>4, <2>1, <2>2 DEF SweepCounts, TypeOK
<1>5. CASE SweepWrites
  <2>1. /\ status' \in Status /\ UNCHANGED report
        /\ hold' \in [Token -> {"none", "reserved", "captured", "released"}]
        /\ available' \in Int /\ reserved' \in Int
    BY <1>5, HelperTypes DEF SweepWrites, Status
  <2> QED
    BY <1>5, <2>1 DEF SweepWrites, TypeOK
<1> QED
  BY <1>1, <1>2, <1>3, <1>4, <1>5 DEF Beat

LEMMA TimeTypes == TypeOK /\ Time => TypeOK'
BY DEF Time, TokenExpires, HoldLapses, TimeIsUp, WindowCloses, TypeOK, money, workers, deadlines

-----------------------------------------------------------------------------
(* Paid once *)

\* Nothing that PaidOnce speaks of changes.
LEMMA PaidOnceKept ==
  ASSUME PaidOnce,
         UNCHANGED <<hold, reservation, token, billable, issuing, settling>>
  PROVE  PaidOnce'
BY DEF PaidOnce, OnlyOwnHold, BillableIsCaptured, UnusedHasNoHold, TokensHaveReservation, IssuerIsRight, SettlerIsRight,
       Has, InterviewFree, HoldFree

\* A step that releases the interview's own reservation, or nothing.
LEMMA ReleaseKeepsPaidOnce ==
  ASSUME TypeOK, PaidOnce, BothFree, ReleaseOwn, ~billable,
         UNCHANGED <<reservation, token, billable, issuing, settling>>
  PROVE  PaidOnce'
BY DEF PaidOnce, OnlyOwnHold, BillableIsCaptured, UnusedHasNoHold, TokensHaveReservation, IssuerIsRight, SettlerIsRight,
       Has, InterviewFree, HoldFree, BothFree, ReleaseOwn, money, TypeOK

\* The reservation of a billable interview is captured, and is left alone.
LEMMA BillableMoneyKept ==
  ASSUME PaidOnce, billable, ReleaseOwn \/ CaptureOwn
  PROVE  UNCHANGED money
BY DEF PaidOnce, BillableIsCaptured, Has, ReleaseOwn, CaptureOwn

LEMMA EndKeepsPaidOnce ==
  ASSUME TypeOK, PaidOnce, BothFree,
         EvaluateNow \/ ReleaseOwn \/ UNCHANGED money,
         UNCHANGED <<reservation, token, billable, issuing, settling>>
  PROVE  PaidOnce'
<1>1. CASE UNCHANGED money
  BY <1>1, PaidOnceKept DEF money
<1>2. CASE billable /\ (EvaluateNow \/ ReleaseOwn)
  BY <1>1, <1>2, BillableMoneyKept DEF EvaluateNow
<1>3. CASE ~billable /\ (EvaluateNow \/ ReleaseOwn)
  BY <1>3, ReleaseKeepsPaidOnce DEF EvaluateNow
<1> QED
  BY <1>1, <1>2, <1>3

LEMMA SessionPaidOnce == IInv /\ Session => PaidOnce'
<1> SUFFICES ASSUME TypeOK, PaidOnce, OneSocket, NEW t \in Token,
                    \/ Connect(t) \/ CandidateSpeaks(t) \/ ContentSent(t) \/ MarkBillable(t) \/ Drop(t)
                    \/ Interrupt(t) \/ ServerDies(t) \/ ClientEnds(t) \/ ConnectionTimesOut(t)
             PROVE  PaidOnce'
  BY DEF Session, IInv
<1>1. CASE Connect(t)
  <2>1. token[t] = "active" /\ token' = [token EXCEPT ![t] = "consumed"]
    BY <1>1 DEF Connect
  <2>2. UNCHANGED <<hold, reservation, billable, issuing, settling>> /\ BothFree
    BY <1>1 DEF Connect, money, workers
  <2> QED
    BY <2>1, <2>2 DEF TypeOK, PaidOnce, OnlyOwnHold, BillableIsCaptured, UnusedHasNoHold, TokensHaveReservation, IssuerIsRight,
                      SettlerIsRight, Has, InterviewFree, HoldFree, BothFree
<1>2. CASE CandidateSpeaks(t) \/ ContentSent(t) \/ Drop(t) \/ Interrupt(t) \/ ServerDies(t)
  BY <1>2, PaidOnceKept
    DEF CandidateSpeaks, ContentSent, Drop, Interrupt, ServerDies, money, workers
<1>3. CASE MarkBillable(t)
  <2>1. CASE billable \/ ~Captures
    BY <1>3, <2>1, PaidOnceKept DEF MarkBillable, money, workers, TypeOK
  <2>2. CASE ~billable /\ Captures
    <3>1. reservation # NoToken => Has("reserved")
      BY <2>2 DEF PaidOnce, BillableIsCaptured, Captures, Has
    <3>2. billable' = TRUE /\ CaptureOwn /\ BothFree /\ UNCHANGED <<reservation, token, issuing, settling>>
      BY <1>3, <2>2 DEF MarkBillable, workers
    <3>3. reservation # NoToken
      BY <1>3 DEF MarkBillable, OneSocket, PaidOnce, TokensHaveReservation
    <3> QED
      BY <3>1, <3>2, <3>3
        DEF TypeOK, PaidOnce, OnlyOwnHold, BillableIsCaptured, UnusedHasNoHold, TokensHaveReservation, IssuerIsRight,
            SettlerIsRight, Has, InterviewFree, HoldFree, BothFree, CaptureOwn
  <2> QED
    BY <2>1, <2>2
<1>4. CASE ClientEnds(t) \/ ConnectionTimesOut(t)
  BY <1>4, EndKeepsPaidOnce DEF ClientEnds, ConnectionTimesOut, CloseAs, workers
<1> QED
  BY <1>1, <1>2, <1>3, <1>4

LEMMA UserPaidOnce == IInv /\ User => PaidOnce'
<1> SUFFICES ASSUME TypeOK, PaidOnce, User PROVE PaidOnce'
  BY DEF IInv
<1>1. ASSUME NEW t \in Token, IssueBegins(t) PROVE PaidOnce'
  BY <1>1, InterviewAssumption
    DEF IssueBegins, money, Keeps, TypeOK, PaidOnce, OnlyOwnHold, BillableIsCaptured, UnusedHasNoHold,
        TokensHaveReservation, IssuerIsRight, SettlerIsRight, Has, InterviewFree, HoldFree
<1>2. CASE IssueCommits
  <2>1. /\ issuing.token \in Token /\ issuing.saw \in {"nothing", "kept", "lapsed"}
        /\ token[issuing.token] = "unused" /\ hold[issuing.token] = "none"
        /\ ~InterviewFree
    BY <1>2 DEF IssueCommits, InterviewFree, TypeOK, PaidOnce, IssuerIsRight, UnusedHasNoHold
  <2>2. issuing' = NoIssue /\ UNCHANGED <<billable, settling>>
    BY <1>2 DEF IssueCommits
  <2>3. token' = [u \in Token |-> IF u = issuing.token THEN "active"
                                  ELSE IF token[u] = "active" THEN "revoked" ELSE token[u]]
    BY <1>2 DEF IssueCommits
  <2>4. CASE issuing.saw = "kept"
    <3>1. UNCHANGED <<reservation, hold>> /\ reservation # NoToken
      BY <1>2, <2>1, <2>4 DEF IssueCommits, money, PaidOnce, IssuerIsRight
    <3>2. \A u \in Token : token'[u] = "unused" => token[u] = "unused"
      BY <2>3
    <3> QED
      BY <2>2, <3>1, <3>2
        DEF PaidOnce, OnlyOwnHold, BillableIsCaptured, UnusedHasNoHold, TokensHaveReservation,
            IssuerIsRight, SettlerIsRight, Has, InterviewFree, HoldFree
  <2>5. CASE issuing.saw # "kept"
    <3>1. /\ reservation' = issuing.token /\ hold'[issuing.token] = "reserved"
          /\ \A u \in Token : u # issuing.token => hold'[u] \notin {"reserved", "captured"}
          /\ \A u \in Token : u # issuing.token /\ hold[u] = "none" => hold'[u] = "none"
      <4>1. \A u \in Token : u # reservation => hold[u] \notin {"reserved", "captured"}
        BY DEF PaidOnce, OnlyOwnHold
      <4>2. CASE issuing.saw = "lapsed"
        <5>1. hold[reservation] # "none"
          BY <2>1, <4>2 DEF PaidOnce, IssuerIsRight, Has
        <5> QED
          BY <1>2, <2>1, <4>1, <4>2, <5>1 DEF IssueCommits
      <4>3. CASE issuing.saw = "nothing"
        <5>1. \A u \in Token : hold[u] \notin {"reserved", "captured"}
          BY <2>1, <4>1, <4>3, InterviewAssumption DEF PaidOnce, IssuerIsRight, Has
        <5> QED
          BY <1>2, <2>1, <4>3, <5>1 DEF IssueCommits
      <4> QED
        BY <2>1, <2>5, <4>2, <4>3
    <3>2. HoldFree
      BY <1>2, <2>1, <2>5 DEF IssueCommits, PaidOnce, SettlerIsRight, IssuerIsRight
    <3>3. ~billable
      BY <2>1, <2>5 DEF PaidOnce, BillableIsCaptured, IssuerIsRight, Has
    <3>4. issuing.token # NoToken
      BY <2>1, InterviewAssumption
    <3> QED
      BY <2>1, <2>2, <2>3, <3>1, <3>2, <3>3, <3>4
        DEF PaidOnce, OnlyOwnHold, BillableIsCaptured, UnusedHasNoHold, TokensHaveReservation,
            IssuerIsRight, SettlerIsRight, Has, InterviewFree, HoldFree
  <2> QED
    BY <2>4, <2>5
<1>3. CASE IssueAborts
  BY <1>3
    DEF IssueAborts, money, PaidOnce, OnlyOwnHold, BillableIsCaptured, UnusedHasNoHold,
        TokensHaveReservation, IssuerIsRight, SettlerIsRight, Has, InterviewFree, HoldFree
<1>4. CASE End \/ Cancel
  BY <1>4, EndKeepsPaidOnce DEF End, Cancel, CloseAs, workers
<1>5. CASE RetryEvaluation \/ \E i \in Attempt : Evaluated(i)
  BY <1>5, PaidOnceKept DEF RetryEvaluation, Evaluated, money, workers
<1> QED
  BY <1>1, <1>2, <1>3, <1>4, <1>5 DEF User

LEMMA BeatPaidOnce == IInv /\ Beat => PaidOnce'
<1> SUFFICES ASSUME TypeOK, PaidOnce, Beat PROVE PaidOnce'
  BY DEF IInv
<1>1. CASE SettleBegins
  BY <1>1
    DEF SettleBegins, money, PaidOnce, OnlyOwnHold, BillableIsCaptured, UnusedHasNoHold,
        TokensHaveReservation, IssuerIsRight, SettlerIsRight, Has, InterviewFree, HoldFree
<1>2. CASE SettleCommits
  <2>1. /\ settling.hold = reservation /\ Has("reserved") /\ settling.action # "capture"
        /\ settling' = NoSettlement
        /\ UNCHANGED <<reservation, token, billable, issuing>>
    BY <1>2 DEF SettleCommits, PaidOnce, SettlerIsRight
  <2>2. UNCHANGED hold \/ hold' = [hold EXCEPT ![reservation] = "released"]
    BY <1>2, <2>1 DEF SettleCommits, money
  <2> QED
    BY <2>1, <2>2
      DEF TypeOK, PaidOnce, OnlyOwnHold, BillableIsCaptured, UnusedHasNoHold,
          TokensHaveReservation, IssuerIsRight, SettlerIsRight, Has, InterviewFree, HoldFree
<1>3. CASE SettleAborts
  BY <1>3
    DEF SettleAborts, money, PaidOnce, OnlyOwnHold, BillableIsCaptured, UnusedHasNoHold,
        TokensHaveReservation, IssuerIsRight, SettlerIsRight, Has, InterviewFree, HoldFree
<1>4. CASE SweepLists
  BY <1>4, PaidOnceKept DEF SweepLists, money
<1>5. CASE SweepCounts
  <2>1. CASE spoken
    BY <1>5, <2>1, EndKeepsPaidOnce DEF SweepCounts
  <2>2. CASE ~spoken
    BY <1>5, <2>2, PaidOnceKept DEF SweepCounts, money
  <2> QED
    BY <2>1, <2>2 DEF TypeOK
<1>6. CASE SweepWrites
  BY <1>6, EndKeepsPaidOnce DEF SweepWrites, CloseAs
<1> QED
  BY <1>1, <1>2, <1>3, <1>4, <1>5, <1>6 DEF Beat

LEMMA TimePaidOnce == IInv /\ Time => PaidOnce'
<1> SUFFICES ASSUME TypeOK, PaidOnce, Time PROVE PaidOnce'
  BY DEF IInv
<1>1. ASSUME NEW t \in Token, TokenExpires(t) PROVE PaidOnce'
  <2>1. /\ \A u \in Token : (token'[u] = "unused") <=> (token[u] = "unused")
        /\ UNCHANGED <<hold, reservation, billable, issuing, settling>>
    BY <1>1 DEF TokenExpires, money, workers, TypeOK
  <2> QED
    BY <2>1
      DEF TypeOK, PaidOnce, OnlyOwnHold, BillableIsCaptured, UnusedHasNoHold, TokensHaveReservation,
          IssuerIsRight, SettlerIsRight, Has, InterviewFree, HoldFree
<1>2. CASE (\E t \in Token : HoldLapses(t)) \/ TimeIsUp \/ WindowCloses
  BY <1>2, PaidOnceKept DEF HoldLapses, TimeIsUp, WindowCloses, money, workers
<1> QED
  BY <1>1, <1>2 DEF Time

-----------------------------------------------------------------------------
(* One connection *)

LEMMA SessionOneSocket == TypeOK /\ OneSocket /\ Session => OneSocket'
<1> SUFFICES ASSUME TypeOK, OneSocket, NEW t \in Token,
                    \/ Connect(t) \/ CandidateSpeaks(t) \/ ContentSent(t) \/ MarkBillable(t) \/ Drop(t)
                    \/ Interrupt(t) \/ ServerDies(t) \/ ClientEnds(t) \/ ConnectionTimesOut(t)
             PROVE  OneSocket'
  BY DEF Session
<1>1. CASE Connect(t)
  BY <1>1 DEF Connect, Connectable, OneSocket, TypeOK
<1>2. CASE CandidateSpeaks(t)
  BY <1>2 DEF CandidateSpeaks, OneSocket
<1>3. CASE ContentSent(t) \/ MarkBillable(t) \/ Drop(t)
  <2>1. /\ conn[t] # "none" /\ \A u \in Token : u # t => conn'[u] = conn[u]
        /\ conn'[t] # "none" /\ UNCHANGED <<status, token>>
    BY <1>3 DEF ContentSent, MarkBillable, Drop, Open, TypeOK
  <2> QED
    BY <2>1 DEF OneSocket
<1>4. CASE Interrupt(t) \/ ServerDies(t)
  <2>1. /\ conn[t] # "none" /\ \A u \in Token : conn'[u] = IF u = t THEN "none" ELSE conn[u]
        /\ UNCHANGED token
    BY <1>4 DEF Interrupt, ServerDies, TypeOK
  <2> QED
    BY <2>1 DEF OneSocket
<1>5. CASE ClientEnds(t) \/ ConnectionTimesOut(t)
  <2>1. /\ conn[t] # "none" /\ \A u \in Token : u # t => conn'[u] = conn[u]
        /\ conn'[t] # "none" /\ UNCHANGED token
    BY <1>5 DEF ClientEnds, ConnectionTimesOut, Open, TypeOK
  <2>2. UNCHANGED status \/ status' \notin {"ready", "interrupted"}
    BY <1>5 DEF ClientEnds, ConnectionTimesOut, CloseAs, EvaluateNow
  <2> QED
    BY <2>1, <2>2 DEF OneSocket
<1> QED
  BY <1>1, <1>2, <1>3, <1>4, <1>5

LEMMA OthersOneSocket == TypeOK /\ OneSocket /\ (User \/ Beat \/ Time) => OneSocket'
<1> SUFFICES ASSUME TypeOK, OneSocket, User \/ Beat \/ Time PROVE OneSocket'
  OBVIOUS
<1>1. UNCHANGED conn
  BY DEF workers, User, Beat, Time, IssueBegins, IssueCommits, IssueAborts, End, Cancel, RetryEvaluation, Evaluated,
         SettleBegins, SettleCommits, SettleAborts, SweepLists, SweepCounts, SweepWrites,
         TokenExpires, HoldLapses, TimeIsUp, WindowCloses
<1>2. UNCHANGED status \/ status' \notin {"ready", "interrupted"}
  <2>1. CASE User
    BY <2>1 DEF User, IssueBegins, IssueCommits, IssueAborts, End, Cancel, RetryEvaluation, Evaluated,
                CloseAs, EvaluateNow
  <2>2. CASE SettleBegins \/ SettleCommits \/ SettleAborts \/ SweepLists
    BY <2>2 DEF SettleBegins, SettleCommits, SettleAborts, SweepLists
  <2>3. CASE SweepCounts
    <3>1. EvaluateNow => status' = "evaluating"
      BY DEF EvaluateNow
    <3> QED
      BY <2>3, <3>1 DEF SweepCounts
  <2>4. CASE SweepWrites
    BY <2>4 DEF SweepWrites, CloseAs
  <2>5. CASE Time
    BY <2>5 DEF Time, TokenExpires, HoldLapses, TimeIsUp, WindowCloses
  <2> QED
    BY <2>1, <2>2, <2>3, <2>4, <2>5 DEF Beat
<1>3. \A t \in Token : token'[t] = "unused" => token[t] = "unused"
  <2>1. CASE UNCHANGED token
    BY <2>1
  <2>2. CASE IssueCommits
    BY <2>2 DEF IssueCommits
  <2>3. ASSUME NEW t \in Token, TokenExpires(t)
        PROVE  \A u \in Token : token'[u] = "unused" => token[u] = "unused"
    BY <2>3 DEF TokenExpires, TypeOK
  <2> QED
    BY <2>1, <2>2, <2>3
      DEF User, Beat, Time, IssueBegins, IssueAborts, End, Cancel, RetryEvaluation, Evaluated,
          SettleBegins, SettleCommits, SettleAborts, SweepLists, SweepCounts, SweepWrites,
          HoldLapses, TimeIsUp, WindowCloses
<1> QED
  BY <1>1, <1>2, <1>3 DEF OneSocket

-----------------------------------------------------------------------------

LEMMA InitIInv == Init => IInv
<1> SUFFICES ASSUME Init PROVE IInv
  OBVIOUS
<1>1. TypeOK
  <2>1. available \in Int /\ reserved \in Int /\ reservation \in Token \cup {NoToken}
    BY InterviewAssumption DEF Init
  <2>2. /\ token \in [Token -> {"unused", "active", "consumed", "revoked", "expired"}]
        /\ hold \in [Token -> {"none", "reserved", "captured", "released"}]
        /\ due \in [Token -> {"token", "session", "lapsed"}]
        /\ conn \in [Token -> {"none", "closing"} \cup Open]
        /\ report \in [Attempt -> {"none", "processing", "ready", "failed"}]
    BY DEF Init
  <2> QED
    BY <2>1, <2>2 DEF Init, TypeOK, Status
<1>2. PaidOnce
  BY DEF Init, PaidOnce, OnlyOwnHold, BillableIsCaptured, UnusedHasNoHold, TokensHaveReservation,
         IssuerIsRight, SettlerIsRight, Has, InterviewFree, HoldFree
<1>3. OneSocket
  BY DEF Init, OneSocket
<1> QED
  BY <1>1, <1>2, <1>3 DEF IInv

LEMMA IInvInductive == IInv /\ [Next]_vars => IInv'
<1> SUFFICES ASSUME IInv, [Next]_vars PROVE IInv'
  OBVIOUS
<1>1. CASE Session
  BY <1>1, SessionTypes, SessionPaidOnce, SessionOneSocket DEF IInv
<1>2. CASE User
  BY <1>2, UserTypes, UserPaidOnce, OthersOneSocket DEF IInv
<1>3. CASE Beat
  BY <1>3, BeatTypes, BeatPaidOnce, OthersOneSocket DEF IInv
<1>4. CASE Time
  BY <1>4, TimeTypes, TimePaidOnce, OthersOneSocket DEF IInv
<1>5. CASE UNCHANGED vars
  <2>1. TypeOK'
    BY <1>5 DEF IInv, vars, TypeOK
  <2>2. PaidOnce'
    BY <1>5, PaidOnceKept DEF IInv, vars
  <2>3. OneSocket'
    BY <1>5 DEF IInv, vars, OneSocket
  <2> QED
    BY <2>1, <2>2, <2>3 DEF IInv
<1> QED
  BY <1>1, <1>2, <1>3, <1>4, <1>5 DEF Next

LEMMA AlwaysIInv == Spec => []IInv
BY InitIInv, IInvInductive, PTL DEF Spec

\* Every row and every transaction in flight keeps its type.
THEOREM TypeCorrect == Spec => []TypeOK
BY AlwaysIInv, PTL DEF IInv

\* An interview never occupies two reservations: however often its token
\* expires and is replaced, nobody is held or charged twice for it.
THEOREM HeldOnce == Spec => []OneHold
<1>1. IInv => OneHold
  BY DEF IInv, PaidOnce, OnlyOwnHold, OneHold
<1> QED
  BY <1>1, AlwaysIInv, PTL

\* An interview is charged exactly when it is billable, although the
\* reconciler and the tokens decide on rows they have not locked.
THEOREM ChargedWhenBillable == Spec => []ChargedIffBillable
<1>1. IInv => ChargedIffBillable
  <2> SUFFICES ASSUME IInv PROVE ChargedIffBillable
    OBVIOUS
  <2>1. ASSUME NEW t \in Token, hold[t] = "captured" PROVE billable
    BY <2>1, InterviewAssumption DEF IInv, PaidOnce, OnlyOwnHold, BillableIsCaptured, Has
  <2>2. ASSUME billable PROVE \E t \in Token : hold[t] = "captured"
    BY <2>2 DEF IInv, PaidOnce, BillableIsCaptured, Has, TypeOK
  <2> QED
    BY <2>1, <2>2 DEF ChargedIffBillable, IInv, TypeOK
<1> QED
  BY <1>1, AlwaysIInv, PTL

\* Only one connection at a time talks to the provider.
THEOREM ConnectedOnce == Spec => []OneConnection
<1>1. IInv => OneConnection
  BY DEF IInv, OneSocket, OneConnection, Open
<1> QED
  BY <1>1, AlwaysIInv, PTL
=============================================================================
