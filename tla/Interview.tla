----------------------------- MODULE Interview ------------------------------
(***************************************************************************)
(* One AI interview and the credits that pay for it (product_interview.py, *)
(* gemini_interview_gateway.py, api/v1/interviews.py and the reservation   *)
(* part of product_billing.py).                                            *)
(*                                                                         *)
(* A realtime token opens one websocket connection.  Issuing it reserves   *)
(* the price under a reservation that bears the token's id; the first      *)
(* content the AI sends captures it.  The session ends by the user, by the *)
(* client, by its time limit or by one of two beat tasks, and is evaluated *)
(* when the candidate has spoken.                                          *)
(*                                                                         *)
(* A transaction is one action unless it reads a row it has not locked and *)
(* acts on it later.  Three do: create_realtime_token locks the interview  *)
(* and reads the reservation, the reconciler locks the reservation and     *)
(* reads the interview, the sweep of expired interviews locks nothing.     *)
(*                                                                         *)
(* Credits are counted in interviews, and the price is not zero.  Clock    *)
(* times are replaced by the order in which deadlines can pass.            *)
(***************************************************************************)
EXTENDS FiniteSets, Integers

CONSTANTS
  Token,       \* ids of realtime tokens, and of the reservations made for them
  NoToken,     \* no token
  Granted,     \* interviews that the account can pay for
  MaxAttempts  \* bound of evaluation attempts

VARIABLES
  status,      \* status of the interview
  billable,    \* billable_started_at is set
  spoken,      \* the transcript has a line of the candidate
  over,        \* duration_minutes have passed since started_at
  gone,        \* reconnect_until has passed
  reservation, \* credit_reservation_id, as the token it was made for
  token,       \* realtime tokens
  hold,        \* status of the credit reservations
  due,         \* what sets expires_at of a reservation, or that it has passed
  available,   \* available credits of the buckets
  reserved,    \* reserved credits of the buckets
  conn,        \* the connection a token has opened
  report,      \* evaluation reports, by attempt
  issuing,     \* the create_realtime_token that holds the interview
  settling,    \* the reconciler that holds a reservation
  sweep        \* how far the sweep is with this interview

vars == <<status, billable, spoken, over, gone, reservation, token, hold, due,
          available, reserved, conn, report, issuing, settling, sweep>>

ASSUME InterviewAssumption ==
  NoToken \notin Token /\ Granted \in Nat /\ MaxAttempts \in Nat \ {0}

Attempt == 1 .. MaxAttempts

Ongoing == {"live", "interrupted"}
Status == {"ready", "evaluating", "completed", "evaluation_failed", "cancelled", "timed_out"} \cup Ongoing
Endable == {"ready"} \cup Ongoing
Open == {"open", "sent", "paid"}

NoIssue == [token |-> NoToken, saw |-> "nothing"]
NoSettlement == [hold |-> NoToken, action |-> "none"]

money == <<hold, available, reserved>>
deadlines == <<over, gone, due>>
workers == <<issuing, settling, sweep>>

Init ==
  /\ status = "ready" /\ billable = FALSE /\ spoken = FALSE
  /\ over = FALSE /\ gone = FALSE
  /\ reservation = NoToken
  /\ token = [t \in Token |-> "unused"]
  /\ hold = [t \in Token |-> "none"] /\ due = [t \in Token |-> "token"]
  /\ available = Granted /\ reserved = 0
  /\ conn = [t \in Token |-> "none"]
  /\ report = [i \in Attempt |-> "none"]
  /\ issuing = NoIssue /\ settling = NoSettlement /\ sweep = "idle"

-----------------------------------------------------------------------------
(* Row locks and the steps that transactions share. *)

InterviewFree == issuing = NoIssue

HoldFree == settling = NoSettlement

\* The interview and its reservation can both be locked.
BothFree == InterviewFree /\ HoldFree

Has(s) == reservation # NoToken /\ hold[reservation] = s

\* Fault: a new token may be had while a connection is live.
ConnectableTwice == status \in {"ready", "live", "interrupted"} /\ ~over /\ (status = "interrupted" => ~gone)

Connectable == status \in {"ready", "interrupted"} /\ ~over /\ (status = "interrupted" => ~gone)

\* Fault: only an open reservation is kept.
KeepsReserved == {"reserved"}

\* Reservations that create_realtime_token does not replace.
Keeps == {"reserved", "captured"}

\* release of a reservation that is read under its lock
ReleaseOwn ==
  IF Has("reserved")
  THEN /\ hold' = [hold EXCEPT ![reservation] = "released"]
       /\ available' = available + 1 /\ reserved' = reserved - 1
  ELSE UNCHANGED money

\* Fault: a reservation that was released counts as captured.
CapturesAnyway == TRUE

\* capture raises 409 for a reservation that is neither open nor captured, and
\* when the buckets do not have what it holds.
Captures == reservation = NoToken \/ Has("captured") \/ (Has("reserved") /\ reserved >= 1)

CaptureOwn ==
  IF Has("reserved")
  THEN /\ hold' = [hold EXCEPT ![reservation] = "captured"]
       /\ reserved' = reserved - 1 /\ UNCHANGED available
  ELSE UNCHANGED money

\* end: the transcript goes to evaluation.
EvaluateNow ==
  /\ status' = "evaluating"
  /\ report' = [report EXCEPT ![1] = IF @ = "none" THEN "processing" ELSE @]
  /\ IF billable THEN Captures /\ CaptureOwn ELSE ReleaseOwn

\* The interview ends without an evaluation.
CloseAs(s) == status' = s /\ ReleaseOwn /\ UNCHANGED report

-----------------------------------------------------------------------------
(* create_realtime_token *)

\* The interview is locked; its reservation is read and not locked.
IssueBegins(t) ==
  /\ InterviewFree /\ Connectable /\ token[t] = "unused"
  /\ issuing' = [token |-> t,
                 saw   |-> IF reservation = NoToken \/ hold[reservation] \notin Keeps THEN "nothing"
                           ELSE IF hold[reservation] = "reserved" /\ due[reservation] = "lapsed" THEN "lapsed"
                           ELSE "kept"]
  /\ UNCHANGED <<status, billable, spoken, deadlines, reservation, token, money, conn, report, settling, sweep>>

\* A reservation seen as lapsed is released, whatever it has become.
IssueCommits ==
  LET t == issuing.token
      back == IF issuing.saw = "lapsed" THEN 1 ELSE 0
  IN  /\ ~InterviewFree
      /\ token' = [u \in Token |-> IF u = t THEN "active" ELSE IF token[u] = "active" THEN "revoked" ELSE token[u]]
      /\ IF issuing.saw = "kept"
         THEN UNCHANGED <<reservation, money>>
         ELSE /\ issuing.saw = "lapsed" => HoldFree
              /\ available + back >= 1
              /\ hold' = [u \in Token |-> IF u = t THEN "reserved"
                                          ELSE IF u = reservation /\ back = 1 THEN "released" ELSE hold[u]]
              /\ available' = available + back - 1 /\ reserved' = reserved - back + 1
              /\ reservation' = t
      /\ issuing' = NoIssue
      /\ UNCHANGED <<status, billable, spoken, deadlines, conn, report, settling, sweep>>

\* Credits run out, the process dies or the database breaks a deadlock.
IssueAborts ==
  /\ ~InterviewFree
  /\ issuing' = NoIssue
  /\ UNCHANGED <<status, billable, spoken, deadlines, reservation, token, money, conn, report, settling, sweep>>

-----------------------------------------------------------------------------
(* A connection *)

\* consume_realtime_token
Connect(t) ==
  /\ BothFree /\ token[t] = "active" /\ Connectable
  /\ token' = [token EXCEPT ![t] = "consumed"]
  /\ status' = "live" /\ gone' = FALSE
  /\ due' = IF Has("reserved") THEN [due EXCEPT ![reservation] = "session"] ELSE due
  /\ conn' = [conn EXCEPT ![t] = "open"]
  /\ UNCHANGED <<billable, spoken, over, reservation, money, report, workers>>

CandidateSpeaks(t) ==
  /\ InterviewFree /\ conn[t] \in Open
  /\ spoken' = TRUE
  /\ UNCHANGED <<status, billable, deadlines, reservation, token, money, conn, report, workers>>

\* Content of the AI is recorded and sent before it is marked billable.
ContentSent(t) ==
  /\ InterviewFree /\ conn[t] = "open"
  /\ conn' = [conn EXCEPT ![t] = "sent"]
  /\ UNCHANGED <<status, billable, spoken, deadlines, reservation, token, money, report, workers>>

\* mark_billable_started; the 409 of a failed capture closes the connection.
MarkBillable(t) ==
  /\ BothFree /\ conn[t] = "sent"
  /\ IF billable \/ Captures
     THEN /\ billable' = TRUE
          /\ IF billable THEN UNCHANGED money ELSE CaptureOwn
          /\ conn' = [conn EXCEPT ![t] = "paid"]
     ELSE /\ conn' = [conn EXCEPT ![t] = "closing"]
          /\ UNCHANGED <<billable, money>>
  /\ UNCHANGED <<status, spoken, deadlines, reservation, token, report, workers>>

\* The client, the provider or the capacity lease is lost.
Drop(t) ==
  /\ conn[t] \in Open
  /\ conn' = [conn EXCEPT ![t] = "closing"]
  /\ UNCHANGED <<status, billable, spoken, deadlines, reservation, token, money, report, workers>>

\* mark_interrupted
Interrupt(t) ==
  /\ InterviewFree /\ conn[t] = "closing"
  /\ conn' = [conn EXCEPT ![t] = "none"]
  /\ status' = IF status = "live" THEN "interrupted" ELSE status
  /\ gone' = IF status = "live" THEN FALSE ELSE gone
  /\ UNCHANGED <<billable, spoken, over, due, reservation, token, money, report, workers>>

\* The process dies and marks nothing.
ServerDies(t) ==
  /\ conn[t] # "none"
  /\ conn' = [conn EXCEPT ![t] = "none"]
  /\ UNCHANGED <<status, billable, spoken, deadlines, reservation, token, money, report, workers>>

\* end_realtime, which does not look at the status of an empty interview
ClientEnds(t) ==
  /\ BothFree /\ conn[t] \in Open
  /\ \/ ~spoken /\ CloseAs("cancelled")
     \/ spoken /\ status \in Endable /\ EvaluateNow
     \/ spoken /\ status \notin Endable /\ UNCHANGED <<status, report, money>>
  /\ conn' = [conn EXCEPT ![t] = "closing"]
  /\ UNCHANGED <<billable, spoken, deadlines, reservation, token, workers>>

\* timeout_realtime
ConnectionTimesOut(t) ==
  /\ BothFree /\ conn[t] \in Open /\ over
  /\ \/ status \in Ongoing /\ spoken /\ EvaluateNow
     \/ status \in Ongoing /\ ~spoken /\ CloseAs("timed_out")
     \/ status \notin Ongoing /\ UNCHANGED <<status, report, money>>
  /\ conn' = [conn EXCEPT ![t] = "closing"]
  /\ UNCHANGED <<billable, spoken, deadlines, reservation, token, workers>>

-----------------------------------------------------------------------------
(* The user, and the evaluation, whose leases are in TaskLease *)

\* end
End ==
  /\ BothFree /\ status \in Endable /\ spoken
  /\ EvaluateNow
  /\ UNCHANGED <<billable, spoken, deadlines, reservation, token, conn, workers>>

\* cancel
Cancel ==
  /\ BothFree /\ status \notin {"completed", "evaluating", "cancelled"}
  /\ CloseAs("cancelled")
  /\ UNCHANGED <<billable, spoken, deadlines, reservation, token, conn, workers>>

\* retry_evaluation looks at the last report and not at the interview.
RetryEvaluation ==
  /\ InterviewFree
  /\ \E i \in Attempt \ {1} :
       /\ report[i - 1] = "failed" /\ report[i] = "none"
       /\ report' = [report EXCEPT ![i] = "processing"]
  /\ status' = "evaluating"
  /\ UNCHANGED <<billable, spoken, deadlines, reservation, token, money, conn, workers>>

\* The evaluation of an attempt ends; a late message may repeat a failed one.
Evaluated(i) ==
  /\ InterviewFree /\ report[i] \in {"processing", "failed"}
  /\ \/ report' = [report EXCEPT ![i] = "ready"] /\ status' = "completed"
     \/ report' = [report EXCEPT ![i] = "failed"] /\ status' = "evaluation_failed"
  /\ UNCHANGED <<billable, spoken, deadlines, reservation, token, money, conn, workers>>

-----------------------------------------------------------------------------
(* reconcile_expired_reservations *)

\* Fault: an interview nobody has connected to is not concluded.
ReleasesStarted == Status \ (Ongoing \cup {"ready"})

\* Statuses for which the reconciler releases without touching the interview.
Releases == Status \ Ongoing

SettleBegins ==
  /\ HoldFree /\ Has("reserved") /\ due[reservation] = "lapsed"
  /\ settling' = [hold   |-> reservation,
                  action |-> IF billable THEN "capture"
                             ELSE IF status \in Releases THEN "release"
                             ELSE IF status \in Ongoing THEN "time_out"
                             ELSE "defer"]
  /\ UNCHANGED <<status, billable, spoken, deadlines, reservation, token, money, conn, report, issuing, sweep>>

\* Only a timeout writes the interview, and waits for its lock.
SettleCommits ==
  LET t == settling.hold
      outcome == IF settling.action = "capture" THEN "captured" ELSE "released"
  IN  /\ ~HoldFree
      /\ settling.action = "time_out" => InterviewFree
      /\ status' = IF settling.action = "time_out" THEN "timed_out" ELSE status
      /\ IF settling.action = "defer" THEN UNCHANGED money
         ELSE /\ hold' = [hold EXCEPT ![t] = outcome]
              /\ reserved' = reserved - 1
              /\ available' = IF outcome = "released" THEN available + 1 ELSE available
      /\ settling' = NoSettlement
      /\ UNCHANGED <<billable, spoken, deadlines, reservation, token, conn, report, issuing, sweep>>

SettleAborts ==
  /\ ~HoldFree
  /\ settling' = NoSettlement
  /\ UNCHANGED <<status, billable, spoken, deadlines, reservation, token, money, conn, report, issuing, sweep>>

-----------------------------------------------------------------------------
(* expire_timed_out *)

\* Fault: only connected interviews are swept.
SweptLive == {"live"}

Swept == Ongoing

SweepLists ==
  /\ sweep = "idle" /\ status \in Swept /\ over
  /\ sweep' = "listed"
  /\ UNCHANGED <<status, billable, spoken, deadlines, reservation, token, money, conn, report, issuing, settling>>

\* An interview with a transcript is ended; end locks it and reads it again.
SweepCounts ==
  /\ sweep = "listed"
  /\ IF spoken
     THEN /\ BothFree
          /\ IF status \in Endable THEN EvaluateNow ELSE UNCHANGED <<status, report, money>>
          /\ sweep' = "idle"
     ELSE sweep' = "empty" /\ UNCHANGED <<status, report, money>>
  /\ UNCHANGED <<billable, spoken, deadlines, reservation, token, conn, issuing, settling>>

\* An empty one is written as it was read.
SweepWrites ==
  /\ sweep = "empty" /\ BothFree
  /\ CloseAs("timed_out")
  /\ sweep' = "idle"
  /\ UNCHANGED <<billable, spoken, deadlines, reservation, token, conn, issuing, settling>>

-----------------------------------------------------------------------------
(* Deadlines.  A reservation outlives the token it was made for by five    *)
(* minutes, and a session by five minutes and the reconnect window.        *)

TokenExpires(t) ==
  /\ token[t] = "active"
  /\ token' = [token EXCEPT ![t] = "expired"]
  /\ UNCHANGED <<status, billable, spoken, deadlines, reservation, money, conn, report, workers>>

HoldLapses(t) ==
  /\ hold[t] = "reserved" /\ due[t] # "lapsed"
  /\ IF due[t] = "session" THEN over ELSE token[t] \notin {"unused", "active"}
  /\ due' = [due EXCEPT ![t] = "lapsed"]
  /\ UNCHANGED <<status, billable, spoken, over, gone, reservation, token, money, conn, report, workers>>

TimeIsUp ==
  /\ ~over /\ \E t \in Token : token[t] = "consumed"
  /\ over' = TRUE
  /\ UNCHANGED <<status, billable, spoken, gone, due, reservation, token, money, conn, report, workers>>

WindowCloses ==
  /\ status = "interrupted" /\ ~gone
  /\ gone' = TRUE
  /\ UNCHANGED <<status, billable, spoken, over, due, reservation, token, money, conn, report, workers>>

Session ==
  \E t \in Token :
    \/ Connect(t) \/ CandidateSpeaks(t) \/ ContentSent(t) \/ MarkBillable(t) \/ Drop(t)
    \/ Interrupt(t) \/ ServerDies(t) \/ ClientEnds(t) \/ ConnectionTimesOut(t)

User ==
  \/ \E t \in Token : IssueBegins(t)
  \/ IssueCommits \/ IssueAborts
  \/ End \/ Cancel \/ RetryEvaluation
  \/ \E i \in Attempt : Evaluated(i)

Beat == SettleBegins \/ SettleCommits \/ SettleAborts \/ SweepLists \/ SweepCounts \/ SweepWrites

Time == (\E t \in Token : TokenExpires(t) \/ HoldLapses(t)) \/ TimeIsUp \/ WindowCloses

Next == Session \/ User \/ Beat \/ Time

Spec == Init /\ [][Next]_vars

\* Deadlines pass, transactions end, and the beat tasks run for ever: now and
\* then one of them finds its rows free and is not aborted.
Fairness ==
  /\ \A t \in Token : WF_vars(TokenExpires(t)) /\ WF_vars(HoldLapses(t))
  /\ WF_vars(TimeIsUp)
  /\ WF_vars(IssueCommits \/ IssueAborts)
  /\ SF_vars(SettleBegins) /\ SF_vars(SettleCommits)
  /\ SF_vars(SweepLists) /\ SF_vars(SweepCounts) /\ SF_vars(SweepWrites)

FairSpec == Spec /\ Fairness

-----------------------------------------------------------------------------
(* Properties. *)

\* Every row and every transaction in flight has its type.
TypeOK ==
  /\ status \in Status
  /\ billable \in BOOLEAN /\ spoken \in BOOLEAN /\ over \in BOOLEAN /\ gone \in BOOLEAN
  /\ reservation \in Token \cup {NoToken}
  /\ token \in [Token -> {"unused", "active", "consumed", "revoked", "expired"}]
  /\ hold \in [Token -> {"none", "reserved", "captured", "released"}]
  /\ due \in [Token -> {"token", "session", "lapsed"}]
  /\ available \in Int /\ reserved \in Int
  /\ conn \in [Token -> {"none", "closing"} \cup Open]
  /\ report \in [Attempt -> {"none", "processing", "ready", "failed"}]
  /\ issuing \in [token: Token, saw: {"nothing", "kept", "lapsed"}] \cup {NoIssue}
  /\ settling \in [hold: Token, action: {"capture", "release", "time_out", "defer"}] \cup {NoSettlement}
  /\ sweep \in {"idle", "listed", "empty"}

\* An interview never occupies two reservations, however often its token
\* expires and is replaced: nobody is held or charged twice for it.
OneHold ==
  \A t, u \in Token : {hold[t], hold[u]} \subseteq {"reserved", "captured"} => t = u

\* An interview is charged exactly when billable content was sent and marked.
ChargedIffBillable == billable <=> \E t \in Token : hold[t] = "captured"

\* Only one connection at a time talks to the provider.
OneConnection == \A t, u \in Token : {conn[t], conn[u]} \subseteq Open => t = u

\* No reservation stays open, whoever was to settle it.
HoldsSettle == \A t \in Token : hold[t] = "reserved" ~> hold[t] # "reserved"

\* A session that has begun does not outlive its time limit for ever, even
\* when its server died.
SessionsEnd == status \in Ongoing ~> status \notin Ongoing

\* An expired token is replaced "without a free session": what can be spent
\* never exceeds what was granted less what is held or charged.
NoFreeSession ==
  available + Cardinality({t \in Token : hold[t] \in {"reserved", "captured"}}) <= Granted

\* "An interview reserves its credits before Gemini Live is opened."
LiveIsPaidFor == (\E t \in Token : conn[t] = "open") /\ status = "live" => Has("reserved") \/ Has("captured")
=============================================================================
