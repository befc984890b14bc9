---------------------------- MODULE WorkRequest ----------------------------
(***************************************************************************)
(* Asking for work on a CV (create_analysis and retry_analysis of          *)
(* ProductCvService, create of ProductInterviewService) with an            *)
(* idempotency key.                                                        *)
(*                                                                         *)
(* A request is one transaction: it inserts the record of its key, which   *)
(* makes another request with the key wait, then break or go on; checks    *)
(* the CV, locks the credit account, holds the price, writes the analysis, *)
(* its reservation and its dispatch, and completes the record.  A failure  *)
(* or a crash undoes all of it.  The analysis itself is run by a task      *)
(* (TaskLease); here it ends well or not.  An interview holds no credit    *)
(* before it starts.                                                       *)
(***************************************************************************)
EXTENDS Naturals, FiniteSets, Sequences

CONSTANTS
  Clients,        \* requests in flight at once
  WorkKeys,       \* idempotency keys
  Cost,           \* credit_cost of an analysis
  Funds,          \* credits of the account at first
  MaxAnalyses,    \* bound: analyses
  MaxInterviews,  \* bound: interviews
  NoTicket

ASSUME WorkAssumption ==
  /\ Cost \in Nat /\ Funds \in Nat /\ MaxAnalyses \in Nat /\ MaxInterviews \in Nat
  /\ NoTicket \notin Nat \union Clients

VARIABLES
  cvActive,    \* ProductCV.status = "active"
  analyses,    \* the analyses: parent, attempt, status, and what is reserved for each
  interviews,  \* the interviews created
  outbox,      \* analyses that have a dispatch
  ticket,      \* the resource each completed record names
  claimed,     \* the client whose open transaction inserted each record
  client,      \* what each client is doing, and what it has read
  account,     \* the client that has the account locked
  credits      \* what is available

workVars ==
  <<cvActive, analyses, interviews, outbox, ticket, claimed, client, account, credits>>

\* The record of a key is one per operation: creating an analysis, creating an
\* interview, or retrying a given analysis.
Operations == {<<"analysis", 0>>, <<"interview", 0>>} \union {"retry"} \X (1 .. MaxAnalyses)
Tickets == Operations \X WorkKeys

NoWork == [at |-> "idle", op |-> <<"analysis", 0>>, key |-> NoTicket, attempt |-> 0]
TicketOf(c) == <<client[c].op, client[c].key>>

WorkTypeOK ==
  /\ cvActive \in BOOLEAN
  /\ Len(analyses) <= MaxAnalyses
  /\ \A i \in DOMAIN analyses :
       /\ analyses[i].parent \in 0 .. (i - 1) /\ analyses[i].attempt \in 1 .. MaxAnalyses
       /\ analyses[i].status \in {"queued", "completed", "failed"}
       /\ analyses[i].held \in {0, Cost}
  /\ interviews \in 0 .. MaxInterviews
  /\ outbox \subseteq DOMAIN analyses
  /\ ticket \in [Tickets -> Nat \union {NoTicket}]
  /\ claimed \in [Tickets -> Clients \union {NoTicket}]
  /\ \A c \in Clients :
       /\ client[c].at \in {"idle", "claim", "check", "reserve", "commit"}
       /\ client[c].op \in Operations /\ client[c].key \in WorkKeys \union {NoTicket}
       /\ client[c].attempt \in 0 .. MaxAnalyses + 1
  /\ account \in Clients \union {NoTicket}
  /\ credits \in 0 .. Funds

WorkInit ==
  /\ cvActive = TRUE
  /\ analyses = <<>> /\ interviews = 0 /\ outbox = {}
  /\ ticket = [t \in Tickets |-> NoTicket] /\ claimed = [t \in Tickets |-> NoTicket]
  /\ client = [c \in Clients |-> NoWork]
  /\ account = NoTicket /\ credits = Funds

Doing(c, step) == client[c].at = step
MovesTo(c, step) == client' = [client EXCEPT ![c].at = step]
Unclaimed(c) == [t \in Tickets |-> IF claimed[t] = c THEN NoTicket ELSE claimed[t]]
Unlocked(c) == IF account = c THEN NoTicket ELSE account
-----------------------------------------------------------------------------
\* IdempotencyService.begin finds no record; one that is there is answered with the
\* resource it names.  A retry has loaded its analysis before.
AskFor(c, op, k) ==
  /\ Doing(c, "idle")
  /\ op[1] = "retry" => op[2] \in DOMAIN analyses /\ analyses[op[2]].status = "failed"
  /\ ticket[<<op, k>>] = NoTicket
  /\ client' = [client EXCEPT ![c] = [at |-> "claim", op |-> op, key |-> k, attempt |-> 0]]
  /\ UNCHANGED <<cvActive, analyses, interviews, outbox, ticket, claimed, account, credits>>

\* Fault: no unique constraint on the operation and the key.
NotRecorded(c) == TRUE

\* The insert breaks when a record has been committed meanwhile.
StillFree(c) == ticket[TicketOf(c)] = NoTicket

Claim(c) ==
  /\ Doing(c, "claim")
  /\ claimed[TicketOf(c)] = NoTicket
  /\ IF StillFree(c)
       THEN MovesTo(c, "check") /\ claimed' = [claimed EXCEPT ![TicketOf(c)] = c]
       ELSE client' = [client EXCEPT ![c] = NoWork] /\ UNCHANGED claimed
  /\ UNCHANGED <<cvActive, analyses, interviews, outbox, ticket, account, credits>>

LastAttempt == CHOOSE n \in 0 .. MaxAnalyses :
  /\ \A i \in DOMAIN analyses : analyses[i].attempt <= n
  /\ n # 0 => \E i \in DOMAIN analyses : analyses[i].attempt = n

\* The CV must be active; nothing keeps it so until the commit.  Two retries may
\* read the same number of the last attempt.
CheckCv(c) ==
  LET op == client[c].op IN
  /\ Doing(c, "check") /\ cvActive
  /\ client' = [client EXCEPT ![c].at = IF op[1] = "interview" THEN "commit" ELSE "reserve",
                              ![c].attempt = IF op[1] = "retry" THEN LastAttempt + 1 ELSE 1]
  /\ UNCHANGED <<cvActive, analyses, interviews, outbox, ticket, claimed, account, credits>>

\* The account is locked until the transaction ends; a free analysis locks nothing.
Reserve(c) ==
  /\ Doing(c, "reserve")
  /\ IF Cost = 0 THEN UNCHANGED account
     ELSE account = NoTicket /\ credits >= Cost /\ account' = c
  /\ MovesTo(c, "commit")
  /\ UNCHANGED <<cvActive, analyses, interviews, outbox, ticket, claimed, credits>>

CommitAnalysis(c) ==
  LET q == client[c] IN
  /\ Doing(c, "commit") /\ q.op[1] # "interview"
  /\ Len(analyses) < MaxAnalyses
  /\ analyses' = Append(analyses,
       [parent |-> q.op[2], attempt |-> q.attempt,
        status |-> "queued", held |-> Cost])
  /\ outbox' = outbox \union {Len(analyses) + 1}
  /\ credits' = credits - Cost
  /\ ticket' = [ticket EXCEPT ![TicketOf(c)] = Len(analyses) + 1]
  /\ client' = [client EXCEPT ![c] = NoWork]
  /\ claimed' = Unclaimed(c) /\ account' = Unlocked(c)
  /\ UNCHANGED <<cvActive, interviews>>

CommitInterview(c) ==
  /\ Doing(c, "commit") /\ client[c].op[1] = "interview"
  /\ interviews < MaxInterviews
  /\ interviews' = interviews + 1
  /\ ticket' = [ticket EXCEPT ![TicketOf(c)] = interviews + 1]
  /\ client' = [client EXCEPT ![c] = NoWork]
  /\ claimed' = Unclaimed(c)
  /\ UNCHANGED <<cvActive, analyses, outbox, account, credits>>

\* A refusal (the CV is archived, credits are missing), an error or a crash.
UndoWork(c) ==
  /\ ~Doing(c, "idle")
  /\ client' = [client EXCEPT ![c] = NoWork]
  /\ claimed' = Unclaimed(c) /\ account' = Unlocked(c)
  /\ UNCHANGED <<cvActive, analyses, interviews, outbox, ticket, credits>>

\* The task ends: what was held is spent, or released under the account's lock.
EndAnalysis(i) == \E outcome \in {"completed", "failed"} :
  /\ analyses[i].status = "queued" /\ i \in outbox
  /\ outcome = "failed" /\ Cost > 0 => account = NoTicket
  /\ analyses' = [analyses EXCEPT ![i].status = outcome, ![i].held = 0]
  /\ credits' = IF outcome = "failed" THEN credits + analyses[i].held ELSE credits
  /\ UNCHANGED <<cvActive, interviews, outbox, ticket, claimed, client, account>>

ArchiveCv ==
  /\ cvActive
  /\ cvActive' = FALSE
  /\ UNCHANGED <<analyses, interviews, outbox, ticket, claimed, client, account, credits>>

WorkNext ==
  \/ \E c \in Clients :
       \/ Claim(c) \/ CheckCv(c) \/ Reserve(c) \/ CommitAnalysis(c) \/ CommitInterview(c)
       \/ UndoWork(c)
       \/ \E op \in Operations, k \in WorkKeys : AskFor(c, op, k)
  \/ \E i \in DOMAIN analyses : EndAnalysis(i)
  \/ ArchiveCv
-----------------------------------------------------------------------------
AnalysesEnded(status) == {i \in DOMAIN analyses : analyses[i].status = status}

\* FR-BILL-005, and the meaning of an idempotency key: however requests race, wait,
\* break or are repeated, every analysis and interview answers one key only, every
\* analysis has its dispatch, one that is not over holds its price, and what has left
\* the account is what is held and what was spent.
WorkIsPaidOnce ==
  /\ \A i \in DOMAIN analyses :
       Cardinality({t \in Tickets : t[1][1] # "interview" /\ ticket[t] = i}) = 1
  /\ interviews = Cardinality({t \in Tickets : t[1][1] = "interview" /\ ticket[t] # NoTicket})
  /\ outbox = DOMAIN analyses
  /\ credits + Cost * Cardinality(AnalysesEnded("queued") \union AnalysesEnded("completed")) = Funds
=============================================================================
