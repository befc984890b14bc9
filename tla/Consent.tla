------------------------------- MODULE Consent -------------------------------
(***************************************************************************)
(* Consent to the processing of one user's data (write_consent and         *)
(* require_consent of IdentityService): one row for each version of the    *)
(* policy, written by requests that may be delivered twice, late or        *)
(* together, and read before any work is begun.                            *)
(*                                                                         *)
(* A request is one transaction: it inserts the record of its key, which   *)
(* makes a request with the same key wait and then break, reads the row,   *)
(* and writes only what differs from what it has read.                     *)
(* The user's client takes a new key for each decision.                    *)
(***************************************************************************)
EXTENDS Naturals, Sequences

CONSTANTS
  ConsentCalls,    \* requests in flight at once
  LastPolicy,      \* bound: versions of the policy
  MaxDecisions     \* bound: decisions of the user

ASSUME ConsentAssumption ==
  MaxDecisions \in Nat /\ LastPolicy \in Nat \ {0}

VARIABLES
  consents,   \* UserConsent of each version: its status, and whether withdrawn_at is set
  inUse,      \* the configured product_processing_policy_version
  recorded,   \* decisions whose idempotency record is completed
  writing,    \* what each request is doing
  decisions,  \* history: what the user decided, and whether he knew the answer to all before
  known,      \* history: the decisions answered
  begun       \* history: the work begun, and what the user had said last

consentVars == <<consents, inUse, recorded, writing, decisions, known, begun>>

PolicyVersions == 1 .. LastPolicy
ConsentAnswers == {"granted", "withdrawn"}
NoConsent == [status |-> "none", withdrawn |-> FALSE]
AtRest == [at |-> "rest", decision |-> 0, saw |-> NoConsent]
ConsentRows == [status : ConsentAnswers \union {"none"}, withdrawn : BOOLEAN]

ConsentTypeOK ==
  /\ consents \in [PolicyVersions -> ConsentRows] /\ inUse \in PolicyVersions
  /\ recorded \subseteq DOMAIN decisions /\ known \subseteq recorded
  /\ \A c \in ConsentCalls :
       /\ writing[c].at \in {"rest", "claim", "read", "write", "answer"}
       /\ writing[c].decision \in {0} \union DOMAIN decisions /\ writing[c].saw \in ConsentRows
  /\ begun \subseteq PolicyVersions \X (ConsentAnswers \union {"none", "open"})

ConsentInit ==
  /\ consents = [v \in PolicyVersions |-> NoConsent] /\ inUse = 1
  /\ recorded = {} /\ writing = [c \in ConsentCalls |-> AtRest]
  /\ decisions = <<>> /\ known = {} /\ begun = {}

Deciding(c) == decisions[writing[c].decision]
Made(v) == {d \in DOMAIN decisions : decisions[d].version = v}

\* The last decision on a version, when the answers to it and to all before it are known.
LastWord(v) ==
  IF Made(v) = {} THEN "none"
  ELSE LET d == CHOOSE d \in Made(v) : \A e \in Made(v) : e <= d
       IN  IF decisions[d].alone /\ d \in known THEN decisions[d].status ELSE "open"

DecideConsent(v, s) ==
  /\ Len(decisions) < MaxDecisions
  /\ decisions' = Append(decisions, [version |-> v, status |-> s, alone |-> Made(v) \subseteq known])
  /\ UNCHANGED <<consents, inUse, recorded, writing, known, begun>>
-----------------------------------------------------------------------------
\* Fault: the record of an earlier request is not looked for.
NeverKnown(d) == FALSE

AlreadyDone(d) == d \in recorded

\* A request for decision d, the first or a repetition: answered when it was done before.
Ask(c, d) ==
  /\ writing[c].at = "rest"
  /\ writing' = [writing EXCEPT
       ![c] = [AtRest EXCEPT !.at = IF AlreadyDone(d) THEN "answer" ELSE "claim", !.decision = d]]
  /\ UNCHANGED <<consents, inUse, recorded, decisions, known, begun>>

ClaimKey(c) ==
  LET d == writing[c].decision IN
  /\ writing[c].at = "claim"
  /\ \A o \in ConsentCalls : writing[o].at \in {"read", "write"} => writing[o].decision # d
  /\ writing' = [writing EXCEPT ![c] = IF AlreadyDone(d) THEN AtRest ELSE [@ EXCEPT !.at = "read"]]
  /\ UNCHANGED <<consents, inUse, recorded, decisions, known, begun>>

ReadRow(c) ==
  /\ writing[c].at = "read"
  /\ writing' = [writing EXCEPT ![c].at = "write", ![c].saw = consents[Deciding(c).version]]
  /\ UNCHANGED <<consents, inUse, recorded, decisions, known, begun>>

\* The row as the statement leaves it: an attribute that has the value read is not sent,
\* except withdrawn_at of a withdrawal, which is now.
WrittenOver(row, saw, s) ==
  [status |-> IF saw.status = s THEN row.status ELSE s,
   withdrawn |-> IF s = "withdrawn" THEN TRUE ELSE row.withdrawn /\ ~saw.withdrawn]

\* An insert meets the row of another request: the unique index refuses it.
WriteRow(c) ==
  LET v == Deciding(c).version IN
  /\ writing[c].at = "write"
  /\ IF writing[c].saw = NoConsent /\ consents[v] # NoConsent
       THEN writing' = [writing EXCEPT ![c] = AtRest] /\ UNCHANGED <<consents, recorded>>
       ELSE /\ consents' = [consents EXCEPT ![v] = WrittenOver(@, writing[c].saw, Deciding(c).status)]
            /\ recorded' = recorded \union {writing[c].decision}
            /\ writing' = [writing EXCEPT ![c].at = "answer"]
  /\ UNCHANGED <<inUse, decisions, known, begun>>

AnswerUser(c) ==
  /\ writing[c].at = "answer"
  /\ known' = known \union {writing[c].decision}
  /\ writing' = [writing EXCEPT ![c] = AtRest]
  /\ UNCHANGED <<consents, inUse, recorded, decisions, begun>>

\* An error, a crash, or an answer that is lost.
AbandonWrite(c) ==
  /\ writing[c].at # "rest"
  /\ writing' = [writing EXCEPT ![c] = AtRest]
  /\ UNCHANGED <<consents, inUse, recorded, decisions, known, begun>>
-----------------------------------------------------------------------------
\* require_consent: the version configured, not any other.
Permitted == consents[inUse].status = "granted"

BeginWork ==
  /\ Permitted
  /\ begun' = begun \union {<<inUse, LastWord(inUse)>>}
  /\ UNCHANGED <<consents, inUse, recorded, writing, decisions, known>>

\* A deployment with a new policy.
Deploy ==
  /\ inUse + 1 \in PolicyVersions
  /\ inUse' = inUse + 1
  /\ UNCHANGED <<consents, recorded, writing, decisions, known, begun>>

ConsentNext ==
  \/ \E v \in PolicyVersions, s \in ConsentAnswers : DecideConsent(v, s)
  \/ \E c \in ConsentCalls :
       \/ ClaimKey(c) \/ ReadRow(c) \/ WriteRow(c) \/ AnswerUser(c) \/ AbandonWrite(c)
       \/ \E d \in DOMAIN decisions : Ask(c, d)
  \/ BeginWork
  \/ Deploy
-----------------------------------------------------------------------------
\* FR-PROFILE-003, FR-PRIV-003: a decision whose answer the user knows, made when he knew
\* the answers to those before, is in force however often and however late the requests
\* of earlier decisions are repeated, and no work begins under a version he has withdrawn
\* from or never granted.  (Of decisions made before the answer to the last one was known
\* nothing is promised: two of them may leave a row that is granted with withdrawn_at set.)
ConsentGoverns ==
  /\ \A v \in PolicyVersions :
       LastWord(v) \in ConsentAnswers =>
         consents[v] = [status |-> LastWord(v), withdrawn |-> LastWord(v) = "withdrawn"]
  /\ \A work \in begun : work[2] \in {"granted", "open"}
=============================================================================
