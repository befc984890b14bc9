--------------------------- MODULE ProviderSearch ---------------------------
(***************************************************************************)
(* A live search at the AI provider (OpenAIJobsAdapter.live_search): the   *)
(* attempts of one request, the validation of each answer inside the       *)
(* retry, and the postings accepted from the answer that passed it, of     *)
(* which each must be backed by a page the provider says it has read.      *)
(*                                                                         *)
(* The answer is checked twice, in the retry and again outside of it,      *)
(* where a failure is neither retried nor counted against the provider.    *)
(* A link is a page and the way it is written: with or without tracking    *)
(* parameters, or in a form that is not accepted.  Only the fields of a    *)
(* posting that a rule looks at are kept.                                  *)
(***************************************************************************)
EXTENDS Naturals, FiniteSets, Sequences, Functions

CONSTANTS
  Pages,            \* web pages
  Salaries,         \* salary fields an answer may hold: [low, high, currency]
  MaxAnswers,          \* postings in an answer
  MaxLinks,         \* citations, and sources, in an answer
  MaxEvidence,      \* links looked at
  MaxTries,      \* provider_retry_attempts
  Missing           \* a field that is null

ASSUME SearchAnswerAssumption ==
  /\ MaxAnswers \in Nat /\ MaxLinks \in Nat /\ MaxEvidence \in Nat /\ MaxTries \in Nat \ {0}
  /\ Missing \notin Nat

Links == [page : Pages, form : {"plain", "tracked", "refused"}]
Candidates == [link : [page : Pages, form : {"plain", "tracked"}], salary : Salaries]
SeqsUpTo(S, n) == UNION {[1 .. m -> S] : m \in 0 .. n}

\* What the provider may answer.
Answers ==
  [complete : BOOLEAN, message : BOOLEAN, searched : {"no", "partly", "yes"},
   jobs : SeqsUpTo(Candidates, MaxAnswers), citations : SeqsUpTo(Links, MaxLinks),
   sources : SeqsUpTo(Links, MaxLinks)]

VARIABLES
  stage,      \* "ask", "accepted", "failed" (retried no more), "inconsistent"
  attempt,    \* attempts made
  answer,     \* the answer that passed the validation, or Missing
  accepted    \* the postings handed to the search run

searchVars == <<stage, attempt, answer, accepted>>

AnswerTypeOK ==
  /\ stage \in {"ask", "valid", "accepted", "failed", "inconsistent"}
  /\ attempt \in 0 .. MaxTries
  /\ answer = Missing \/ answer \in Answers
  /\ Len(accepted) <= MaxAnswers

AnswerInit == stage = "ask" /\ attempt = 0 /\ answer = Missing /\ accepted = <<>>
-----------------------------------------------------------------------------
\* LiveJobCandidate: the salary is a range, and has a currency.
ValidSalary(s) ==
  /\ s.low # Missing /\ s.high # Missing => s.low <= s.high
  /\ s.low # Missing \/ s.high # Missing => s.currency # Missing

ValidJobs(a) == \A i \in DOMAIN a.jobs : ValidSalary(a.jobs[i].salary)

\* Fault: a link compared as it is written.
AsWritten(l) == l

\* _normalize_url: tracking parameters do not make another page.
NormalUrl(l) == l.page

\* _sanitize_links: the first links, without those refused and without repetition.
Evidence(a) ==
  LET all == a.citations \o a.sources
      seen(i) == \E k \in 1 .. (i - 1) : all[k].form # "refused" /\ NormalUrl(all[k]) = NormalUrl(all[i])
  IN {all[i] : i \in {i \in DOMAIN all : i <= MaxEvidence /\ all[i].form # "refused" /\ ~seen(i)}}

Backed(a) == {i \in DOMAIN a.jobs : \E l \in Evidence(a) : NormalUrl(l) = NormalUrl(a.jobs[i].link)}

\* What the attempt raises, inside the retry; every reason is one to try again.
Valid(a) ==
  /\ a.complete
  /\ a.message
  /\ ValidJobs(a)
  /\ a.searched = "yes"
  /\ a.jobs # <<>> => Backed(a) # {}

\* One attempt: a timeout or a refused request, an answer that is not valid, or one
\* that is.  A status below 500 other than 429 is final.
Try == \E a \in Answers \union {Missing}, final \in BOOLEAN :
  /\ stage = "ask"
  /\ attempt' = attempt + 1
  /\ IF a # Missing /\ Valid(a)
       THEN answer' = a /\ stage' = "valid"
       ELSE /\ stage' = IF (a = Missing /\ final) \/ attempt + 1 = MaxTries
                          THEN "failed" ELSE "ask"
            /\ UNCHANGED answer
  /\ UNCHANGED accepted

\* The postings that are backed, in their order, under the link of the evidence.
AcceptedAnswer(a) ==
  LET cited(i) == CHOOSE l \in Evidence(a) : NormalUrl(l) = NormalUrl(a.jobs[i].link)
      posting(i) == [link |-> cited(i), salary |-> a.jobs[i].salary] IN
  [n \in 1 .. Cardinality(Backed(a)) |->
     posting(CHOOSE i \in Backed(a) : Cardinality({k \in Backed(a) : k < i}) = n - 1)]

\* The second check, outside of the retry.
Accept ==
  /\ stage = "valid"
  /\ IF answer.jobs # <<>> /\ AcceptedAnswer(answer) = <<>>
       THEN stage' = "inconsistent" /\ UNCHANGED accepted
       ELSE stage' = "accepted" /\ accepted' = AcceptedAnswer(answer)
  /\ UNCHANGED <<attempt, answer>>

AnswerNext == Try \/ Accept
-----------------------------------------------------------------------------
\* FR-JOB-002: every posting a live search hands on names a page among those the
\* provider reported reading, under the link it reported, and has a salary that
\* makes sense; a page written in two ways is the same page; and an answer that
\* passed the validation of its attempt is not refused afterwards.
ProvenanceKept ==
  /\ stage # "inconsistent"
  /\ \A i \in DOMAIN accepted :
       /\ accepted[i].link \in Range(answer.citations \o answer.sources)
       /\ accepted[i].link.form # "refused"
       /\ ValidSalary(accepted[i].salary)
  /\ stage = "accepted" /\ Len(answer.citations) + Len(answer.sources) <= MaxEvidence =>
       \A i \in DOMAIN answer.jobs :
         (\E k \in DOMAIN answer.citations :
            answer.citations[k].form # "refused" /\ answer.citations[k].page = answer.jobs[i].link.page)
         => \E n \in DOMAIN accepted : accepted[n].link.page = answer.jobs[i].link.page
=============================================================================
