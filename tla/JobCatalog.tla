----------------------------- MODULE JobCatalog -----------------------------
(***************************************************************************)
(* One posting of the shared job catalog: the checks of its page by live   *)
(* searches (ProductJobSearchService._verify_and_upsert), the beat task    *)
(* that marks it stale, the cases of candidates and the moderators'        *)
(* decisions, the status of its source, and the hard filters of a search,  *)
(* which are written twice: in SQL for the index and in Python for a       *)
(* posting just checked.                                                   *)
(*                                                                         *)
(* A check loads the row, and writes at its commit the attributes that     *)
(* differ from what it loaded; nothing locks the row between.  Null is a   *)
(* NULL column: no comparison with it holds.                               *)
(***************************************************************************)
EXTENDS Integers, JobPage

CONSTANTS
  Items,        \* what the provider may say of the posting
  Checkers,     \* workers that check the posting's page
  Reporters,    \* candidates
  Moderators,   \* administrators
  Filters,      \* filters of a search
  Webs,         \* what the web may answer
  Lifetime,     \* how long a check is good for
  LastInstant,  \* bound: how far the clock runs
  MaxChecks,    \* bound: checks begun
  Null

\* The schema of the filters: amounts are not negative, places are strings.
ASSUME CatalogueAssumption ==
  /\ Lifetime \in Nat \ {0} /\ LastInstant \in Nat /\ MaxChecks \in Nat
  /\ IsFiniteSet(Title) /\ IsFiniteSet(Company) /\ Title # {} /\ Company # {}
  /\ Null \notin Int
  /\ \A f \in Filters : /\ f.verified \in BOOLEAN /\ Null \notin f.places
                        /\ {f.low, f.high} \subseteq Nat \union {Null}

VARIABLES
  posting,    \* the attributes of the ProductJob, or Null
  check,      \* what each worker loaded and is going to write
  checks,     \* checks begun so far
  scan,       \* the postings mark_stale_jobs read: this one, or not
  source,     \* JobSource.status: disabled, or not
  cases,      \* the JobModerationCase of each candidate's report
  ruling,     \* the case each administrator has locked, and the status loaded
  instant,    \* the time
  vouched     \* history: the last write to the posting came from its open page

catalogueVars == <<posting, check, checks, scan, source, cases, ruling, instant, vouched>>

\* _minor_value: an amount that is not a whole number of at least zero is dropped.
Minor(v) == IF v \in Nat THEN v ELSE Null

First(v, w) == IF v # Null THEN v ELSE w

\* Fault: a posting without an upper salary fails every lower bound.
HighOnly(j) == j.high

\* The two ends of a salary of which only one may be known.
Highest(j) == First(j.high, j.low)
Lowest(j)  == First(j.low, j.high)

\* The WHERE clause of _eligible_job_ids; a comparison with NULL selects nothing.
Eligible(j, f) ==
  /\ j.status = "active"
  /\ f.verified => j.verified /\ (j.expires = Null \/ j.expires > instant)
  /\ f.places # {} => j.place # Null /\ j.place \in f.places
  /\ f.modes # {} => j.mode \in f.modes
  /\ f.currency # Null => j.currency # Null /\ j.currency = f.currency
  /\ f.low # Null => First(j.high, j.low) # Null /\ First(j.high, j.low) >= f.low
  /\ f.high # Null => First(j.low, j.high) # Null /\ First(j.low, j.high) <= f.high
  /\ f.skills \subseteq j.skills

\* The early returns of _job_matches_filters; it does not look at the status.
Rejected(j, f) ==
  \/ f.verified /\ (~j.verified \/ (j.expires # Null /\ j.expires <= instant))
  \/ f.places # {} /\ ~(\E p \in f.places : j.place = p)
  \/ f.modes # {} /\ j.mode \notin f.modes
  \/ ~(f.skills \subseteq j.skills)
  \/ f.currency # Null /\ j.currency # f.currency
  \/ f.low # Null /\ (Highest(j) = Null \/ Highest(j) < f.low)
  \/ f.high # Null /\ (Lowest(j) = Null \/ Lowest(j) > f.high)

\* The filter of the list of jobs when the candidate gives none.
Listed ==
  /\ posting # Null
  /\ posting.status = "active" /\ posting.verified /\ posting.expires > instant

Postings ==
  [place : {Null} \union {i.place : i \in Items}, mode : {i.mode : i \in Items},
   low : {Null} \union Nat, high : {Null} \union Nat,
   currency : {i.currency : i \in Items}, skills : {i.skills : i \in Items},
   status : {"active", "stale", "expired", "invalid", "unavailable"},
   verified : BOOLEAN, expires : 0 .. (LastInstant + Lifetime)]

ASSUME RowAssumption == Null \notin Postings

CatalogueTypeOK ==
  /\ posting \in Postings \union {Null}
  /\ \A c \in Checkers : check[c] = Null \/
       /\ check[c].loaded \in Postings \union {Null}
       /\ check[c].new \in Postings \union {Null}
  /\ checks \in 0 .. MaxChecks
  /\ scan \in BOOLEAN
  /\ source \in {"active", "disabled"}
  /\ cases \in [Reporters -> {"none", "open", "dismissed", "resolved"}]
  /\ \A m \in Moderators : ruling[m] = Null \/ ruling[m].case \in Reporters
  /\ instant \in 0 .. LastInstant
  /\ vouched \in BOOLEAN

CatalogueInit ==
  /\ posting = Null /\ check = [c \in Checkers |-> Null] /\ checks = 0
  /\ scan = FALSE /\ source = "active"
  /\ cases = [r \in Reporters |-> "none"] /\ ruling = [m \in Moderators |-> Null]
  /\ instant = 0 /\ vouched = FALSE
-----------------------------------------------------------------------------
\* Fault: a page that is closed leaves the end of the last check's life alone.
KeepsExpiry(outcome, loaded) ==
  IF outcome # "verified" /\ loaded # Null THEN loaded.expires ELSE instant + Lifetime

\* A posting that is not open has expired already.
Expiry(outcome, loaded) == IF outcome = "verified" THEN instant + Lifetime ELSE instant

\* The row enters the worker's session: when the check reads it, or long before it,
\* when the same run found the posting in the index.
Load(c) ==
  /\ check[c] = Null /\ checks < MaxChecks
  /\ checks' = checks + 1
  /\ check' = [check EXCEPT ![c] = [loaded |-> posting, new |-> Null, shown |-> FALSE]]
  /\ UNCHANGED <<posting, scan, source, cases, ruling, instant, vouched>>

\* A fetch that fails ends the check, and so does a source that is disabled.  A page on
\* another host belongs to another source, which is not modelled.
Refused(web) ==
  \/ ~Fetched(web)
  \/ Reached(web).host = Home.host /\ source = "disabled"

StatusFor(outcome) ==
  IF outcome = "verified" THEN "active" ELSE IF outcome = "expired" THEN "expired" ELSE "invalid"

\* The attributes a check writes.
NewRow(i, outcome, loaded) ==
  [place |-> i.place, mode |-> i.mode, low |-> Minor(i.low), high |-> Minor(i.high),
   currency |-> i.currency, skills |-> i.skills, status |-> StatusFor(outcome),
   verified |-> outcome = "verified", expires |-> Expiry(outcome, loaded)]

\* The page has been fetched; the source and the time are read.
Verify(c) == \E i \in Items, web \in Webs :
  LET page == web[Reached(web)]
      outcome == Classify(page) IN
  /\ check[c] # Null /\ check[c].new = Null
  /\ check' = [check EXCEPT ![c] =
       IF Refused(web) THEN Null ELSE
         [@ EXCEPT !.new = NewRow(i, outcome, check[c].loaded), !.shown = ShowsPosting(page)]]
  /\ UNCHANGED <<posting, checks, scan, source, cases, ruling, instant, vouched>>

\* The columns an UPDATE names: those whose value differs from the one loaded.  A
\* time always does, that of a successful check too: it has microseconds, of which an
\* instant holds many.
Updated(k, old) ==
  [a \in DOMAIN k.new |->
     IF \/ a = "expires" \/ (a = "verified" /\ k.new.verified)
        \/ k.new[a] # k.loaded[a]
       THEN k.new[a] ELSE old[a]]

\* The commit.  A second insert of the posting breaks the unique fingerprint.
Commit(c) ==
  /\ check[c] # Null /\ check[c].new # Null
  /\ LET k == check[c] IN
     IF k.loaded = Null /\ posting # Null
       THEN UNCHANGED <<posting, vouched>>
       ELSE /\ posting' = IF k.loaded = Null THEN k.new ELSE Updated(k, posting)
            /\ vouched' = k.shown
  /\ check' = [check EXCEPT ![c] = Null]
  /\ UNCHANGED <<checks, scan, source, cases, ruling, instant>>

\* mark_stale_jobs reads the postings whose check has run out ...
ReadStale ==
  /\ ~scan /\ posting # Null
  /\ posting.status = "active" /\ posting.expires < instant
  /\ scan' = TRUE
  /\ UNCHANGED <<posting, check, checks, source, cases, ruling, instant, vouched>>

\* ... and marks them, whatever has happened to them since.
MarkStale ==
  /\ scan
  /\ scan' = FALSE
  /\ posting' = [posting EXCEPT !.status = "stale"]
  /\ vouched' = FALSE
  /\ UNCHANGED <<check, checks, source, cases, ruling, instant>>

\* A report makes a case.  Another report of the candidate changes the reason of an
\* open case, which is not modelled, and does not open a decided one again.
Report(r) ==
  /\ posting # Null
  /\ cases[r] = "none"
  /\ cases' = [cases EXCEPT ![r] = "open"]
  /\ UNCHANGED <<posting, check, checks, scan, source, ruling, instant, vouched>>

\* resolve_moderation_case locks an open case and loads the posting.
TakeCase(m, r) ==
  /\ ruling[m] = Null
  /\ \A n \in Moderators : ruling[n] # Null => ruling[n].case # r
  /\ cases[r] = "open"
  /\ ruling' = [ruling EXCEPT ![m] = [case |-> r, loaded |-> posting.status]]
  /\ UNCHANGED <<posting, check, checks, scan, source, cases, instant, vouched>>

Invalidate(m) ==
  IF ruling[m].loaded # "unavailable"
    THEN /\ posting' = [posting EXCEPT !.status = "unavailable"]
         /\ vouched' = FALSE
    ELSE UNCHANGED <<posting, vouched>>

Resolve(m) == \E ruled \in {"dismiss", "invalidate_job", "disable_source"} :
  /\ ruling[m] # Null
  /\ cases' = [cases EXCEPT ![ruling[m].case] =
                   IF ruled = "dismiss" THEN "dismissed" ELSE "resolved"]
  /\ source' = IF ruled = "disable_source" THEN "disabled" ELSE source
  /\ IF ruled = "invalidate_job" THEN Invalidate(m) ELSE UNCHANGED <<posting, vouched>>
  /\ ruling' = [ruling EXCEPT ![m] = Null]
  /\ UNCHANGED <<check, checks, scan, instant>>

\* A degraded source is treated as an active one.
UpdateSource == \E s \in {"active", "disabled"} :
  /\ posting # Null /\ source # s
  /\ source' = s
  /\ UNCHANGED <<posting, check, checks, scan, cases, ruling, instant, vouched>>

Pass ==
  /\ instant < LastInstant
  /\ instant' = instant + 1
  /\ UNCHANGED <<posting, check, checks, scan, source, cases, ruling, vouched>>

CatalogueNext ==
  \/ \E c \in Checkers : Load(c) \/ Verify(c) \/ Commit(c)
  \/ ReadStale \/ MarkStale
  \/ \E r \in Reporters : Report(r) \/ \E m \in Moderators : TakeCase(m, r)
  \/ \E m \in Moderators : Resolve(m)
  \/ UpdateSource \/ Pass
-----------------------------------------------------------------------------
\* FR-JOB-006 and FR-JOB-007: a hard filter gives the same verdict on a posting of the index,
\* where SQL evaluates it, as on a posting a live search has just checked.
FiltersAgree ==
  posting # Null /\ posting.status = "active" =>
    \A f \in Filters : Eligible(posting, f) <=> ~Rejected(posting, f)

\* FR-JOB-003 and FR-JOB-011: a posting is offered as verified only while the last thing written
\* to it came from a page that showed it open: neither a check that
\* found it closed, nor the beat task, nor a moderator is undone by a write that was
\* prepared before it.
ListedIsVouchedFor == Listed => vouched
=============================================================================
