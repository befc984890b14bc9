------------------------------- MODULE JobPage -------------------------------
(***************************************************************************)
(* The page of a job posting: which hosts may be asked, the redirects that *)
(* are followed, and what the page shows (SafeJobFetcher, and the domain   *)
(* policy of ProductJobSearchService).                                     *)
(*                                                                         *)
(* A host is the sequence of its labels.  The web is a function from       *)
(* addresses to what they answer: a page, or a redirect to another         *)
(* address; an address outside its domain does not answer.  Words are the  *)
(* significant ones, without the stop words of the fetcher.                *)
(***************************************************************************)
EXTENDS Naturals, FiniteSets, SequencesExt

CONSTANTS
  Home,            \* the address of the posting
  Title, Company,  \* the words of its title and of its company
  AllowedDomains, BlockedDomains,
  Nowhere

\* A connection that fails, or a redirect without a target, ends the fetch.
MaxRequests == 4

\* _domain_matches: a domain and what is under it.
DomainMatches(host, policies) == \E p \in policies : IsSuffix(p, host)

DomainAllowed(host) ==
  /\ ~DomainMatches(host, BlockedDomains)
  /\ AllowedDomains = {} \/ DomainMatches(host, AllowedDomains)

Redirects(web, a) == a \in DOMAIN web /\ web[a].to # Nowhere

\* The address of the n-th request.
Hops(web) ==
  LET at[n \in 1 .. MaxRequests] ==
        IF n = 1 THEN Home
        ELSE IF Redirects(web, at[n - 1]) THEN web[at[n - 1]].to ELSE at[n - 1]
  IN at

\* The address that is read in the end.
Reached(web) == Hops(web)[MaxRequests]

\* fetch, with the look at the domain before and after it.
Fetched(web) ==
  /\ DomainAllowed(Home.host)
  /\ Reached(web) \in DOMAIN web /\ ~Redirects(web, Reached(web))
  /\ DomainAllowed(Reached(web).host)

\* _matches: at least the share of the expected words, in hundredths.
Matches(words, expected, share) ==
  Cardinality(expected \intersect words) * 100 >= share * Cardinality(expected)

Classify(page) ==
  IF page.code # 200 THEN "unavailable"
  ELSE IF ~page.html THEN "content_type_unsupported"
  ELSE IF page.closed THEN "expired"
  ELSE IF page.words = {} THEN "content_empty"
  ELSE IF ~Matches(page.words, Title, 50) THEN "title_mismatch"
  ELSE IF ~Matches(page.words, Company, 34) THEN "company_mismatch"
  ELSE "verified"

\* A page that shows an open posting that is this one.
ShowsPosting(page) ==
  /\ page.code = 200 /\ page.html /\ ~page.closed
  /\ Title \intersect page.words # {} /\ Company \intersect page.words # {}
=============================================================================
