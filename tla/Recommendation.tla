--------------------------- MODULE Recommendation ---------------------------
(***************************************************************************)
(* The candidate profiles of one user and one of the user's recommendation *)
(* runs (ProductRecommendationService, candidate_profiles.py,              *)
(* product.recommendations.generate).                                      *)
(*                                                                         *)
(* A profile is derived from three inputs that change on their own: the    *)
(* active CV version, the preferences and the finished interview reports.  *)
(* A change marks the fresh profiles stale in its own transaction.  Both a *)
(* recommendation request and a job search look a profile up or derive one *)
(* from inputs they read one after the other, without a lock; what differs *)
(* is which inputs the look-up compares.                                   *)
(***************************************************************************)
EXTENDS Naturals, Sequences, FiniteSets

CONSTANTS
  Versions,      \* the CV versions of the user
  Workers,       \* the worker processes
  MaxChanges,    \* bound: changes of the inputs
  MaxProfiles,   \* bound: profiles derived
  MaxMessages    \* bound: times the dispatch may be published

None == "none"

ASSUME RecommendationAssumption ==
  /\ None \notin Versions /\ IsFiniteSet(Workers)
  /\ MaxChanges \in Nat /\ MaxProfiles \in Nat /\ MaxMessages \in Nat

Requests == {"recommendation", "search"}     \* the two users of a profile

VARIABLES
  input,       \* the active CV version, the preference version, the ready reports
  changes,     \* changes of the inputs so far
  profiles,    \* the candidate profiles; the place of one is its version
  request,     \* what each of the two requests has read so far
  run,         \* the recommendation run: its status and its profile
  queue,       \* its messages no worker has taken
  published,   \* times its message was put into the queue
  worker,      \* what each worker is doing with the run
  matches,     \* which execution's matches are stored: none, one, or the next
  feedback     \* whether there is feedback of the user on them

profileVars == <<input, changes, profiles, request>>
runVars == <<run, queue, published, worker, matches, feedback>>
recommendationVars == <<profileVars, runVars>>

Inputs == [cv : Versions \union {None}, preference : Nat, ready : [Versions -> Nat]]

NoRequest == [at |-> "idle", since |-> None, cv |-> None, preference |-> 0, reports |-> 0,
              fresh |-> {}, next |-> 0]

NoRun == [status |-> None, profile |-> 0, since |-> None]
Resting == [at |-> "idle", replaced |-> 0]

Fresh == {i \in DOMAIN profiles : profiles[i].fresh}

RecommendationTypeOK ==
  /\ input \in Inputs
  /\ changes \in 0 .. MaxChanges
  /\ Len(profiles) <= MaxProfiles
  /\ \A q \in Requests : request[q].at \in {"idle", "preference", "reports", "look", "number", "derive"}
  /\ run.status \in {None, "queued", "processing", "completed", "failed"}
  /\ run.profile \in 0 .. Len(profiles)
  /\ queue \in 0 .. MaxMessages /\ published \in 0 .. MaxMessages
  /\ \A w \in Workers : worker[w].at \in {"idle", "rank", "store", "failing", "done"}
  /\ matches \in 0 .. 2 /\ feedback \in BOOLEAN

RecommendationInit ==
  /\ input \in {[cv |-> v, preference |-> 1, ready |-> [w \in Versions |-> 0]] : v \in Versions}
  /\ changes = 0
  /\ profiles = <<>>
  /\ request = [q \in Requests |-> NoRequest]
  /\ run = NoRun
  /\ queue = 0 /\ published = 0
  /\ worker = [w \in Workers |-> Resting]
  /\ matches = 0 /\ feedback = FALSE
-----------------------------------------------------------------------------
(* The inputs.                                                             *)

\* UPDATE ... SET status = 'stale' of what is fresh; a profile another
\* transaction has not committed yet is not touched.
Invalidated == [i \in DOMAIN profiles |-> [profiles[i] EXCEPT !.fresh = FALSE]]

Change(new) ==
  /\ changes < MaxChanges
  /\ input' = new
  /\ changes' = changes + 1
  /\ profiles' = Invalidated
  /\ UNCHANGED <<request, runVars>>

\* A confirmed draft or an activation; archiving leaves no active version.
ActivateVersion == \E v \in Versions \union {None} : v # input.cv /\ Change([input EXCEPT !.cv = v])

\* One edit at a time: two at once would count as one (see the README).
ChangePreferences == Change([input EXCEPT !.preference = @ + 1])

ReportReady == \E v \in Versions : Change([input EXCEPT !.ready[v] = @ + 1])
-----------------------------------------------------------------------------
(* Looking a profile up, or deriving one.                                  *)

\* The request starts with the active version; a search goes on with the
\* version it was created for, which need not be active any more.
ReadVersion(q) ==
  /\ request[q].at = "idle"
  /\ q = "recommendation" => run.status = None
  /\ \E v \in IF q = "search" THEN Versions ELSE {input.cv} \ {None} :
       request' = [request EXCEPT ![q] =
         [NoRequest EXCEPT !.at = "preference", !.since = input, !.cv = v]]
  /\ UNCHANGED <<input, changes, profiles, runVars>>

\* A recommendation reads the reports before its look-up, a search after it.
ReadPreference(q) ==
  /\ request[q].at = "preference"
  /\ request' = [request EXCEPT ![q].preference = input.preference,
                                ![q].at = IF q = "search" THEN "look" ELSE "reports"]
  /\ UNCHANGED <<input, changes, profiles, runVars>>

ReadReports(q) ==
  /\ request[q].at = "reports"
  /\ request' = [request EXCEPT ![q].reports = input.ready[request[q].cv],
                                ![q].at = IF q = "search" THEN "number" ELSE "look"]
  /\ UNCHANGED <<input, changes, profiles, runVars>>

\* What the look-up of a search compares, and that of a recommendation.
FitsSearch(r, p) == p.fresh /\ p.cv = r.cv /\ p.preference = r.preference
Fits(r, p) == FitsSearch(r, p) /\ p.reports = r.reports

Latest(S) == CHOOSE i \in S : \A k \in S : k <= i

CreateRun(i, since) ==
  /\ run' = [status |-> "queued", profile |-> i, since |-> since]
  /\ UNCHANGED <<queue, published, worker, matches, feedback>>

\* The newest fitting profile is taken; without one, a profile is derived.
LookUp(q) ==
  LET r == request[q]
      fitting == {i \in DOMAIN profiles : Fits(r, profiles[i])} IN
  /\ q = "recommendation" /\ r.at = "look"
  /\ IF fitting # {}
       THEN request' = [request EXCEPT ![q] = NoRequest] /\ CreateRun(Latest(fitting), r.since)
       ELSE request' = [request EXCEPT ![q].at = "number"] /\ UNCHANGED runVars
  /\ UNCHANGED <<input, changes, profiles>>

\* The profile serves the search, whose own story is in JobSearch.
LookUpForSearch(q) ==
  /\ q = "search" /\ request[q].at = "look"
  /\ request' = [request EXCEPT ![q] =
       IF \E i \in DOMAIN profiles : FitsSearch(@, profiles[i]) THEN NoRequest ELSE [@ EXCEPT !.at = "reports"]]
  /\ UNCHANGED <<input, changes, profiles, runVars>>

\* A recommendation reads what it will retire; both read the last number.
ReadNumber(q) ==
  /\ request[q].at = "number" /\ Len(profiles) < MaxProfiles
  /\ request' = [request EXCEPT ![q].next = Len(profiles) + 1, ![q].at = "derive",
                                ![q].fresh = IF q = "search" THEN {} ELSE Fresh]
  /\ UNCHANGED <<input, changes, profiles, runVars>>

Derived(r) == [cv |-> r.cv, preference |-> r.preference, reports |-> r.reports, fresh |-> TRUE]

\* The second of two that chose one number fails on the unique constraint.
NumberFree(r) == r.next = Len(profiles) + 1

\* The profile is inserted, and those that were found fresh are retired.
Derive(q) ==
  LET r == request[q]
      kept == [i \in DOMAIN profiles |->
                 IF i \in r.fresh THEN [profiles[i] EXCEPT !.fresh = FALSE] ELSE profiles[i]]
  IN
  /\ q = "recommendation" /\ r.at = "derive"
  /\ request' = [request EXCEPT ![q] = NoRequest]
  /\ IF NumberFree(r)
       THEN profiles' = Append(kept, Derived(r)) /\ CreateRun(r.next, r.since)
       ELSE UNCHANGED <<profiles, runVars>>
  /\ UNCHANGED <<input, changes>>

\* A search retires nothing.
DeriveForSearch(q) ==
  LET r == request[q] IN
  /\ q = "search" /\ r.at = "derive"
  /\ request' = [request EXCEPT ![q] = NoRequest]
  /\ profiles' = IF NumberFree(r) THEN Append(profiles, Derived(r)) ELSE profiles
  /\ UNCHANGED <<input, changes, runVars>>
-----------------------------------------------------------------------------
(* The run.                                                                *)

\* The message may be in the queue although the commit of "published" is lost:
\* the beat then publishes again.
Publish ==
  /\ run.status # None /\ published < MaxMessages
  /\ queue' = queue + 1 /\ published' = published + 1
  /\ UNCHANGED <<profileVars, run, worker, matches, feedback>>

\* Only a completed run is left alone; a failed one is executed again.
Take(w) ==
  /\ worker[w].at = "idle" /\ queue > 0
  /\ queue' = queue - 1
  /\ IF run.status = "completed"
       THEN UNCHANGED <<run, worker>>
       ELSE /\ run' = [run EXCEPT !.status = "processing"]
            /\ worker' = [worker EXCEPT ![w].at = "rank"]
  /\ UNCHANGED <<profileVars, published, matches, feedback>>

\* DELETE takes the matches its snapshot shows.
Score(w) ==
  /\ worker[w].at = "rank"
  /\ worker' = [worker EXCEPT ![w] = [at |-> "store", replaced |-> matches]]
  /\ UNCHANGED <<profileVars, run, queue, published, matches, feedback>>

\* The new matches and "completed" are committed with the deletion, which takes
\* the feedback on the old matches along (ON DELETE CASCADE); matches of another
\* execution committed in between have the ranks already.
Store(w) ==
  /\ worker[w].at = "store"
  /\ IF matches # worker[w].replaced
       THEN /\ worker' = [worker EXCEPT ![w] = [at |-> "failing", replaced |-> 0]]
            /\ UNCHANGED <<run, matches, feedback>>
       ELSE /\ matches' = IF matches = 1 THEN 2 ELSE 1
            /\ feedback' = FALSE
            /\ run' = [run EXCEPT !.status = "completed"]
            /\ worker' = [worker EXCEPT ![w] = [at |-> "done", replaced |-> 0]]
  /\ UNCHANGED <<profileVars, queue, published>>

\* An exception of the execution.
Raise(w) ==
  /\ worker[w].at \in {"rank", "store"}
  /\ worker' = [worker EXCEPT ![w] = [at |-> "failing", replaced |-> 0]]
  /\ UNCHANGED <<profileVars, run, queue, published, matches, feedback>>

Fail(w) ==
  /\ worker[w].at = "failing"
  /\ run' = [run EXCEPT !.status = "failed"]
  /\ worker' = [worker EXCEPT ![w].at = "done"]
  /\ UNCHANGED <<profileVars, queue, published, matches, feedback>>

\* The message is acknowledged when the task has returned or raised.
Acknowledge(w) ==
  /\ worker[w].at = "done"
  /\ worker' = [worker EXCEPT ![w] = Resting]
  /\ UNCHANGED <<profileVars, run, queue, published, matches, feedback>>

\* The process dies; late acknowledgement gives the message to another one.
Crash(w) ==
  /\ worker[w].at # "idle"
  /\ queue' = queue + 1
  /\ worker' = [worker EXCEPT ![w] = Resting]
  /\ UNCHANGED <<profileVars, run, published, matches, feedback>>

\* The user rates a match of a completed run.
GiveFeedback ==
  /\ run.status = "completed"
  /\ feedback' = TRUE
  /\ UNCHANGED <<profileVars, run, queue, published, worker, matches>>
-----------------------------------------------------------------------------
RecommendationNext ==
  \/ ActivateVersion \/ ChangePreferences \/ ReportReady
  \/ \E q \in Requests : ReadVersion(q) \/ ReadPreference(q) \/ ReadReports(q) \/ LookUp(q)
                         \/ LookUpForSearch(q) \/ ReadNumber(q) \/ Derive(q)
                         \/ DeriveForSearch(q)
  \/ Publish
  \/ \E w \in Workers : Take(w) \/ Score(w) \/ Store(w) \/ Raise(w) \/ Fail(w)
                         \/ Acknowledge(w) \/ Crash(w)
  \/ GiveFeedback
-----------------------------------------------------------------------------
(* Properties.                                                             *)

\* FR-REC-001: a recommendation is made for the user's present inputs: the
\* profile of the run is of the version active at the beginning of the request and
\* not derived from preferences or reports older than those of that moment,
\* whatever profile a search has left marked fresh in between.
RunIsCurrent ==
  run.status # None =>
    LET p == profiles[run.profile] IN
    /\ p.cv = run.since.cv
    /\ p.preference >= run.since.preference
    /\ p.reports >= run.since.ready[p.cv]
=============================================================================
