----------------------------- MODULE MCMatching -----------------------------
(***************************************************************************)
(* The components that find and rank jobs and talk to providers, for TLC:  *)
(* the catalogue of postings, the answers of the search provider, the      *)
(* ranking, recommendations and applications; provider calls, and the      *)
(* sessions of live interviews.  They share no state here: a behaviour is  *)
(* one of the component "part", and the variables of the others keep their *)
(* value.                                                                  *)
(***************************************************************************)
EXTENDS JobCatalog, ProviderSearch, JobRanking, Recommendation, Application,
        ProviderCalls, SessionLimiter, RealtimeStream

VARIABLE part

CONSTANTS p1, s1   \* a place and a skill

\* A remote posting with a place and an open salary, and one that leaves things unsaid.
MCItems == {[place |-> p1, mode |-> "remote", low |-> 1, high |-> Null, currency |-> "VND", skills |-> {s1}],
            [place |-> Null, mode |-> "unknown", low |-> -1, high |-> 2, currency |-> "VND", skills |-> {}]}
MCFilters == {f \in [verified : BOOLEAN, places : {{}, {p1}}, modes : {{}, {"remote"}},
                     currency : {Null, "VND"}, low : {Null, 1, 2}, high : {Null, 1, 2},
                     skills : {{}, {s1}}] :
                /\ (f.low # Null \/ f.high # Null) => f.currency # Null
                /\ f.low # Null /\ f.high # Null => f.low <= f.high
                /\ f.verified => f.modes = {} /\ f.low = Null
                /\ f.skills # {} => f.places = {} /\ f.currency = Null
                /\ f.places # {} => f.low = Null /\ f.modes = {}}

\* The page of a posting as it is, moved to a page that says it is closed, and moved to a
\* host that is blocked.
MCHome == [host |-> <<"jobs", "vn">>, path |-> 1]
Moved == [host |-> <<"jobs", "vn">>, path |-> 2]
Blocked == [host |-> <<"www", "ads", "vn">>, path |-> 1]
MCAllowed == {<<"vn">>}
MCBlocked == {<<"ads", "vn">>}
Page(words, closed) == [to |-> Nowhere, code |-> 200, html |-> TRUE, closed |-> closed, words |-> words]
To(address) == [to |-> address, code |-> 302, html |-> FALSE, closed |-> FALSE, words |-> {}]
MCWebs == {(MCHome :> Page({"dev", "acme"}, FALSE)),
           (MCHome :> To(Moved)) @@ (Moved :> Page({"dev", "acme", "go"}, TRUE)),
           (MCHome :> To(Blocked)) @@ (Blocked :> Page({"dev", "acme"}, FALSE))}

MCSalaries == {[low |-> 1, high |-> 2, currency |-> 1], [low |-> 2, high |-> 1, currency |-> Missing]}

MCSignals == {[query |-> q, skills |-> s, meets |-> m, age |-> a, source |-> 300 + 200 * a] :
    q \in {0, 1000}, s \in {{1}, {1, 2}}, m \in {{}, {"role"}, {"role", "place"}}, a \in {0, 1}}
MCProfiles == {[skills |-> {}, preferences |-> {}, interview |-> <<>>],
               [skills |-> {1}, preferences |-> {"role", "place"}, interview |-> <<>>],
               [skills |-> {1}, preferences |-> {"place"}, interview |-> <<3, 4>>]}
MCFreshness == [a \in {0, 1} |-> IF a = 0 THEN 1000 ELSE 368]

Parts == {"catalogue", "answers", "ranking", "recommendation", "application", "calls", "limiter",
          "stream"}

allVars == <<part, catalogueVars, searchVars, rankingVars, recommendationVars, applicationVars,
             providerVars, limiterVars, streamVars>>

\* Nothing tells the CV versions apart at first: one of them is the active one.  (The last
\* conjunct makes TLC compute the values, which it would otherwise keep as expressions.)
Init ==
  /\ part \in Parts
  /\ CatalogueInit /\ AnswerInit /\ RankingInit /\ RecommendationInit /\ ApplicationInit
  /\ ProviderInit /\ LimiterInit /\ StreamInit
  /\ input.cv = "v1"
  /\ allVars = allVars

\* All components but p stand still.
Only(p) ==
  /\ UNCHANGED part
  /\ IF p = "catalogue" THEN TRUE ELSE UNCHANGED catalogueVars
  /\ IF p = "answers" THEN TRUE ELSE UNCHANGED searchVars
  /\ IF p = "ranking" THEN TRUE ELSE UNCHANGED rankingVars
  /\ IF p = "recommendation" THEN TRUE ELSE UNCHANGED recommendationVars
  /\ IF p = "application" THEN TRUE ELSE UNCHANGED applicationVars
  /\ IF p = "calls" THEN TRUE ELSE UNCHANGED providerVars
  /\ IF p = "limiter" THEN TRUE ELSE UNCHANGED limiterVars
  /\ IF p = "stream" THEN TRUE ELSE UNCHANGED streamVars

Next ==
  \/ part = "catalogue" /\ CatalogueNext /\ Only("catalogue")
  \/ part = "answers" /\ AnswerNext /\ Only("answers")
  \/ part = "ranking" /\ RankingNext /\ Only("ranking")
  \/ part = "recommendation" /\ RecommendationNext /\ Only("recommendation")
  \/ part = "application" /\ ApplicationNext /\ Only("application")
  \/ part = "calls" /\ ProviderNext /\ Only("calls")
  \/ part = "limiter" /\ LimiterNext /\ Only("limiter")
  \/ part = "stream" /\ StreamNext /\ Only("stream")

Spec == Init /\ [][Next]_allVars

\* What tells two states of a behaviour apart: the variables of the others never change.
Changing == CASE part = "catalogue" -> <<part, catalogueVars>>
              [] part = "answers" -> <<part, searchVars>>
              [] part = "ranking" -> <<part, rankingVars>>
              [] part = "recommendation" -> <<part, recommendationVars>>
              [] part = "application" -> <<part, applicationVars>>
              [] part = "calls" -> <<part, providerVars>>
              [] part = "limiter" -> <<part, limiterVars>>
              [] part = "stream" -> <<part, streamVars>>
-----------------------------------------------------------------------------
\* Every variable of the component that runs keeps its type.
TypeOK ==
  CASE part = "catalogue" -> CatalogueTypeOK
    [] part = "answers" -> AnswerTypeOK
    [] part = "ranking" -> RankingTypeOK
    [] part = "recommendation" -> RecommendationTypeOK
    [] part = "application" -> ApplicationTypeOK
    [] part = "calls" -> ProviderTypeOK
    [] part = "limiter" -> LimiterTypeOK
    [] part = "stream" -> StreamTypeOK

\* FR-JOB-002, FR-JOB-003, FR-JOB-006, FR-JOB-011, FR-JOB-012: what is shown of a posting
\* has a source, was verified and is not withdrawn, and every way to list postings gives
\* the same ones.
PostingsAreVouchedFor ==
  CASE part = "catalogue" -> FiltersAgree /\ ListedIsVouchedFor
    [] part = "answers" -> ProvenanceKept
    [] OTHER -> TRUE

\* FR-JOB-007: see DominanceRespected.
RankingIsFair == part = "ranking" => DominanceRespected

\* FR-REC-001: see RunIsCurrent.
RecommendationsAreCurrent == part = "recommendation" => RunIsCurrent

\* FR-JOB-010: see HistoryIsOneStory.
ApplicationsAreOneStory == part = "application" => HistoryIsOneStory

\* NFR-AVL-004: calls and sessions of a provider are counted, and given back, once.
LimitsAreKept ==
  CASE part = "calls" -> CallsAccounted
    [] part = "limiter" -> LimitHolds
    [] OTHER -> TRUE

\* NFR-AVL-005: see TranscriptKept.
SpeechIsKept == part = "stream" => TranscriptKept
=============================================================================
