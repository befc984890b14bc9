----------------------------- MODULE JobRanking -----------------------------
(***************************************************************************)
(* The ranking of indexed postings (ProductJobSearchService                *)
(* _hybrid_candidates, _score and indexed_jobs): two retrievals, fused by  *)
(* reciprocal rank, a score that mixes the fusion with what is known of    *)
(* the candidate, and the pages of the list.                               *)
(*                                                                         *)
(* A posting is what the score reads of it.  Shares and scores are whole   *)
(* numbers out of One; the age of a posting is an index into Freshness,    *)
(* the values of the exponential decay.                                    *)
(***************************************************************************)
EXTENDS Integers, FiniteSets, Sequences

CONSTANTS
  Signals,      \* what a posting may be
  Profiles,     \* what may be known of the candidate
  Freshness,    \* freshness by age
  Pool,         \* ids of the postings the filters leave
  TopK,         \* postings a retrieval returns
  PageSize,     \* limit
  One           \* the scale of the scores

\* The query's share, the freshness and the quality of a source are shares.
ASSUME RankingAssumption ==
  /\ Pool \subseteq Nat /\ IsFiniteSet(Pool)
  /\ TopK \in Nat \ {0} /\ PageSize \in Nat \ {0} /\ One \in Nat \ {0}
  /\ \A a \in DOMAIN Freshness : Freshness[a] \in 0 .. One
  /\ \A s \in Signals : /\ s.query \in 0 .. One /\ s.source \in 0 .. One
                        /\ s.age \in DOMAIN Freshness /\ IsFiniteSet(s.skills)
  /\ \A p \in Profiles : IsFiniteSet(p.preferences) /\ p.interview \in Seq(Nat)

VARIABLES
  offer,      \* the postings; their ids are in the order of created_at
  profile,    \* the profile of the candidate; nothing is known of a visitor
  lexical,    \* the ids the full-text query found, best first
  vector,     \* the ids the embeddings found, best first
  ranked,     \* the ranking
  page        \* the last page shown

rankingVars == <<offer, profile, lexical, vector, ranked, page>>

IdsOf(s) == {s[i] : i \in DOMAIN s}
PositionIn(j, s) == CHOOSE i \in DOMAIN s : s[i] = j

Lists ==
  {s \in UNION {[1 .. n -> Pool] : n \in 0 .. TopK} : \A i, k \in DOMAIN s : i # k => s[i] # s[k]}

Visitor == [skills |-> {}, preferences |-> {}, interview |-> <<>>]

RankingTypeOK ==
  /\ offer \in [Pool -> Signals] \union {<<>>}
  /\ profile \in Profiles \union {Visitor}
  /\ lexical \in Lists /\ vector \in Lists
  /\ IdsOf(ranked) \subseteq Pool /\ Len(ranked) <= Cardinality(Pool)
  /\ IdsOf(page) \subseteq IdsOf(ranked) /\ Len(page) <= PageSize

Reciprocal(j, s) == IF j \in IdsOf(s) THEN One \div (60 + PositionIn(j, s)) ELSE 0

LesserOf(a, b) == IF a < b THEN a ELSE b
GreaterOf(a, b) == IF a > b THEN a ELSE b

Share(part, whole) == (One * Cardinality(part)) \div GreaterOf(Cardinality(whole), 1)

Total(s) == LET sum[i \in 0 .. Len(s)] == IF i = 0 THEN 0 ELSE sum[i - 1] + s[i]
            IN sum[Len(s)]

\* _interview_readiness: the mean of the scores on the scale the largest suggests.
Readiness(s) ==
  LET largest == CHOOSE v \in IdsOf(s) : \A w \in IdsOf(s) : w <= v
      scale == IF largest <= 1 THEN 1 ELSE IF largest <= 5 THEN 5
               ELSE IF largest <= 10 THEN 10 ELSE 100
  IN IF s = <<>> THEN 0
     ELSE Total([i \in DOMAIN s |-> LesserOf(One, (One * s[i]) \div scale)]) \div Len(s)

\* _preference_signals: the share of the configured preferences the posting meets.
Met(j) == {p \in profile.preferences : p \in offer[j].meets}
PreferenceMatch(j) == Share(Met(j), profile.preferences)

Overlap(j) == Share(offer[j].skills \intersect profile.skills, offer[j].skills)

SupportedFit(j) ==
  (Readiness(profile.interview)
     * GreaterOf(Overlap(j), IF "role" \in Met(j) THEN One ELSE 0)) \div One

\* The weighted mean of the inputs there are.
Weighted(inputs) ==
  Total([i \in DOMAIN inputs |-> inputs[i][1] * inputs[i][2]])
    \div Total([i \in DOMAIN inputs |-> inputs[i][2]])

Rerank(j) ==
  Weighted(<< <<offer[j].query, 35>> >>
    \o (IF offer[j].skills # {} /\ profile.skills # {} THEN << <<Overlap(j), 35>> >> ELSE <<>>)
    \o (IF profile.preferences # {} THEN << <<PreferenceMatch(j), 20>> >> ELSE <<>>)
    \o (IF profile.interview # <<>> THEN << <<SupportedFit(j), 10>> >> ELSE <<>>))

Fusion(j) == LesserOf(One, 30 * (Reciprocal(j, lexical) + Reciprocal(j, vector)))

Final(j) ==
  (35 * Fusion(j) + 30 * Rerank(j) + 20 * Freshness[offer[j].age] + 15 * offer[j].source) \div 100

RankingInit ==
  /\ offer = <<>> /\ profile = Visitor
  /\ lexical = <<>> /\ vector = <<>>
  /\ ranked = <<>> /\ page = <<>>
-----------------------------------------------------------------------------
\* Fault: the sign of the score is lost in the sort key.
Ascending(i, j) == Final(i) < Final(j) \/ (Final(i) = Final(j) /\ i < j)

\* The sort key: the score, then the id.
Above(i, j) == Final(i) > Final(j) \/ (Final(i) = Final(j) /\ i < j)

\* The postings of a set, best first.
Sorted(S) ==
  LET above(j) == {i \in S : Above(i, j)}
  IN [p \in 1 .. Cardinality(S) |-> CHOOSE j \in S : Cardinality(above(j)) = p - 1]

Found == IdsOf(lexical) \union IdsOf(vector)

\* The two retrievals from an index that holds any postings.
Retrieve ==
  /\ offer = <<>>
  /\ offer' \in [Pool -> Signals] /\ profile' \in Profiles
  /\ lexical' \in Lists /\ vector' \in Lists
  /\ UNCHANGED <<ranked, page>>

\* Only what one of them found is scored.
HybridCandidates ==
  /\ ranked = <<>> /\ Found # {}
  /\ ranked' = Sorted(Found)
  /\ UNCHANGED <<offer, profile, lexical, vector, page>>

Upto(s, n) == SubSeq(s, 1, LesserOf(n, Len(s)))

IndexedJobs ==
  /\ ranked # <<>> /\ page = <<>>
  /\ page' = Upto(ranked, PageSize)
  /\ UNCHANGED <<offer, profile, lexical, vector, ranked>>

\* The cursor is the time of the last posting of the page before; what is older keeps its
\* order.
NextPage ==
  LET older == {j \in IdsOf(ranked) : j < page[Len(page)]} IN
  /\ page # <<>> /\ older # {}
  /\ page' = Upto(Sorted(older), PageSize)
  /\ UNCHANGED <<offer, profile, lexical, vector, ranked>>

RankingNext == Retrieve \/ HybridCandidates \/ IndexedJobs \/ NextPage
-----------------------------------------------------------------------------
\* One posting is at least as good as another in every signal the score reads.
\* A posting that names no skills is not comparable with one that does: its mean
\* leaves the skills out.
Dominates(i, j) ==
  /\ (offer[i].skills = {}) = (offer[j].skills = {})
  /\ offer[i].query >= offer[j].query
  /\ Overlap(i) >= Overlap(j)
  /\ Met(j) \subseteq Met(i)
  /\ Freshness[offer[i].age] >= Freshness[offer[j].age]
  /\ offer[i].source >= offer[j].source
  /\ Fusion(i) >= Fusion(j)

\* FR-JOB-007: although the inputs of the mean come and go with what is known, a
\* posting is never placed below one that is no better in any signal, unless the
\* scores are equal, and every score is a share.
DominanceRespected ==
  /\ \A j \in IdsOf(ranked) : Final(j) \in 0 .. One
  /\ \A p, q \in DOMAIN ranked :
       p < q /\ Dominates(ranked[q], ranked[p]) => Final(ranked[p]) = Final(ranked[q])
=============================================================================
