--------------------------- MODULE Recommendation ---------------------------
(***************************************************************************)
(* RecommendationService (src/matching/recommendation.service.ts) and what *)
(* getCards makes of it, as pure functions of profiles and of lists of     *)
(* candidates in the order in which the database returned them.            *)
(*                                                                         *)
(* A profile is [interests, bio, photos]: the list of interests or None    *)
(* (the column is nullable), whether there is a bio, how many photos.      *)
(***************************************************************************)
EXTENDS Integers, SequencesExt

CONSTANT None

\* Mutant: a list of interests that is missing counts as one shared interest.
SharedOrOne(current, candidate) ==
    IF current = None \/ candidate = None
    THEN 1
    ELSE Len(SelectSeq(candidate, LAMBDA i : Contains(current, i)))

\* How many of the candidate's interests are among the user's own: one that the
\* candidate lists twice counts twice.
Shared(current, candidate) ==
    IF current = None \/ candidate = None
    THEN 0
    ELSE Len(SelectSeq(candidate, LAMBDA i : Contains(current, i)))

CalculateScore(current, candidate) ==
    Shared(current.interests, candidate.interests) * 10
    + (IF candidate.bio THEN 5 ELSE 0) + candidate.photos * 3

\* Mutant: the best come last.
Ascending(score, i, j) == score[i] < score[j] \/ (score[i] = score[j] /\ i < j)

\* sort((a, b) => b.score - a.score), which is stable: position i goes before j.
GoesBefore(score, i, j) == score[i] > score[j] \/ (score[i] = score[j] /\ i < j)

\* rankCandidates: list and score have the same domain.
RankCandidates(list, score) ==
    LET place(i) == 1 + Cardinality({j \in DOMAIN list : GoesBefore(score, j, i)})
    IN  [p \in DOMAIN list |-> list[CHOOSE i \in DOMAIN list : place(i) = p]]

\* What getCards returns: the first `limit' by rank, or of the list as it is
\* when the user has no profile to rank by.
CardsOf(list, score, hasProfile, limit) ==
    LET ranked == IF hasProfile THEN RankCandidates(list, score) ELSE list
    IN  SubSeq(ranked, 1, IF Len(ranked) < limit THEN Len(ranked) ELSE limit)

\* The controller's limit || 10: no limit, one that is no number and 0 are all 0.
LimitOf(query) == IF query = 0 THEN 10 ELSE query

=============================================================================
