-------------------------------- MODULE Cards --------------------------------
(***************************************************************************)
(* Matching with the scores that RecommendationService computes: the cards *)
(* of a request as the list that getCards returns.                         *)
(***************************************************************************)
EXTENDS Matching, Recommendation

CONSTANTS
    Card,           \* the profile of each user, as Recommendation sees it
    Query           \* the limit in the query of GET matching/cards, 0 for none

ASSUME QueryAssumption == Limit = LimitOf(Query)
ASSUME CardAssumption ==
    Score = [v \in Users |-> [w \in Users |-> CalculateScore(Card[v], Card[w])]]

\* The list getCards returns to v for candidates in the order q.
Dealt(v, q) ==
    CardsOf(q, [i \in DOMAIN q |-> Score[v][q[i]]], v \in profiles, Limit)

\* In whatever order the database returns the candidates, the cards are a choice
\* that DealCards allows: no candidate twice, as many as asked for if there are as
\* many, none left out that scores better than one dealt, best first; and
\* candidates of equal score keep the order in which they came.
CardsRanked ==
    \A k \in Deals : deal[k].pc = "fetched" =>
        \A q \in SetToSeqs(deal[k].cards) :
            LET v == deal[k].user
                list == Dealt(v, q)
                T == {list[i] : i \in DOMAIN list}
                came(w) == CHOOSE i \in DOMAIN q : q[i] = w
            IN  /\ T \subseteq deal[k].cards /\ Cardinality(T) = Len(list)
                /\ Len(list) <= Limit /\ (Len(list) = Limit \/ T = deal[k].cards)
                /\ v \in profiles =>
                    /\ Best(v, deal[k].cards, T)
                    /\ \A i, j \in DOMAIN list : i < j =>
                        \/ Score[v][list[i]] > Score[v][list[j]]
                        \/ /\ Score[v][list[i]] = Score[v][list[j]]
                           /\ came(list[i]) < came(list[j])

=============================================================================
