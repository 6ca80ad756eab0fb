--------------------------- MODULE MatchingProofs ---------------------------
(***************************************************************************)
(* Proofs about Matching, for every set of users and of requests, every    *)
(* limit and scoring, and with any of the repository calls failing.        *)
(*                                                                         *)
(* The argument for NoMissedMatch: a request that ended unmatched had      *)
(* saved its swipe before it looked for the other one (Progress), so of    *)
(* two mutual requests the one that looked last found the other's row, and *)
(* they are not both unmatched (NotBothUnmatched).                         *)
(*                                                                         *)
(* The argument for CardsRanked: later positions have more candidates      *)
(* ahead of them (AheadGrows), so each place is taken by one position      *)
(* (PlacesAreTaken), and RankCandidates is a permutation in order.         *)
(***************************************************************************)
EXTENDS Cards, FiniteSetTheorems, TLAPS

Labels == {"new", "save", "find", "match", "left", "unmatched", "matched", "failed"}

\* What the label of a request says about its rows.
Progress ==
    \A r \in Swipes :
        /\ call[r].swiper # call[r].swiped
        /\ pc[r] \in {"find", "match", "unmatched", "matched"}
                => r \in swipeRows /\ call[r].right
        /\ pc[r] \in {"new", "save"} => r \notin swipeRows
        /\ pc[r] = "left" => ~call[r].right
        /\ pc[r] = "match" => Reciprocal(r) # {}
        /\ pc[r] = "matched" => r \in matchRows

\* A match joins two users each of whom has a stored right swipe on the other.
MatchSound ==
    \A r \in matchRows : r \in swipeRows /\ Reciprocal(r) # {}

NotBothUnmatched ==
    \A r, s \in Swipes :
        Mutual(r, s) => ~(pc[r] = "unmatched" /\ pc[s] = "unmatched")

\* What a getCards request holds: the ids it excludes cover those swiped on
\* when it arrived, and its cards avoid them.
DealInv ==
    \A k \in Deals :
        /\ deal[k].before \subseteq SwipedBy(deal[k].user)
        /\ deal[k].pc \in {"excluded", "fetched", "done"}
                => deal[k].before \cup {deal[k].user} \subseteq deal[k].excluded
        /\ deal[k].pc \in {"fetched", "done"}
                => deal[k].cards \cap deal[k].excluded = {}
        /\ deal[k].pc \in {"new", "asked", "excluded"} => deal[k].cards = {}

IInv == TypeOK /\ Progress /\ MatchSound /\ NotBothUnmatched /\ DealInv

-----------------------------------------------------------------------------
LEMMA InitIInv == Init => IInv
<1> SUFFICES ASSUME Init PROVE IInv
  OBVIOUS
<1>1. TypeOK
  BY ViewersAssumption DEF Init, TypeOK, Deal, Calls
<1>2. Progress /\ MatchSound /\ NotBothUnmatched
  BY DEF Init, Progress, MatchSound, NotBothUnmatched, Calls
<1>3. DealInv
  BY DEF Init, DealInv, SwipedBy
<1> QED
  BY <1>1, <1>2, <1>3 DEF IInv

\* Types: the labels and rows of swipe requests, the records of getCards.
LEMMA StepType == TypeOK /\ [Next]_vars => TypeOK'
<1> SUFFICES ASSUME TypeOK, [Next]_vars PROVE TypeOK'
  OBVIOUS
<1>1. ASSUME NEW r \in Swipes, StartSwipe(r) \/ SwipeStep(r) \/ Fail(r)
      PROVE  TypeOK'
  BY <1>1 DEF TypeOK, StartSwipe, SwipeStep, SaveSwipe, FindReciprocal,
              SaveMatch, Fail, Goto
<1>2. ASSUME NEW k \in Deals, AskCards(k) \/ ReadSwiped(k) PROVE TypeOK'
  <2>1. SwipedBy(deal[k].user) \subseteq Users
    BY DEF TypeOK, SwipedBy, Calls
  <2> DEFINE d == deal[k]
  <2>2. d \in Deal
    BY DEF TypeOK
  <2>3. CASE AskCards(k)
    <3>1. deal' = [deal EXCEPT ![k] = [d EXCEPT !.pc = "asked",
                                                !.before = SwipedBy(d.user)]]
      BY <2>3 DEF AskCards
    <3>2. [d EXCEPT !.pc = "asked", !.before = SwipedBy(d.user)] \in Deal
      BY <2>1, <2>2 DEF Deal
    <3> HIDE DEF d
    <3> QED
      BY <2>3, <3>1, <3>2 DEF TypeOK, AskCards
  <2>4. CASE ReadSwiped(k)
    <3>1. deal' = [deal EXCEPT ![k] = [d EXCEPT !.pc = "excluded",
                                !.excluded = {d.user} \cup SwipedBy(d.user)]]
      BY <2>4 DEF ReadSwiped
    <3>2. [d EXCEPT !.pc = "excluded",
                    !.excluded = {d.user} \cup SwipedBy(d.user)] \in Deal
      BY <2>1, <2>2 DEF Deal
    <3> HIDE DEF d
    <3> QED
      BY <2>4, <3>1, <3>2 DEF TypeOK, ReadSwiped
  <2> QED
    BY <1>2, <2>3, <2>4
<1>3. ASSUME NEW k \in Deals, FetchCandidates(k) \/ DealCards(k) PROVE TypeOK'
  <2> DEFINE d == deal[k]
  <2>1. d \in Deal /\ profiles \subseteq Users
    BY DEF TypeOK
  <2>2. PICK S \in SUBSET Users, l \in {"fetched", "done"} :
          deal' = [deal EXCEPT ![k] = [d EXCEPT !.pc = l, !.cards = S]]
    <3>1. CASE FetchCandidates(k)
      <4>1. PICK S \in SUBSET (profiles \ deal[k].excluded) :
              deal' = [deal EXCEPT ![k].pc = "fetched", ![k].cards = S]
        BY <3>1 DEF FetchCandidates
      <4>2. S \in SUBSET Users
        BY <2>1
      <4> QED
        BY <4>1, <4>2
    <3>2. CASE DealCards(k)
      <4>1. PICK T \in SUBSET deal[k].cards :
              deal' = [deal EXCEPT ![k].pc = "done", ![k].cards = T]
        BY <3>2 DEF DealCards
      <4>2. T \in SUBSET Users
        BY <2>1 DEF Deal
      <4> QED
        BY <4>1, <4>2
    <3> QED
      BY <1>3, <3>1, <3>2
  <2>3. [d EXCEPT !.pc = l, !.cards = S] \in Deal
    BY <2>1 DEF Deal
  <2>4. UNCHANGED <<pc, call, swipeRows, matchRows, profiles>>
    BY <1>3 DEF FetchCandidates, DealCards
  <2> HIDE DEF d
  <2> QED
    BY <2>2, <2>3, <2>4 DEF TypeOK
<1>4. ASSUME NEW v \in Users, CreateProfile(v) PROVE TypeOK'
  BY <1>4 DEF TypeOK, CreateProfile
<1>5. CASE UNCHANGED vars
  BY <1>5 DEF TypeOK, vars
<1> QED
  BY <1>1, <1>2, <1>3, <1>4, <1>5 DEF Next

-----------------------------------------------------------------------------
(* The inductive invariant.                                                 *)

\* Rows are only added, so a reciprocal swipe stays one.
LEMMA RowsGrow ==
    ASSUME TypeOK, [Next]_vars
    PROVE  /\ call' = call
           /\ swipeRows \subseteq swipeRows' /\ matchRows \subseteq matchRows'
           /\ \A r \in Swipes : Reciprocal(r) \subseteq Reciprocal(r)'
           /\ \A v \in Users : SwipedBy(v) \subseteq SwipedBy(v)'
<1>1. /\ call' = call
      /\ swipeRows \subseteq swipeRows' /\ matchRows \subseteq matchRows'
  BY DEF Next, vars, StartSwipe, SwipeStep, SaveSwipe, FindReciprocal, SaveMatch,
         Fail, AskCards, ReadSwiped, FetchCandidates, DealCards, CreateProfile
<1> QED
  BY <1>1 DEF Reciprocal, Mutual, SwipedBy

\* The steps of one swipe request.
LEMMA SwipeStepInv ==
    ASSUME IInv, NEW r \in Swipes, StartSwipe(r) \/ SwipeStep(r) \/ Fail(r)
    PROVE  Progress' /\ MatchSound' /\ NotBothUnmatched' /\ deal' = deal
<1>1. /\ pc \in [Swipes -> Labels] /\ swipeRows \subseteq Swipes
      /\ matchRows \subseteq Swipes
      /\ Progress /\ MatchSound /\ NotBothUnmatched
      /\ [Next]_vars
  BY DEF IInv, TypeOK, Labels, Next
<1>2. /\ call' = call
      /\ swipeRows \subseteq swipeRows' /\ matchRows \subseteq matchRows'
      /\ \A s \in Swipes : Reciprocal(s) \subseteq Reciprocal(s)'
      /\ \A s, q \in Swipes : Mutual(s, q)' <=> Mutual(s, q)
  BY <1>1, RowsGrow DEF IInv, Mutual
<1>3. \A s \in Swipes \ {r} : /\ pc'[s] = pc[s]
                              /\ s \in swipeRows' <=> s \in swipeRows
                              /\ s \in matchRows' <=> s \in matchRows
  BY <1>1 DEF StartSwipe, SwipeStep, SaveSwipe, FindReciprocal, SaveMatch, Fail, Goto
<1>4. deal' = deal
  BY DEF StartSwipe, SwipeStep, SaveSwipe, FindReciprocal, SaveMatch, Fail
<1>5. CASE StartSwipe(r)
  BY <1>1, <1>2, <1>4, <1>5
     DEF StartSwipe, Goto, Progress, MatchSound, NotBothUnmatched, Mutual, Reciprocal
<1>6. CASE SaveSwipe(r)
  <2>1. pc' = [pc EXCEPT ![r] = IF call[r].right THEN "find" ELSE "left"]
    BY <1>6 DEF SaveSwipe, Goto
  <2>2. r \in swipeRows' /\ matchRows' = matchRows
    BY <1>6 DEF SaveSwipe
  <2> QED
    BY <1>1, <1>2, <1>3, <1>4, <2>1, <2>2 DEF Progress, MatchSound, NotBothUnmatched
<1>7. CASE FindReciprocal(r)
  <2>1. /\ pc[r] = "find" /\ UNCHANGED <<swipeRows, matchRows>>
        /\ pc' = [pc EXCEPT ![r] = IF Reciprocal(r) # {} THEN "match" ELSE "unmatched"]
    BY <1>7 DEF FindReciprocal, Goto
  <2>2. Progress' /\ MatchSound'
    BY <1>1, <1>2, <2>1 DEF Progress, MatchSound
  <2>3. ASSUME NEW s \in Swipes, Mutual(r, s) \/ Mutual(s, r),
               pc'[r] = "unmatched", pc[s] = "unmatched"
        PROVE  FALSE
    <3>1. s \in swipeRows /\ Mutual(r, s)
      BY <1>1, <2>3 DEF Progress, Mutual
    <3> QED
      BY <1>1, <2>1, <2>3, <3>1 DEF Reciprocal
  <2>4. ~Mutual(r, r)
    BY <1>1 DEF Progress, Mutual
  <2>5. NotBothUnmatched'
    BY <1>1, <1>2, <1>3, <2>3, <2>4 DEF NotBothUnmatched
  <2> QED
    BY <1>4, <2>2, <2>5
<1>8. CASE SaveMatch(r)
  <2>1. /\ pc[r] = "match" /\ matchRows' = matchRows \cup {r}
        /\ pc' = [pc EXCEPT ![r] = "matched"] /\ swipeRows' = swipeRows
    BY <1>8 DEF SaveMatch, Goto
  <2> QED
    BY <1>1, <1>2, <1>3, <1>4, <2>1 DEF Progress, MatchSound, NotBothUnmatched
<1>9. CASE Fail(r)
  <2>1. /\ pc' = [pc EXCEPT ![r] = "failed"]
        /\ matchRows' = matchRows \/ (pc[r] = "match" /\ matchRows' = matchRows \cup {r})
    BY <1>9 DEF Fail, Goto
  <2> QED
    BY <1>1, <1>2, <1>3, <1>4, <2>1 DEF Progress, MatchSound, NotBothUnmatched
<1> QED
  BY <1>5, <1>6, <1>7, <1>8, <1>9 DEF SwipeStep

\* The steps of one getCards request.
LEMMA DealStepInv ==
    ASSUME IInv, NEW k \in Deals,
           AskCards(k) \/ ReadSwiped(k) \/ FetchCandidates(k) \/ DealCards(k)
    PROVE  DealInv' /\ UNCHANGED <<pc, call, swipeRows, matchRows>>
<1>1. deal \in [Deals -> Deal] /\ DealInv
  BY DEF IInv, TypeOK
<1>2. UNCHANGED <<pc, call, swipeRows, matchRows>>
  BY DEF AskCards, ReadSwiped, FetchCandidates, DealCards
<1>3. \A v : SwipedBy(v)' = SwipedBy(v)
  BY <1>2 DEF SwipedBy
<1>4. \A j \in Deals \ {k} : deal'[j] = deal[j]
  BY <1>1 DEF AskCards, ReadSwiped, FetchCandidates, DealCards
<1> DEFINE d == deal[k]
           e == deal'[k]
<1>5. SUFFICES /\ e.before \subseteq SwipedBy(e.user)
               /\ e.pc \in {"excluded", "fetched", "done"}
                      => e.before \cup {e.user} \subseteq e.excluded
               /\ e.pc \in {"fetched", "done"} => e.cards \cap e.excluded = {}
               /\ e.pc \in {"new", "asked", "excluded"} => e.cards = {}
  BY <1>1, <1>2, <1>3, <1>4 DEF DealInv
<1>6. CASE AskCards(k)
  <2>1. d.pc = "new" /\ e = [d EXCEPT !.pc = "asked", !.before = SwipedBy(d.user)]
    BY <1>1, <1>6 DEF AskCards
  <2> QED
    BY <1>1, <2>1 DEF Deal, DealInv
<1>7. CASE ReadSwiped(k)
  <2>1. /\ d.pc = "asked"
        /\ e = [d EXCEPT !.pc = "excluded",
                         !.excluded = {d.user} \cup SwipedBy(d.user)]
    BY <1>1, <1>7 DEF ReadSwiped
  <2> QED
    BY <1>1, <2>1 DEF Deal, DealInv
<1>8. CASE FetchCandidates(k)
  <2>1. PICK S \in SUBSET (profiles \ d.excluded) :
          e = [d EXCEPT !.pc = "fetched", !.cards = S]
    BY <1>1, <1>8 DEF FetchCandidates
  <2>2. d.pc = "excluded"
    BY <1>8 DEF FetchCandidates
  <2> QED
    BY <1>1, <2>1, <2>2 DEF Deal, DealInv
<1>9. CASE DealCards(k)
  <2>1. PICK T \in SUBSET d.cards : e = [d EXCEPT !.pc = "done", !.cards = T]
    BY <1>1, <1>9 DEF DealCards
  <2>2. d.pc = "fetched"
    BY <1>9 DEF DealCards
  <2> QED
    BY <1>1, <2>1, <2>2 DEF Deal, DealInv
<1> QED
  BY <1>6, <1>7, <1>8, <1>9

LEMMA StepIInv == IInv /\ [Next]_vars => IInv'
<1> SUFFICES ASSUME IInv, [Next]_vars PROVE IInv'
  OBVIOUS
<1>1. TypeOK'
  BY StepType DEF IInv
<1>2. ASSUME NEW r \in Swipes, StartSwipe(r) \/ SwipeStep(r) \/ Fail(r)
      PROVE  IInv'
  <2>1. Progress' /\ MatchSound' /\ NotBothUnmatched' /\ deal' = deal
    BY <1>2, SwipeStepInv
  <2>2. DealInv'
    BY <2>1, RowsGrow DEF IInv, DealInv, TypeOK, Deal
  <2> QED
    BY <1>1, <2>1, <2>2 DEF IInv
<1>3. ASSUME UNCHANGED <<pc, call, swipeRows, matchRows>>, DealInv'
      PROVE  IInv'
  BY <1>1, <1>3 DEF IInv, Progress, MatchSound, NotBothUnmatched, Mutual, Reciprocal
<1>4. ASSUME NEW k \in Deals,
             AskCards(k) \/ ReadSwiped(k) \/ FetchCandidates(k) \/ DealCards(k)
      PROVE  IInv'
  BY <1>3, <1>4, DealStepInv
<1>5. CASE UNCHANGED vars \/ \E v \in Users : CreateProfile(v)
  <2>1. UNCHANGED <<pc, call, swipeRows, matchRows, deal>>
    BY <1>5 DEF vars, CreateProfile
  <2>2. DealInv'
    BY <2>1 DEF IInv, DealInv, SwipedBy
  <2> QED
    BY <1>3, <2>1, <2>2
<1> QED
  BY <1>2, <1>4, <1>5 DEF Next

LEMMA IInvHolds == Spec => []IInv
  BY InitIInv, StepIInv, PTL DEF Spec

-----------------------------------------------------------------------------
(* The theorems.                                                            *)

\* The labels, tables and requests of the service keep their types.
THEOREM TypeCorrect == Spec => []TypeOK
<1>1. IInv => TypeOK
  BY DEF IInv
<1> QED
  BY <1>1, IInvHolds, PTL

\* No interleaving of swipe requests overlooks a mutual liking.
THEOREM NoMissedMatchHolds == Spec => []NoMissedMatch
<1>1. IInv => NoMissedMatch
  <2> SUFFICES ASSUME IInv, NEW r \in swipeRows, NEW s \in swipeRows, Mutual(r, s),
                      pc[r] \notin {"find", "match", "failed"},
                      pc[s] \notin {"find", "match", "failed"}
               PROVE  /\ call[r].swiped \in MatchesOf(call[r].swiper)
                      /\ call[r].swiper \in MatchesOf(call[r].swiped)
    BY DEF NoMissedMatch
  <2>1. /\ r \in Swipes /\ s \in Swipes
        /\ pc[r] \in Labels /\ pc[s] \in Labels
        /\ call[r].right /\ call[s].right
    BY DEF IInv, TypeOK, Labels, Mutual
  <2>2. pc[r] \in {"unmatched", "matched"} /\ pc[s] \in {"unmatched", "matched"}
    BY <2>1 DEF IInv, Progress, Labels
  <2>3. PICK q \in {r, s} : q \in matchRows
    BY <2>1, <2>2 DEF IInv, NotBothUnmatched, Progress
  <2>4. Pair(q) = {call[r].swiper, call[r].swiped}
    BY <2>3 DEF Pair, Mutual
  <2>5. call[r].swiper \in Users /\ call[r].swiped \in Users
    BY <2>1 DEF IInv, TypeOK, Calls
  <2> QED
    BY <2>3, <2>4, <2>5 DEF MatchesOf
<1> QED
  BY <1>1, IInvHolds, PTL

\* No interleaving deals a user a card they had swiped before they asked.
THEOREM CardsExcludedHolds == Spec => []CardsExcluded
<1>1. IInv => CardsExcluded
  <2> SUFFICES ASSUME IInv, NEW k \in Deals
               PROVE  /\ deal[k].user \notin deal[k].cards
                      /\ deal[k].before \cap deal[k].cards = {}
    BY DEF CardsExcluded
  <2>1. deal[k].pc \in {"new", "asked", "excluded", "fetched", "done"}
    BY DEF IInv, TypeOK, Deal
  <2> QED
    BY <2>1 DEF IInv, DealInv
<1> QED
  BY <1>1, IInvHolds, PTL

\* The service implements MutualMatch: saving a right swipe is a like, saving
\* a match record matches two users who like each other.
THEOREM MutualMatchHolds == Spec => ImplementsMutualMatch
<1> DEFINE liked == {<<call[r].swiper, call[r].swiped>> :
                        r \in {s \in swipeRows : call[s].right}}
           matched == {Pair(r) : r \in matchRows}
           excused == {Pair(r) : r \in {s \in Swipes : pc[s] = "failed"}}
<1>1. Init => MM!Init
  BY DEF Init, MM!Init
<1>2. IInv /\ [Next]_vars => [MM!Next]_<<liked, matched, excused>>
  <2> SUFFICES ASSUME IInv, [Next]_vars
               PROVE  MM!Next \/ UNCHANGED <<liked, matched, excused>>
    OBVIOUS
  <2>1. call' = call
    BY RowsGrow DEF IInv
  <2>more. excused \subseteq excused'
    <3> SUFFICES ASSUME NEW s \in Swipes, pc[s] = "failed" PROVE pc'[s] = "failed"
      BY <2>1 DEF Pair
    <3> QED
      BY DEF Next, vars, StartSwipe, SwipeStep, SaveSwipe, FindReciprocal, SaveMatch,
             Fail, AskCards, ReadSwiped, FetchCandidates, DealCards, CreateProfile,
             Goto, IInv, TypeOK
  <2>2. ASSUME NEW r \in Swipes
        PROVE  /\ call[r].swiper \in Users /\ call[r].swiped \in Users
               /\ call[r].swiper # call[r].swiped
    BY DEF IInv, TypeOK, Calls, Progress
  <2>3. ASSUME NEW r \in Swipes, swipeRows' = swipeRows \cup {r}, matchRows' = matchRows
        PROVE  MM!Next
    <3>1. matched' = matched
      BY <2>1, <2>3 DEF Pair
    <3>2. CASE call[r].right
      <4>1. liked' = liked \cup {<<call[r].swiper, call[r].swiped>>}
        BY <2>1, <2>3, <3>2
      <4> QED
        BY <2>more, <2>2, <3>1, <4>1 DEF MM!Next, MM!Like
    <3>3. CASE ~call[r].right
      BY <2>more, <2>1, <2>3, <3>1, <3>3 DEF MM!Next
    <3> QED
      BY <3>2, <3>3
  <2>4. ASSUME NEW r \in Swipes, pc[r] = "match",
               matchRows' = matchRows \cup {r}, swipeRows' = swipeRows
        PROVE  MM!Next
    <3>1. r \in swipeRows /\ call[r].right /\ Reciprocal(r) # {}
      BY <2>4 DEF IInv, Progress
    <3>2. PICK s \in swipeRows : Mutual(r, s)
      BY <3>1 DEF Reciprocal
    <3>3. /\ <<call[r].swiper, call[r].swiped>> \in liked
          /\ <<call[r].swiped, call[r].swiper>> \in liked
      BY <3>1, <3>2 DEF Mutual
    <3>4. matched' = matched \cup {{call[r].swiper, call[r].swiped}} /\ liked' = liked
      BY <2>1, <2>4 DEF Pair
    <3> QED
      BY <2>more, <2>2, <3>3, <3>4 DEF MM!Next, MM!Match
  <2>5. ASSUME UNCHANGED <<swipeRows, matchRows>>
        PROVE  MM!Next
    BY <2>more, <2>1, <2>5 DEF Pair, MM!Next
  <2> QED
    BY <2>3, <2>4, <2>5
       DEF Next, vars, StartSwipe, SwipeStep, SaveSwipe, FindReciprocal, SaveMatch,
           Fail, AskCards, ReadSwiped, FetchCandidates, DealCards, CreateProfile
<1> QED
  BY <1>1, <1>2, IInvHolds, PTL DEF Spec, ImplementsMutualMatch, MM!Spec, MM!vars

-----------------------------------------------------------------------------
(* Ranking.  place(i) counts the positions that go before i, a strict total *)
(* order: distinct positions have distinct places, and so every place from  *)
(* 1 to n is taken.                                                         *)

\* The positions of 1..n that are ranked before i.
Ahead(n, score, i) == {j \in 1..n : GoesBefore(score, j, i)}

Place(n, score, i) == 1 + Cardinality(Ahead(n, score, i))

\* A position has fewer ahead of it than one that it goes before.
LEMMA AheadGrows ==
    ASSUME NEW n \in Nat, NEW score \in [1..n -> Int],
           NEW i \in 1..n, NEW k \in 1..n, GoesBefore(score, i, k)
    PROVE  Cardinality(Ahead(n, score, i)) < Cardinality(Ahead(n, score, k))
<1> DEFINE A == Ahead(n, score, i)
           B == Ahead(n, score, k)
<1>1. A \subseteq B /\ i \in B /\ i \notin A
  BY DEF Ahead, GoesBefore
<1>2. B \subseteq 1..n
  BY DEF Ahead
<1>3. IsFiniteSet(1..n)
  BY FS_Interval
<1> HIDE DEF A, B
<1>4. IsFiniteSet(B)
  BY <1>2, <1>3, FS_Subset
<1>5. IsFiniteSet(A) /\ Cardinality(A) <= Cardinality(B) /\ Cardinality(A) # Cardinality(B)
  BY <1>1, <1>4, FS_Subset
<1>6. Cardinality(A) \in Nat /\ Cardinality(B) \in Nat
  BY <1>4, <1>5, FS_CardinalityType
<1> QED
  BY <1>5, <1>6 DEF A, B

\* A place is one of the positions.
LEMMA PlaceType ==
    ASSUME NEW n \in Nat, NEW score \in [1..n -> Int], NEW i \in 1..n
    PROVE  Place(n, score, i) \in 1..n
<1> DEFINE A == Ahead(n, score, i)
           R == (1..n) \ {i}
<1>1. IsFiniteSet(1..n) /\ Cardinality(1..n) = n
  BY FS_Interval
<1>2. A \subseteq R
  BY DEF Ahead, GoesBefore
<1>3. IsFiniteSet(R) /\ Cardinality(R) = n - 1
  BY <1>1, FS_RemoveElement
<1> HIDE DEF A, R
<1>4. IsFiniteSet(A) /\ Cardinality(A) <= n - 1
  BY <1>2, <1>3, FS_Subset
<1>5. Cardinality(A) \in Nat
  BY <1>4, FS_CardinalityType
<1> QED
  BY <1>4, <1>5 DEF A, Place

\* The places are a permutation of the positions that keeps the order.
LEMMA PlacesAreTaken ==
    ASSUME NEW n \in Nat, NEW score \in [1..n -> Int]
    PROVE  /\ \A i, k \in 1..n : Place(n, score, i) = Place(n, score, k) => i = k
           /\ \A p \in 1..n : \E i \in 1..n : Place(n, score, i) = p
           /\ \A i, k \in 1..n :
                Place(n, score, i) < Place(n, score, k) => GoesBefore(score, i, k)
<1> DEFINE D == 1..n
           place == [i \in D |-> Place(n, score, i)]
<1>1. \A i, k \in D : GoesBefore(score, i, k) => Place(n, score, i) < Place(n, score, k)
  <2> SUFFICES ASSUME NEW i \in D, NEW k \in D, GoesBefore(score, i, k)
               PROVE  Place(n, score, i) < Place(n, score, k)
    OBVIOUS
  <2>1. Place(n, score, i) \in D /\ Place(n, score, k) \in D
    BY PlaceType
  <2>2. Cardinality(Ahead(n, score, i)) < Cardinality(Ahead(n, score, k))
    BY AheadGrows
  <2>3. \A j \in D : Cardinality(Ahead(n, score, j)) \in Nat
    <3> TAKE j \in D
    <3>1. IsFiniteSet(D)
      BY FS_Interval
    <3>2. IsFiniteSet(Ahead(n, score, j))
      BY <3>1, FS_Subset DEF Ahead
    <3> QED
      BY <3>2, FS_CardinalityType
  <2> QED
    BY <2>2, <2>3 DEF Place
<1>2. \A i, k \in D : i = k \/ GoesBefore(score, i, k) \/ GoesBefore(score, k, i)
  BY DEF GoesBefore
<1>3. \A i \in D : Place(n, score, i) \in D
  BY PlaceType
<1>4. \A i, k \in D : Place(n, score, i) = Place(n, score, k) => i = k
  BY <1>1, <1>2, <1>3
<1>5. place \in Injection(D, D)
  BY <1>3, <1>4 DEF Injection, IsInjective
<1>6. IsFiniteSet(D)
  BY FS_Interval
<1> HIDE DEF place
<1>7. place \in Surjection(D, D)
  BY <1>5, <1>6, FS_Injection
<1>8. \A p \in D : \E i \in D : Place(n, score, i) = p
  BY <1>7 DEF Surjection, place
<1>9. \A i, k \in D : Place(n, score, i) < Place(n, score, k) => GoesBefore(score, i, k)
  <2> SUFFICES ASSUME NEW i \in D, NEW k \in D, ~GoesBefore(score, i, k)
               PROVE  ~(Place(n, score, i) < Place(n, score, k))
    OBVIOUS
  <2>1. Place(n, score, i) \in Int /\ Place(n, score, k) \in Int
    BY <1>3
  <2>2. CASE i = k
    BY <2>1, <2>2
  <2>3. CASE GoesBefore(score, k, i)
    BY <1>1, <2>1, <2>3
  <2> QED
    BY <1>2, <2>2, <2>3
<1> QED
  BY <1>4, <1>8, <1>9

\* rankCandidates permutes the list it is given, neither losing nor repeating a
\* candidate, into the order of GoesBefore: best first, equals as they came.
THEOREM RankCandidatesSorts ==
    ASSUME NEW n \in Nat, NEW score \in [1..n -> Int], NEW list, DOMAIN list = 1..n
    PROVE  \E f \in Bijection(1..n, 1..n) :
              /\ RankCandidates(list, score) = [p \in 1..n |-> list[f[p]]]
              /\ \A p, q \in 1..n : p < q => GoesBefore(score, f[p], f[q])
<1> DEFINE D == 1..n
           f == [p \in D |-> CHOOSE i \in D : Place(n, score, i) = p]
<1>1. \A p \in D : f[p] \in D /\ Place(n, score, f[p]) = p
  BY PlacesAreTaken
<1>2. RankCandidates(list, score) = [p \in D |-> list[f[p]]]
  BY DEF RankCandidates, Place, Ahead
<1>3. f \in [D -> D]
  BY <1>1
<1> HIDE DEF f
<1>4. \A i \in D : \E p \in D : f[p] = i
  <2> TAKE i \in D
  <2> DEFINE p == Place(n, score, i)
  <2>1. p \in D
    BY PlaceType
  <2>2. f[p] \in D /\ Place(n, score, f[p]) = Place(n, score, i)
    BY <1>1, <2>1
  <2>3. f[p] = i
    BY <2>2, PlacesAreTaken
  <2> QED
    BY <2>1, <2>3
<1>5. f \in Bijection(D, D)
  <2>1. \A p, q \in D : f[p] = f[q] => p = q
    BY <1>1
  <2> QED
    BY <1>3, <1>4, <2>1 DEF Bijection, Injection, Surjection, IsInjective
<1>6. \A p, q \in D : p < q => GoesBefore(score, f[p], f[q])
  BY <1>1, PlacesAreTaken
<1> HIDE DEF D
<1> QED
  BY <1>2, <1>5, <1>6 DEF D

\* An order of a set is a one-to-one listing of it.
LEMMA Listing ==
    ASSUME NEW C, IsFiniteSet(C), NEW q \in SetToSeqs(C)
    PROVE  /\ Cardinality(C) \in Nat
           /\ q \in [1..Cardinality(C) -> C]
           /\ \A i, j \in 1..Cardinality(C) : q[i] = q[j] => i = j
           /\ \A w \in C : \E i \in 1..Cardinality(C) : q[i] = w
<1> DEFINE n == Cardinality(C)
           D == 1..n
<1>1. n \in Nat
  BY FS_CardinalityType
<1>2. q \in [D -> C] /\ \A i, j \in D : q[i] = q[j] => i = j
  BY DEF SetToSeqs
<1>3. IsFiniteSet(D) /\ Cardinality(D) = n
  BY <1>1, FS_Interval
<1> HIDE DEF D
<1>4. q \in Injection(D, C)
  BY <1>2 DEF Injection, IsInjective
<1>5. q \in Surjection(D, C)
  BY <1>3, <1>4, FS_Injection
<1> QED
  BY <1>1, <1>2, <1>5 DEF Surjection, D

\* What CardsOf returns is a prefix of the candidates, permuted; the permutation
\* ranks them if the user has a profile.
LEMMA DealtIs ==
    ASSUME NEW v \in Users, NEW C \in SUBSET Users, IsFiniteSet(C), NEW q \in SetToSeqs(C)
    PROVE  LET n == Cardinality(C)
               m == IF n < Limit THEN n ELSE Limit
               score == [i \in 1..n |-> Score[v][q[i]]]
           IN  \E g \in Bijection(1..n, 1..n) :
                  /\ Dealt(v, q) = [p \in 1..m |-> q[g[p]]]
                  /\ v \in profiles =>
                        \A p, r \in 1..n : p < r => GoesBefore(score, g[p], g[r])
<1> DEFINE n == Cardinality(C)
           m == IF n < Limit THEN n ELSE Limit
           D == 1..n
           score == [i \in D |-> Score[v][q[i]]]
           ranked == IF v \in profiles THEN RankCandidates(q, score) ELSE q
<1>1. n \in Nat /\ q \in [D -> C]
  BY Listing
<1>2. m \in 0..n
  BY <1>1, LimitAssumption
<1>3. score \in [D -> Int]
  BY <1>1, ScoreAssumption
<1> HIDE DEF n, m, score
<1>4. \E g \in Bijection(D, D) :
        /\ ranked = [p \in D |-> q[g[p]]]
        /\ v \in profiles => \A p, r \in D : p < r => GoesBefore(score, g[p], g[r])
  <2>1. CASE v \in profiles
    BY <1>1, <1>3, <2>1, RankCandidatesSorts
  <2>2. CASE v \notin profiles
    <3> DEFINE g == [p \in D |-> p]
    <3>1. g \in Bijection(D, D)
      BY DEF Bijection, Injection, Surjection, IsInjective
    <3>2. q = [p \in D |-> q[g[p]]]
      BY <1>1
    <3> QED
      BY <2>2, <3>1, <3>2
  <2> QED
    BY <2>1, <2>2
<1>5. PICK g \in Bijection(D, D) :
        /\ ranked = [p \in D |-> q[g[p]]]
        /\ v \in profiles => \A p, r \in D : p < r => GoesBefore(score, g[p], g[r])
  BY <1>4
<1>6. g \in [D -> D]
  BY <1>5 DEF Bijection, Injection
<1>7. ranked \in [D -> C]
  BY <1>1, <1>5, <1>6
<1>8. Len(ranked) = n
  BY <1>1, <1>7
<1>9. Dealt(v, q) = SubSeq(ranked, 1, m)
  BY <1>1, <1>8 DEF Dealt, CardsOf, score, m
<1>10. SubSeq(ranked, 1, m) = [p \in 1..m |-> ranked[p]]
  BY <1>1, <1>2, <1>7
<1>11. Dealt(v, q) = [p \in 1..m |-> q[g[p]]]
  <2>1. \A p \in 1..m : p \in D
    BY <1>1, <1>2
  <2>2. \A p \in 1..m : ranked[p] = q[g[p]]
    <3> HIDE DEF ranked
    <3> QED
      BY <1>5, <2>1
  <2> HIDE DEF ranked
  <2> QED
    BY <1>9, <1>10, <2>2
<1> HIDE DEF ranked
<1> QED
  BY <1>5, <1>11 DEF n, m, score
\* The requirement of CardsRanked, for the candidates C of the user v in the order q.
RankedWell(v, C, q) ==
    LET list == Dealt(v, q)
        T == {list[i] : i \in DOMAIN list}
        came(w) == CHOOSE i \in DOMAIN q : q[i] = w
    IN  /\ T \subseteq C /\ Cardinality(T) = Len(list)
        /\ Len(list) <= Limit /\ (Len(list) = Limit \/ T = C)
        /\ v \in profiles =>
            /\ Best(v, C, T)
            /\ \A i, j \in DOMAIN list : i < j =>
                \/ Score[v][list[i]] > Score[v][list[j]]
                \/ /\ Score[v][list[i]] = Score[v][list[j]]
                   /\ came(list[i]) < came(list[j])

LEMMA DealtRankedWell ==
    ASSUME NEW v \in Users, NEW C \in SUBSET Users, IsFiniteSet(C), NEW q \in SetToSeqs(C)
    PROVE  RankedWell(v, C, q)
<1> DEFINE n == Cardinality(C)
           m == IF n < Limit THEN n ELSE Limit
           D == 1..n
           score == [i \in D |-> Score[v][q[i]]]
           list == Dealt(v, q)
           T == {list[i] : i \in DOMAIN list}
           came(w) == CHOOSE i \in DOMAIN q : q[i] = w
<1>1. /\ n \in Nat /\ q \in [D -> C]
      /\ \A i, j \in D : q[i] = q[j] => i = j
      /\ \A w \in C : \E i \in D : q[i] = w
  BY Listing
<1>2. PICK g \in Bijection(D, D) :
        /\ list = [p \in 1..m |-> q[g[p]]]
        /\ v \in profiles => \A p, r \in D : p < r => GoesBefore(score, g[p], g[r])
  BY DealtIs
<1>3. /\ g \in [D -> D]
      /\ \A p, r \in D : g[p] = g[r] => p = r
      /\ \A i \in D : \E p \in D : g[p] = i
  BY <1>2 DEF Bijection, Injection, Surjection, IsInjective
<1> HIDE DEF n, list
<1>4. m \in 0..n /\ m <= Limit /\ (m = Limit \/ m = n) /\ 1..m \subseteq D
  BY <1>1, LimitAssumption
<1> HIDE DEF m, D
<1>5. /\ DOMAIN list = 1..m
      /\ \A p \in 1..m : g[p] \in D /\ list[p] = q[g[p]] /\ list[p] \in C
  BY <1>1, <1>2, <1>3, <1>4
<1>6. Len(list) = m
  <2>1. list \in [1..m -> C] /\ m \in Nat
    BY <1>1, <1>2, <1>4, <1>5
  <2> QED
    BY <2>1
<1>7. T \subseteq C
  BY <1>5
<1>8. Cardinality(T) = m
  <2>1. \A p, r \in 1..m : list[p] = list[r] => p = r
    BY <1>1, <1>3, <1>4, <1>5
  <2>2. list \in Bijection(1..m, T)
    BY <1>2, <1>5, <2>1 DEF Bijection, Injection, Surjection, IsInjective
  <2>3. m \in Nat
    BY <1>1, <1>4
  <2> HIDE DEF T
  <2> QED
    BY <2>2, <2>3, FS_CountingElements DEF ExistsBijection
<1>9. ASSUME m = n PROVE T = C
  <2> SUFFICES ASSUME NEW w \in C PROVE w \in T
    BY <1>7
  <2>1. PICK i \in D : q[i] = w
    BY <1>1
  <2>2. PICK p \in D : g[p] = i
    BY <1>3
  <2> QED
    BY <1>5, <1>9, <2>1, <2>2 DEF D
<1>10. ASSUME v \in profiles PROVE Best(v, C, T)
  <2> SUFFICES ASSUME NEW w \in T, NEW x \in C \ T
               PROVE  Score[v][w] >= Score[v][x]
    BY DEF Best
  <2>1. PICK p \in 1..m : w = list[p]
    BY <1>5
  <2>2. PICK i \in D : q[i] = x
    BY <1>1
  <2>3. PICK r \in D : g[r] = i
    BY <1>3
  <2>4. r \notin 1..m
    BY <1>5, <2>2, <2>3
  <2>5. p \in D /\ p < r
    BY <1>1, <1>4, <2>4 DEF D
  <2>6. GoesBefore(score, g[p], g[r])
    BY <1>2, <1>10, <2>5
  <2>7. g[p] \in D /\ g[r] \in D /\ w = q[g[p]] /\ x = q[g[r]]
    BY <1>5, <2>1, <2>2, <2>3
  <2>8. Score[v][w] \in Int /\ Score[v][x] \in Int
    BY <1>5, <2>1, ScoreAssumption
  <2> QED
    BY <2>6, <2>7, <2>8 DEF GoesBefore
<1>11. ASSUME v \in profiles, NEW i \in DOMAIN list, NEW j \in DOMAIN list, i < j
       PROVE  \/ Score[v][list[i]] > Score[v][list[j]]
              \/ /\ Score[v][list[i]] = Score[v][list[j]]
                 /\ came(list[i]) < came(list[j])
  <2>1. \A p \in 1..m : came(list[p]) = g[p]
    BY <1>1, <1>5
  <2>2. i \in D /\ j \in D /\ i \in 1..m /\ j \in 1..m
    BY <1>4, <1>5, <1>11
  <2>3. GoesBefore(score, g[i], g[j])
    BY <1>2, <1>11, <2>2
  <2> HIDE DEF came
  <2> QED
    BY <1>5, <2>1, <2>2, <2>3 DEF GoesBefore
<1> HIDE DEF T
<1>12. Len(list) <= Limit /\ (Len(list) = Limit \/ T = C)
  BY <1>4, <1>6, <1>9
<1> QED
  BY <1>6, <1>7, <1>8, <1>10, <1>11, <1>12 DEF RankedWell, list, T, came

\* CardsRanked for every set of users and every profile they have: whatever order
\* the database returns the candidates in, the list that getCards makes of them
\* names nobody twice, leaves out nobody better, and is best first.
THEOREM CardsRankedHolds == Spec => []CardsRanked
<1>1. TypeOK => CardsRanked
  <2> SUFFICES ASSUME TypeOK, NEW k \in Deals, NEW q \in SetToSeqs(deal[k].cards)
               PROVE  RankedWell(deal[k].user, deal[k].cards, q)
    BY DEF CardsRanked, RankedWell
  <2>1. deal[k].user \in Users /\ deal[k].cards \subseteq Users
    BY DEF TypeOK, Deal
  <2>2. IsFiniteSet(deal[k].cards)
    BY <2>1, UsersAssumption, FS_Subset
  <2> QED
    BY <2>1, <2>2, DealtRankedWell
<1> QED
  BY <1>1, IInvHolds, PTL DEF IInv

=============================================================================
