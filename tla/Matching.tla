------------------------------ MODULE Matching ------------------------------
(***************************************************************************)
(* Swiping and matching in backend-api: MatchingService.getCards, swipe    *)
(* and getMatches (src/matching/matching.service.ts) over the tables       *)
(* swipes, matches and profiles, which have no uniqueness constraint on    *)
(* who swiped whom or on who matched whom.                                 *)
(*                                                                         *)
(* Every awaited repository call is one step.  Each runs in a transaction  *)
(* of its own: what it wrote is visible to every later call, and other     *)
(* requests run between any two calls of one request.  A call in Faulty    *)
(* may fail, with or without its row written; its exception ends the       *)
(* request, as does a crash of the backend at that point.                  *)
(***************************************************************************)
EXTENDS Integers, FiniteSets

CONSTANTS
    Users,
    Swipes,         \* the swipe requests of a behaviour, each made once
    Deals,          \* the getCards requests of a behaviour, each made once
    Score,          \* calculateScore: Score[v][w] for v looking at w
    Limit,          \* the limit of a getCards request (10)
    Swipers,        \* bound: the users whose swipes on each other are requested,
    Viewers,        \* those who ask for cards, and those who may have no profile
    Newcomers,      \* at the start
    Faulty          \* bound: the repository calls of swipe that may fail

ASSUME UsersAssumption == IsFiniteSet(Users)
ASSUME ScoreAssumption == Score \in [Users -> [Users -> Nat]]
ASSUME LimitAssumption == Limit \in Nat \ {0}
ASSUME ViewersAssumption == Viewers \subseteq Users
ASSUME FaultyAssumption == Faulty \subseteq {"save", "find", "match"}

VARIABLES
    pc,             \* where each swipe request is
    call,           \* its arguments: who swipes whom, and how
    swipeRows,      \* table swipes: the requests whose row is in it
    matchRows,      \* table matches: the requests whose row is in it
    profiles,       \* table profiles: the users who have one
    deal            \* each getCards request and what it knows

vars == <<pc, call, swipeRows, matchRows, profiles, deal>>

Calls == [swiper : Users, swiped : Users, right : BOOLEAN]
Deal == [pc : {"new", "asked", "excluded", "fetched", "done"}, user : Users,
         excluded : SUBSET Users, before : SUBSET Users, cards : SUBSET Users]

TypeOK ==
    /\ pc \in [Swipes -> {"new", "save", "find", "match", "left", "unmatched",
                          "matched", "failed"}]
    /\ call \in [Swipes -> Calls]
    /\ swipeRows \subseteq Swipes
    /\ matchRows \subseteq Swipes
    /\ profiles \subseteq Users
    /\ deal \in [Deals -> Deal]

\* The arguments of a request that has not been made are arbitrary.
Init ==
    /\ pc = [r \in Swipes |-> "new"]
    /\ call \in [Swipes -> {k \in Calls : /\ k.swiper # k.swiped
                                         /\ {k.swiper, k.swiped} \subseteq Swipers}]
    /\ swipeRows = {} /\ matchRows = {}
    /\ profiles \in {P \in SUBSET Users : Users \ Newcomers \subseteq P}
    /\ deal \in [Deals -> [pc : {"new"}, user : Viewers, excluded : {{}},
                           before : {{}}, cards : {{}}]]

-----------------------------------------------------------------------------
(* Helpers.                                                                 *)

\* Mutant: the rows instead of their swipedId.
RowsBy(v) == {s \in swipeRows : call[s].swiper = v}

\* Users v has a swipe row on.
SwipedBy(v) == {call[r].swiped : r \in {s \in swipeRows : call[s].swiper = v}}

\* r and s are right swipes of two users on each other.
Mutual(r, s) ==
    /\ call[r].right /\ call[s].right
    /\ call[r].swiper = call[s].swiped /\ call[r].swiped = call[s].swiper

\* findOne({swiperId: swipedId, swipedId: swiperId, direction: RIGHT}).
Reciprocal(r) == {s \in swipeRows : Mutual(r, s)}

\* The two users of a match row, smaller id first in the code.
Pair(r) == {call[r].swiper, call[r].swiped}

\* getMatches(v), as the set of the users v is matched with.
MatchesOf(v) == {w \in Users : \E r \in matchRows : Pair(r) = {v, w}}

Goto(r, label) == pc' = [pc EXCEPT ![r] = label]

-----------------------------------------------------------------------------
(* swipe(swiperId, swipedId, direction).                                    *)

StartSwipe(r) ==
    /\ pc[r] = "new"
    /\ Goto(r, "save")
    /\ UNCHANGED <<call, swipeRows, matchRows, profiles, deal>>

\* The swipe is saved first; a left swipe returns at once.
SaveSwipe(r) ==
    /\ pc[r] = "save"
    /\ swipeRows' = swipeRows \cup {r}
    /\ Goto(r, IF call[r].right THEN "find" ELSE "left")
    /\ UNCHANGED <<call, matchRows, profiles, deal>>

\* Mutant: a swipe in either direction is taken.
FindAnyDirection(r) ==
    /\ pc[r] = "find"
    /\ LET back == {s \in swipeRows : call[s].swiper = call[r].swiped
                                      /\ call[s].swiped = call[r].swiper}
       IN  Goto(r, IF back # {} THEN "match" ELSE "unmatched")
    /\ UNCHANGED <<call, swipeRows, matchRows, profiles, deal>>

\* The swipes of others are searched for one that makes this one mutual.
FindReciprocal(r) ==
    /\ pc[r] = "find"
    /\ Goto(r, IF Reciprocal(r) # {} THEN "match" ELSE "unmatched")
    /\ UNCHANGED <<call, swipeRows, matchRows, profiles, deal>>

SaveMatch(r) ==
    /\ pc[r] = "match"
    /\ matchRows' = matchRows \cup {r}
    /\ Goto(r, "matched")
    /\ UNCHANGED <<call, swipeRows, profiles, deal>>

\* The repository call r is at throws, before or after its row was written.
Fail(r) ==
    /\ pc[r] \in Faulty
    /\ \/ pc[r] = "save" /\ swipeRows' = swipeRows \cup {r} /\ matchRows' = matchRows
       \/ pc[r] = "match" /\ matchRows' = matchRows \cup {r} /\ swipeRows' = swipeRows
       \/ UNCHANGED <<swipeRows, matchRows>>
    /\ Goto(r, "failed")
    /\ UNCHANGED <<call, profiles, deal>>

\* Mutant: the swipes of others are searched before the own one is saved.
SearchFirst(r) ==
    /\ \/ /\ pc[r] = "save" /\ swipeRows' = swipeRows
          /\ Goto(r, IF Reciprocal(r) # {} THEN "match" ELSE "find")
       \/ /\ pc[r] = "find" /\ swipeRows' = swipeRows \cup {r}
          /\ Goto(r, IF call[r].right THEN "unmatched" ELSE "left")
       \/ /\ pc[r] = "match" /\ swipeRows' = swipeRows \cup {r}
          /\ Goto(r, "matched")
    /\ matchRows' = IF pc[r] = "match" THEN matchRows \cup {r} ELSE matchRows
    /\ UNCHANGED <<call, profiles, deal>>

SwipeStep(r) == SaveSwipe(r) \/ FindReciprocal(r) \/ SaveMatch(r)

-----------------------------------------------------------------------------
(* getCards(userId, limit).                                                 *)

\* The request arrives: `before' is history, whom the user had swiped on.
AskCards(k) ==
    /\ deal[k].pc = "new"
    /\ deal' = [deal EXCEPT ![k].pc = "asked", ![k].before = SwipedBy(deal[k].user)]
    /\ UNCHANGED <<pc, call, swipeRows, matchRows, profiles>>

\* Mutant: only those the user likes are excluded.
ReadLiked(k) ==
    /\ deal[k].pc = "asked"
    /\ LET liked == {s \in swipeRows : call[s].swiper = deal[k].user /\ call[s].right}
       IN  deal' = [deal EXCEPT
                        ![k].pc = "excluded",
                        ![k].excluded = {deal[k].user} \cup {call[r].swiped : r \in liked}]
    /\ UNCHANGED <<pc, call, swipeRows, matchRows, profiles>>

\* The ids to exclude are read.
ReadSwiped(k) ==
    /\ deal[k].pc = "asked"
    /\ deal' = [deal EXCEPT
                    ![k].pc = "excluded",
                    ![k].excluded = {deal[k].user} \cup SwipedBy(deal[k].user)]
    /\ UNCHANGED <<pc, call, swipeRows, matchRows, profiles>>

\* At most 2 * Limit other profiles are fetched, in no particular order.
FetchCandidates(k) ==
    LET eligible == profiles \ deal[k].excluded
    IN  /\ deal[k].pc = "excluded"
        /\ \E S \in SUBSET eligible :
            /\ Cardinality(S) <= 2 * Limit
            /\ Cardinality(S) = 2 * Limit \/ S = eligible
            /\ deal' = [deal EXCEPT ![k].pc = "fetched", ![k].cards = S]
        /\ UNCHANGED <<pc, call, swipeRows, matchRows, profiles>>

\* rankCandidates: T holds the profiles of S that v would score best.
Best(v, S, T) == \A w \in T, x \in S \ T : Score[v][w] >= Score[v][x]

\* slice(0, limit), after ranking if the user has a profile of their own.
DealCards(k) ==
    LET d == deal[k]
    IN  /\ d.pc = "fetched"
        /\ \E T \in SUBSET d.cards :
            /\ Cardinality(T) <= Limit
            /\ Cardinality(T) = Limit \/ T = d.cards
            /\ d.user \in profiles => Best(d.user, d.cards, T)
            /\ deal' = [deal EXCEPT ![k].pc = "done", ![k].cards = T]
        /\ UNCHANGED <<pc, call, swipeRows, matchRows, profiles>>

\* Another request creates a profile.
CreateProfile(v) ==
    /\ v \notin profiles
    /\ profiles' = profiles \cup {v}
    /\ UNCHANGED <<pc, call, swipeRows, matchRows, deal>>

Next ==
    \/ \E r \in Swipes : StartSwipe(r) \/ SwipeStep(r) \/ Fail(r)
    \/ \E k \in Deals :
        AskCards(k) \/ ReadSwiped(k) \/ FetchCandidates(k) \/ DealCards(k)
    \/ \E v \in Users : CreateProfile(v)

Spec == Init /\ [][Next]_vars

\* A request that was made runs on: Node resumes it when its query answers.
FairSpec == Spec /\ \A r \in Swipes : WF_vars(SwipeStep(r))

-----------------------------------------------------------------------------
(* Safety.                                                                  *)

\* No mutual liking is overlooked: of two stored right swipes on each other, in
\* whichever order their steps interleave, at least one finds the other.  When
\* both requests are over and none failed, each user has the other in getMatches.
NoMissedMatch ==
    \A r, s \in swipeRows :
        Mutual(r, s) =>
            \/ pc[r] \in {"find", "match", "failed"}
            \/ pc[s] \in {"find", "match", "failed"}
            \/ /\ call[r].swiped \in MatchesOf(call[r].swiper)
               /\ call[r].swiper \in MatchesOf(call[r].swiped)

\* A user is not dealt their own card, nor that of anyone they had already
\* swiped on when they asked for cards, whatever is swiped and whichever
\* profiles appear while the request runs.
CardsExcluded ==
    \A k \in Deals :
        /\ deal[k].user \notin deal[k].cards
        /\ deal[k].before \cap deal[k].cards = {}

\* "Mutual match! Create a match record" says the comment in swipe: one mutual
\* match, one record.
OneMatchRecord ==
    \A r, s \in matchRows : Pair(r) = Pair(s) => r = s

-----------------------------------------------------------------------------
(* The service implements MutualMatch.                                      *)

MM == INSTANCE MutualMatch
        WITH likes <- {<<call[r].swiper, call[r].swiped>> :
                         r \in {s \in swipeRows : call[s].right}},
             matched <- {Pair(r) : r \in matchRows},
             excused <- {Pair(r) : r \in {s \in Swipes : pc[s] = "failed"}}

\* Users are matched only when each has a stored right swipe on the other, and
\* no match is ever taken back.
ImplementsMutualMatch == MM!Spec

\* And users who have swiped right on each other are matched in the end, unless
\* a repository call failed in a swipe of the two.
EventuallyMatched == MM!FairSpec

=============================================================================
