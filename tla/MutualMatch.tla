---------------------------- MODULE MutualMatch ----------------------------
(***************************************************************************)
(* What swiping promises: two users are matched only when each has swiped  *)
(* right on the other, and when each has, they are matched in the end,     *)
(* unless a call made for the two of them failed.                          *)
(***************************************************************************)
CONSTANT Users

VARIABLES
    likes,      \* pairs <<v, w>>: v has swiped right on w
    matched,    \* sets {v, w}: the matches
    excused     \* sets {v, w}: a call failed for the two

vars == <<likes, matched, excused>>

Init == likes = {} /\ matched = {} /\ excused = {}

Like(v, w) == likes' = likes \cup {<<v, w>>} /\ matched' = matched

Match(v, w) ==
    /\ <<v, w>> \in likes /\ <<w, v>> \in likes
    /\ matched' = matched \cup {{v, w}}
    /\ likes' = likes

Next ==
    /\ excused \subseteq excused'
    /\ \/ \E v, w \in Users : v # w /\ (Like(v, w) \/ Match(v, w))
       \/ UNCHANGED <<likes, matched>>

Spec == Init /\ [][Next]_vars

MatchInTime(v, w) == Match(v, w) /\ {v, w} \notin excused /\ excused' = excused

FairSpec == Spec /\ \A v, w \in Users : v # w => WF_vars(MatchInTime(v, w))

=============================================================================
