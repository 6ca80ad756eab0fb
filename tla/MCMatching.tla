----------------------------- MODULE MCMatching -----------------------------
(* Instances of Cards, and so of Matching, for TLC. *)
EXTENDS Cards, TLC

CONSTANTS v1, v2, v3, v4, v5, v6, hiking, coffee

\* v1 scores v3 and v4 best, with 23 each, v3 for a shared interest it lists twice;
\* then v2 and v5, with 20 each, and v6 with 18.  There is one more than the 4 that
\* are fetched for 2 cards, so that the order of the candidates decides who of
\* equals is dealt.
MCCard ==
    [v \in Users |->
        CASE v = v1 -> [interests |-> <<coffee>>, bio |-> TRUE, photos |-> 0]
          [] v = v2 -> [interests |-> None, bio |-> TRUE, photos |-> 5]
          [] v = v3 -> [interests |-> <<coffee, hiking, coffee>>, bio |-> FALSE, photos |-> 1]
          [] v = v4 -> [interests |-> None, bio |-> TRUE, photos |-> 6]
          [] v = v5 -> [interests |-> <<coffee, coffee>>, bio |-> FALSE, photos |-> 0]
          [] OTHER -> [interests |-> <<hiking>>, bio |-> FALSE, photos |-> 6]]

\* What CalculateScore makes of these, as a table: CardAssumption compares the two.
Row(s1, s2, s3, s4, s5, s6) ==
    v1 :> s1 @@ v2 :> s2 @@ v3 :> s3 @@ v4 :> s4 @@ v5 :> s5 @@ v6 :> s6

Table == Row(Row(15, 20, 23, 23, 20, 18), Row(5, 20, 3, 23, 0, 18),
             Row(15, 20, 33, 23, 20, 28), Row(5, 20, 3, 23, 0, 18),
             Row(15, 20, 23, 23, 20, 18), Row(5, 20, 13, 23, 0, 28))

MCScore == [v \in Users |-> [w \in Users |-> Table[v][w]]]
=============================================================================
