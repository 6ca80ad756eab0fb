---------------------------- MODULE Conversation ----------------------------
(***************************************************************************)
(* What im-server promises two people who write to each other, without     *)
(* connections, buffers and stores: a user is shown texts addressed to     *)
(* them that their author has sent, and receipts for texts of their own    *)
(* that the addressee, having been shown the text, has acknowledged.       *)
(* It promises no delivery.                                                *)
(***************************************************************************)
CONSTANTS
    Users, Texts,
    Author, Addressee,      \* the two users of a text
    Msgs                    \* {"text", "receipt"} \X Texts

VARIABLES
    posted,     \* the messages users have handed to the server
    shown       \* the messages each user has been shown

Init ==
    /\ posted = {}
    /\ shown = [u \in Users |-> {}]

\* The user a message is for.
Recipient(m) == IF m[1] = "text" THEN Addressee[m[2]] ELSE Author[m[2]]

Post(m) ==
    /\ m[1] = "receipt" => <<"text", m[2]>> \in shown[Addressee[m[2]]]
    /\ posted' = posted \cup {m}
    /\ shown' = shown

\* Several messages may be shown at once.
Show(u, S) ==
    /\ \A m \in S : m \in posted /\ Recipient(m) = u
    /\ shown' = [shown EXCEPT ![u] = @ \cup S]
    /\ posted' = posted

Next ==
    \/ \E m \in Msgs : Post(m)
    \/ \E u \in Users, S \in SUBSET Msgs : Show(u, S)

Spec == Init /\ [][Next]_<<posted, shown>>

=============================================================================
