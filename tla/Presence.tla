------------------------------ MODULE Presence ------------------------------
(***************************************************************************)
(* What the hub of im-server promises about who is online, without its     *)
(* channels, pumps and locks: a user has at most one connection, a new     *)
(* connection of the user retires the one before, and a retired connection *)
(* is retired for good.                                                    *)
(***************************************************************************)
CONSTANTS
    Users, Conns,
    UserOf,     \* the user of a connection
    NoConn      \* not a connection

VARIABLES
    online,     \* the connection each user is reached through, or NoConn
    retired     \* the connections that will never be reached again

Init ==
    /\ online = [u \in Users |-> NoConn]
    /\ retired = {}

Arrive(c) ==
    /\ c \notin retired
    /\ online[UserOf[c]] # c
    /\ online' = [online EXCEPT ![UserOf[c]] = c]
    /\ retired' = retired \cup ({online[UserOf[c]]} \ {NoConn})

Leave(c) ==
    /\ online[UserOf[c]] = c
    /\ online' = [online EXCEPT ![UserOf[c]] = NoConn]
    /\ retired' = retired \cup {c}

Next == \E c \in Conns : Arrive(c) \/ Leave(c)

Spec == Init /\ [][Next]_<<online, retired>>

=============================================================================
