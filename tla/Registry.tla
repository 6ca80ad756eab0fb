------------------------------ MODULE Registry ------------------------------
(***************************************************************************)
(* What accounts promise: a phone number has one account for good, with    *)
(* the password it was opened with, and access is granted only to an       *)
(* account whose phone number and password were given.                     *)
(***************************************************************************)
VARIABLES
    accounts,   \* [id, phone, password]
    granted     \* [id, phone, password]: whom a client was given access to,
                \* and what it gave

OnePerPhone(A) == \A a, b \in A : a.phone = b.phone \/ a.id = b.id => a = b

Init == OnePerPhone(accounts) /\ granted = {}

\* The answer that grants access to the new account may be lost.
Open(a) ==
    /\ a \notin accounts /\ OnePerPhone(accounts \cup {a})
    /\ accounts' = accounts \cup {a}
    /\ granted' \in {granted, granted \cup {a}}

Grant(a) ==
    /\ a \in accounts
    /\ granted' = granted \cup {a}
    /\ accounts' = accounts

Next == (\E a \in accounts' : Open(a)) \/ (\E a \in accounts : Grant(a))

Spec == Init /\ [][Next]_<<accounts, granted>>

=============================================================================
