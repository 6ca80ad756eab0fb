------------------------------ MODULE Backend ------------------------------
(***************************************************************************)
(* The request handling of backend-api as AppModule assembles it: the      *)
(* routes of Accounts, Profiles and Uploads behind one guard, one pipe and *)
(* one filter, over one database and one object store.                     *)
(***************************************************************************)
EXTENDS Profiles, Uploads

backendVars == <<accountVars, profileVars, storeVars>>

BackendTypeOK == ProfilesTypeOK /\ UploadsTypeOK

Init == ProfilesInit /\ UploadsInit

Account(r) == AccountStep(r) /\ UNCHANGED <<profileVars, storeVars>>
Profile(r) == ProfileStep(r) /\ UNCHANGED <<users, storeVars>>
Upload(r) == UploadStep(r) /\ UNCHANGED <<users, profileVars>>

Next ==
    \E r \in Requests :
        \/ Arrive(r) /\ UNCHANGED <<users, profileVars, storeVars>>
        \/ Account(r) \/ Profile(r) \/ Upload(r)
        \/ Delete(r) /\ UNCHANGED <<users, profileVars>>

Spec == Init /\ [][Next]_backendVars

\* A call that was made returns or throws, and Node resumes the request then.
\* Nothing is assumed of clients.
FairSpec ==
    Spec /\ \A r \in Requests : WF_backendVars(Account(r) \/ Profile(r) \/ Upload(r))

\* Every request that arrives is answered: no handler waits for a row, a bucket or
\* another request, and every path through it ends in an answer.  (Requests are
\* finitely many and stay answered, so that in the end none is under way.)
EveryRequestAnswered == <>[](\A r \in Requests : at[r] \in {"new", "done"})

=============================================================================
