---------------------------- MODULE BackendProofs ----------------------------
(***************************************************************************)
(* The routes of Accounts, Profiles and Uploads over one set of requests:  *)
(* the invariants of the three hold together, because a step of one is for *)
(* the others at most a request that moves on (Foreign, Effects and        *)
(* StoreEffects of the proof modules this one extends).                    *)
(***************************************************************************)
EXTENDS Backend, ProfilesProofs, UploadsProofs

BInv == PInv /\ UInv

-----------------------------------------------------------------------------
(* One lemma per kind of step.                                              *)

LEMMA BackendArrive ==
    ASSUME BInv, NEW r \in Requests, Arrive(r), UNCHANGED <<users, profileVars, storeVars>>
    PROVE  BInv' /\ UNCHANGED <<users, Granted>>
BY ArrivePInv, ArriveUInv, RegistryArrive DEF BInv, PInv

LEMMA BackendAccount ==
    ASSUME BInv, NEW r \in Requests, Account(r)
    PROVE  BInv' /\ (R!Next \/ UNCHANGED <<users, Granted>>)
<1>1. /\ AInv /\ AccountsTypeOK /\ AccountStep(r)
      /\ UNCHANGED profileVars /\ UNCHANGED storeVars
  BY DEF BInv, PInv, AInv, Account
<1>2. AInv' /\ AccountsTypeOK'
  BY <1>1, AccountStepInv DEF AInv
<1>3. ProfilesTypeOK' /\ UploadsTypeOK'
  BY <1>1, <1>2 DEF BInv, PInv, UInv, ProfilesTypeOK, UploadsTypeOK, profileVars, storeVars
<1>4. Moves(r) /\ Effects(r) /\ StoreEffects(r)
  BY <1>1, GuardEffects, GuardStores DEF BInv
<1>5. BInv'
  BY <1>2, <1>3, <1>4, MovePInv, MoveUInv DEF BInv
<1>6. Answers(r) /\ (users' = users \/ Inserts(r))
  BY <1>1, AccountMoves DEF AInv, AccountsTypeOK
<1> QED
  BY <1>1, <1>2, <1>4, <1>5, <1>6, RegistryMove

LEMMA BackendProfile ==
    ASSUME BInv, NEW r \in Requests, Profile(r)
    PROVE  BInv' /\ (R!Next \/ UNCHANGED <<users, Granted>>)
<1>1. PInv /\ UInv /\ AInv /\ ProfileStep(r) /\ users' = users /\ UNCHANGED storeVars
  BY DEF BInv, PInv, Profile
<1>2. Foreign(r) /\ Effects(r) /\ ProfilesTypeOK' /\ at'[r] \in Stages \cup {"done"}
  BY <1>1, ProfileEffects
<1>3. AInv'
  BY <1>1, <1>2, ForeignInv DEF ProfilesTypeOK
<1>4. ~ IsUpload(r)
  BY <1>1 DEF ProfileStep, FindProfile, InsertProfile, Refind, Compare, Update, ReadProfile,
              ProfileCallFails, IsPut, IsUpload
<1>5. StoreEffects(r) /\ UploadsTypeOK'
  BY <1>1, <1>2, <1>4
     DEF StoreEffects, Stages, storeVars, UInv, UploadsTypeOK, ProfilesTypeOK
<1> QED
  BY <1>1, <1>2, <1>3, <1>5, MovePInv, MoveUInv, RegistryMove DEF BInv, Foreign

LEMMA BackendUpload ==
    ASSUME BInv, NEW r \in Requests, Upload(r)
    PROVE  BInv' /\ (R!Next \/ UNCHANGED <<users, Granted>>)
<1>1. PInv /\ UInv /\ AInv /\ UploadStep(r) /\ users' = users /\ UNCHANGED profileVars
  BY DEF BInv, PInv, Upload
<1>2. /\ Foreign(r) /\ StoreEffects(r) /\ UploadsTypeOK' /\ IsUpload(r)
  BY <1>1, UploadEffects
<1>3. AInv'
  BY <1>1, <1>2, ForeignInv DEF UploadsTypeOK
<1>4. Effects(r) /\ ProfilesTypeOK'
  BY <1>1, <1>2
     DEF Effects, IsUpload, IsPut, Readers, profileVars, PInv, UploadsTypeOK, ProfilesTypeOK
<1> QED
  BY <1>1, <1>2, <1>3, <1>4, MovePInv, MoveUInv, RegistryMove DEF BInv, Foreign

LEMMA BackendStill ==
    ASSUME BInv, UNCHANGED <<httpVars, users, bucket, profileVars>>,
           objects' = objects \/ \E key \in Requests : Delete(key)
    PROVE  BInv' /\ UNCHANGED <<users, Granted>>
<1>1. UNCHANGED accountVars /\ UNCHANGED profileVars /\ UNCHANGED httpVars
  BY DEF accountVars
<1>2. PInv' /\ AInv'
  BY <1>1, ProfilesStutter DEF BInv, PInv
<1>3. UInv'
  BY <1>1, <1>2, DeleteUInv DEF BInv
<1> QED
  BY <1>1, <1>2, <1>3 DEF BInv, httpVars, Granted, Got, Winners, Answered201

LEMMA BackendStep ==
    ASSUME BInv, [Next]_backendVars
    PROVE  BInv' /\ (R!Next \/ UNCHANGED <<users, Granted>>)
<1>1. CASE UNCHANGED backendVars
  BY <1>1, BackendStill DEF backendVars, accountVars, storeVars
<1>2. ASSUME NEW r \in Requests, Delete(r) /\ UNCHANGED <<users, profileVars>>
      PROVE  BInv' /\ UNCHANGED <<users, Granted>>
  BY <1>2, BackendStill DEF Delete
<1> QED
  BY <1>1, <1>2, BackendArrive, BackendAccount, BackendProfile, BackendUpload DEF Next

LEMMA BackendInit == Init => BInv
BY ProfilesInitInv, UploadsInitInv DEF Init, BInv

-----------------------------------------------------------------------------
(* Theorems.                                                                *)

LEMMA BackendInvHolds == Spec => []BInv
<1>1. BInv /\ [Next]_backendVars => BInv'
  BY BackendStep
<1> QED
  BY <1>1, BackendInit, PTL DEF Spec

\* Whatever the requests of accounts, profiles and uploads do to each other, every
\* variable keeps its type.
THEOREM BackendTypeCorrect == Spec => []BackendTypeOK
<1>1. BInv => BackendTypeOK
  BY DEF BInv, PInv, UInv, BackendTypeOK
<1> QED
  BY <1>1, BackendInvHolds, PTL

\* Whoever register or login answered can sign in with the same phone and password,
\* however many registrations of the phone run beside it.
THEOREM RegisteredCanLoginInBackend == Spec => []RegisteredCanLogin
<1>1. BInv => RegisteredCanLogin
  BY DEF BInv, PInv, AInv
<1> QED
  BY <1>1, BackendInvHolds, PTL

\* A protected route that refuses a request refuses it for want of a token: one that
\* register or login has given out names a user who is there (its age is left out).
THEOREM TokensHonouredInBackend == Spec => []TokensHonoured
<1>1. BInv => TokensHonoured
  BY DEF BInv, PInv, AInv
<1> QED
  BY <1>1, BackendInvHolds, PTL

\* A registration none of whose calls failed ends in a server error only beside
\* another registration of its phone.
THEOREM RegisterErrorExplainedInBackend == Spec => []RegisterErrorExplained
<1>1. BInv => RegisterErrorExplained
  BY DEF BInv, PInv, AInv
<1> QED
  BY <1>1, BackendInvHolds, PTL

\* However updates overlap, each column of a profile holds what an update of that
\* profile by its owner put there, as long as bodies keep the profile apart: neither
\* its owner nor anyone else gives the id or the user of another's profile.
THEOREM OwnValuesHolds == Spec => []OwnValues
<1>1. BInv => OwnValues
  BY DEF BInv, PInv
<1> QED
  BY <1>1, BackendInvHolds, PTL

\* While bodies keep a profile apart, a column that an answered update has set is lost
\* only to an update that sets it as well, or to one that overlapped.
THEOREM LastWriteStandsHolds == Spec => []LastWriteStands
<1>1. BInv => LastWriteStands
  BY StandingStands DEF BInv, PInv
<1> QED
  BY <1>1, BackendInvHolds, PTL

\* While bodies keep a profile apart, an update none of whose calls failed and none of
\* whose values the database refuses ends in a server error only beside another update
\* by the owner, and never once one has been answered.
THEOREM PutErrorExplainedHolds == Spec => []PutErrorExplained
<1>1. BInv => PutErrorExplained
  BY DEF BInv, PInv
<1> QED
  BY <1>1, BackendInvHolds, PTL

\* An object whose url was answered is in the bucket until it is deleted, and a
\* refused upload stores nothing.
THEOREM UrlsResolveHolds == Spec => []UrlsResolve
<1>1. BInv => UrlsResolve
  BY DEF BInv, UInv
<1> QED
  BY <1>1, BackendInvHolds, PTL

\* An upload none of whose calls failed ends in a server error only beside another
\* upload, and never once one has succeeded.
THEOREM UploadErrorExplainedHolds == Spec => []UploadErrorExplained
<1>1. BInv => UploadErrorExplained
  BY DEF BInv, UInv
<1> QED
  BY <1>1, BackendInvHolds, PTL

\* The backend as a whole implements Registry: one account per phone for good, and
\* access for who gave its phone and password.
THEOREM BackendImplementsRegistry == Spec => ImplementsRegistry
<1>1. BInv /\ [Next]_backendVars => [R!Next]_<<users, Granted>>
  BY BackendStep
<1>2. Init => R!Init
  BY RegistryInit DEF Init, ProfilesInit
<1>3. [][R!Next]_<<users, Granted>> /\ R!Init => R!Spec
  BY PTL DEF R!Spec, Granted, Got, Winners
<1> QED
  BY <1>1, <1>2, <1>3, BackendInvHolds, PTL DEF Spec, ImplementsRegistry

=============================================================================
