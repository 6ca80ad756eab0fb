---------------------------- MODULE UploadsProofs ----------------------------
(***************************************************************************)
(* Proofs about Uploads, for any number of requests and any of the calls   *)
(* of the store failing.                                                   *)
(*                                                                         *)
(* An upload puts its object only after it has seen or made the bucket,    *)
(* and the bucket stays.  One that is about to make the bucket had found   *)
(* none: no upload answered before it arrived had succeeded, and if the    *)
(* bucket is there by now, an upload that overlaps has made it (Late).     *)
(***************************************************************************)
EXTENDS Uploads, AccountsProofs

StoreSteps == {"bucket", "make", "put"}

-----------------------------------------------------------------------------
(* The invariant.                                                           *)

UploadersStore == \A r \in Requests : at[r] \in StoreSteps => IsUpload(r)

InBucket ==
    \A r \in Requests :
        /\ at[r] = "put" \/ (IsUpload(r) /\ answer[r].status = 201) => bucket
        /\ at[r] # "done" => objects[r] = "absent"

Late ==
    \A r \in Requests : at[r] = "make" =>
        /\ \A s \in before[r] : IsUpload(s) => answer[s].status # 201
        /\ bucket => \E s \in Requests : Overlap(r, s) /\ IsUpload(s)

UInv ==
    /\ AInv /\ UploadsTypeOK /\ UploadersStore /\ InBucket /\ Late
    /\ UrlsResolve /\ UploadErrorExplained

-----------------------------------------------------------------------------
(* What a step may do to the store.                                         *)

StoreEffects(r) ==
    /\ bucket => bucket'
    /\ bucket' # bucket => at[r] = "make"
    /\ \A q \in Requests \ {r} : objects'[q] = objects[q]
    /\ at'[r] # "done" => objects'[r] = objects[r]
    /\ at'[r] = "bucket" => IsUpload(r)
    /\ at'[r] = "make" => at[r] = "bucket" /\ ~ bucket /\ bucket' = bucket
    /\ at'[r] = "put" => at[r] \in {"bucket", "make"} /\ bucket'
    /\ IsUpload(r) =>
        /\ answer'[r].status = 201 => bucket' /\ objects'[r] = "stored"
        /\ answer'[r].status \in {400, 401, 413} => objects'[r] = objects[r]
        /\ answer'[r].status = 500 /\ r \notin failed' => at[r] = "make" /\ bucket

LEMMA UploadEffects ==
    ASSUME UInv, NEW r \in Requests, UploadStep(r), users' = users
    PROVE  /\ Foreign(r) /\ StoreEffects(r) /\ UploadsTypeOK'
           /\ IsUpload(r) /\ at'[r] \in {"make", "put", "done"}
<1>1. /\ HttpTypeOK /\ users \subseteq User /\ bucket \in BOOLEAN
      /\ objects \in [Requests -> {"absent", "stored", "deleted"}]
  BY DEF UInv, UploadsTypeOK, AccountsTypeOK
<1>2. at[r] \in StoreSteps /\ IsUpload(r)
  BY DEF UploadStep, CheckBucket, MakeBucket, PutObject, StoreCallFails, UInv,
         UploadersStore, StoreSteps
<1>3. at[r] \notin {"new", "done", "auth"} /\ call[r].route \notin AccountRoutes
      /\ answer[r].status = 0
  BY <1>2 DEF StoreSteps, IsUpload, AccountRoutes, UInv, AInv, Settled, Unanswered
<1>4. {"make", "put"} \subseteq Steps /\ r \in Ids \cup {NoId}
  BY DEF Steps, Ids
<1>5. /\ StatusOf("BadRequest") = 400 /\ StatusOf("PayloadTooLarge") = 413
      /\ StatusOf("StorageError") = 500
  BY DEF StatusOf
<1>6. CASE CheckBucket(r)
  <2>1. at[r] = "bucket" /\ bucket' = bucket /\ objects' = objects
    BY <1>6 DEF CheckBucket, storeVars
  <2>2. CASE FileRefused(r) # "no"
    <3>1. Throw(r, FileRefused(r)) /\ FileRefused(r) \in {"BadRequest", "PayloadTooLarge"}
      BY <1>6, <2>2 DEF CheckBucket, FileRefused
    <3>2. Moves(r) /\ at'[r] = "done" /\ answer'[r].status \in {400, 413} /\ HttpTypeOK'
      BY <1>1, <1>3, <1>5, <3>1, ThrowMoves, ThrowType
    <3> QED
      BY <1>1, <1>2, <1>3, <2>1, <3>2
         DEF Foreign, StoreEffects, UploadsTypeOK, AccountsTypeOK
  <2>3. CASE FileRefused(r) = "no"
    <3>1. Await(r, IF bucket THEN "put" ELSE "make")
      BY <1>6, <2>3 DEF CheckBucket
    <3>2. /\ Moves(r) /\ at'[r] = (IF bucket THEN "put" ELSE "make")
          /\ answer' = answer /\ HttpTypeOK'
      BY <1>1, <1>3, <1>4, <3>1, AwaitMoves, AwaitType
    <3> QED
      BY <1>1, <1>2, <1>3, <2>1, <3>2
         DEF Foreign, StoreEffects, UploadsTypeOK, AccountsTypeOK
  <2> QED
    BY <2>2, <2>3
<1>7. CASE MakeBucket(r)
  <2>1. at[r] = "make" /\ bucket' = TRUE /\ objects' = objects
    BY <1>7 DEF MakeBucket
  <2>2. CASE bucket
    <3>1. Moves(r) /\ at'[r] = "done" /\ answer'[r].status = 500 /\ HttpTypeOK'
      BY <1>1, <1>3, <1>5, <1>7, <2>2, ThrowMoves, ThrowType DEF MakeBucket
    <3> QED
      BY <1>1, <1>2, <1>3, <2>1, <2>2, <3>1
         DEF Foreign, StoreEffects, UploadsTypeOK, AccountsTypeOK
  <2>3. CASE ~ bucket
    <3>1. Moves(r) /\ at'[r] = "put" /\ answer' = answer /\ HttpTypeOK'
      BY <1>1, <1>3, <1>4, <1>7, <2>3, AwaitMoves, AwaitType DEF MakeBucket
    <3> QED
      BY <1>1, <1>2, <1>3, <2>1, <3>1
         DEF Foreign, StoreEffects, UploadsTypeOK, AccountsTypeOK
  <2> QED
    BY <2>2, <2>3
<1>8. CASE PutObject(r)
  <2>1. /\ at[r] = "put" /\ bucket' = bucket /\ Return(r, r) /\ bucket
        /\ objects' = [objects EXCEPT ![r] = "stored"]
    BY <1>8 DEF PutObject, UInv, InBucket
  <2>2. Moves(r) /\ at'[r] = "done" /\ answer'[r].status = 201 /\ HttpTypeOK'
    BY <1>1, <1>2, <1>3, <1>4, <2>1, ReturnMoves, ReturnType DEF IsUpload, Posts
  <2> QED
    BY <1>1, <1>2, <1>3, <2>1, <2>2
       DEF Foreign, StoreEffects, UploadsTypeOK, AccountsTypeOK
<1>9. CASE StoreCallFails(r)
  <2>1. /\ CallFails(r) /\ bucket' \in {bucket, bucket \/ at[r] = "make"}
        /\ objects' \in {objects, [objects EXCEPT ![r] = IF at[r] = "put" THEN "stored" ELSE @]}
    BY <1>9 DEF StoreCallFails
  <2>2. Moves(r) /\ at'[r] = "done" /\ r \in failed' /\ answer'[r].status = 500 /\ HttpTypeOK'
    BY <1>1, <1>3, <2>1, FailMoves, FailType
  <2>3. bucket' \in BOOLEAN /\ (bucket => bucket') /\ (bucket' # bucket => at[r] = "make")
    BY <1>1, <2>1
  <2>4. /\ objects' \in [Requests -> {"absent", "stored", "deleted"}]
        /\ \A q \in Requests \ {r} : objects'[q] = objects[q]
    BY <1>1, <2>1
  <2> QED
    BY <1>1, <1>2, <1>3, <2>2, <2>3, <2>4
       DEF Foreign, StoreEffects, UploadsTypeOK, AccountsTypeOK
<1> QED
  BY <1>6, <1>7, <1>8, <1>9 DEF UploadStep

\* The guard sends uploads to the store, and no account route goes there.
LEMMA GuardStores ==
    ASSUME UInv, NEW r \in Requests, AccountStep(r), UNCHANGED storeVars
    PROVE  Moves(r) /\ StoreEffects(r)
<1>1. Moves(r) /\ HttpTypeOK /\ (at[r] # "done" => answer[r] = Unanswered)
  BY AccountMoves DEF UInv, AInv, AccountsTypeOK, Settled
<1>2. bucket' = bucket /\ objects' = objects
  BY DEF storeVars
<1>3. IsUpload(r) => /\ answer'[r].status \in {0, 400, 401, 500}
                     /\ answer'[r].status = 500 => r \in failed'
  BY <1>1, GuardMoves DEF IsUpload, AccountRoutes
<1>4. at'[r] \notin {"make", "put"} /\ (at'[r] = "bucket" => IsUpload(r))
  <2>1. CASE Enter(r, call[r])
    BY <1>1, <2>1 DEF Enter, FirstCall, HttpTypeOK, IsUpload
  <2>2. CASE at'[r] \in {"done", "insert"}
    BY <2>2
  <2>3. Enter(r, call[r]) \/ at'[r] \in {"done", "insert"}
    BY <1>1
       DEF AccountStep, Authenticate, FindForRegister, InsertUser, Login, ReadUser,
           AccountCallFails, CallFails, Throw, Return, Done, Await, HttpTypeOK
  <2> QED
    BY <2>1, <2>2, <2>3
<1> QED
  BY <1>1, <1>2, <1>3, <1>4 DEF StoreEffects

-----------------------------------------------------------------------------
(* The invariant is preserved.                                              *)

LEMMA UploadsInitInv == UploadsInit => UInv
<1> SUFFICES ASSUME UploadsInit PROVE UInv
  OBVIOUS
<1>1. AInv
  BY AccountsInitInv DEF UploadsInit
<1>2. \A r \in Requests : at[r] = "new" /\ answer[r].status = 0 /\ objects[r] = "absent"
  BY DEF UploadsInit, AccountsInit, HttpInit, Unanswered
<1>3. UploadsTypeOK
  BY <1>1 DEF UploadsInit, UploadsTypeOK, AInv
<1> QED
  BY <1>1, <1>2, <1>3 DEF UInv, UploadersStore, StoreSteps, InBucket, Late, UrlsResolve,
                          UploadErrorExplained

\* A request arrives.
LEMMA ArriveUInv ==
    ASSUME UInv, NEW r \in Requests, Arrive(r), UNCHANGED <<users, storeVars>>
    PROVE  UInv'
<1>1. HttpTypeOK /\ AInv'
  BY ArriveInv DEF UInv, AInv, AccountsTypeOK
<1>2. PICK c \in Calls :
        /\ call' = [call EXCEPT ![r] = c]
        /\ IF c.route \in Guarded
           THEN at' = [at EXCEPT ![r] = "auth"] /\ answer' = answer
           ELSE Enter(r, c)
  BY DEF Arrive
<1>3. /\ at[r] = "new" /\ failed' = failed
      /\ before' = [before EXCEPT ![r] = {s \in Requests : at[s] = "done"}]
  BY DEF Arrive
<1>4. /\ call'[r] = c /\ at'[r] \in {"auth", "done", "find", "read"}
      /\ answer'[r].status \in {0, 400} /\ objects[r] = "absent"
  BY <1>1, <1>2, <1>3
     DEF UInv, AInv, Settled, Unanswered, Enter, FirstCall, HttpTypeOK, Guarded, InBucket
<1>5. \A q \in Requests \ {r} : /\ call'[q] = call[q] /\ at'[q] = at[q]
                                /\ answer'[q] = answer[q] /\ before'[q] = before[q]
  BY <1>1, <1>2, <1>3 DEF Enter, HttpTypeOK
<1>6. bucket' = bucket /\ objects' = objects
  BY DEF storeVars
<1>7. \A q \in Requests : before[q] \subseteq Requests /\ r \notin before[q]
  BY <1>1, <1>3 DEF HttpTypeOK, UInv, AInv, Settled
<1>8. \A q, s \in Requests : Overlap(q, s) => (Overlap(q, s))' /\ q # r /\ s # r
  BY <1>3, <1>4, <1>5 DEF Overlap
<1>9. UploadsTypeOK' /\ UploadersStore' /\ InBucket'
  BY <1>1, <1>4, <1>5, <1>6
     DEF UInv, AInv, UploadsTypeOK, UploadersStore, StoreSteps, InBucket, IsUpload
<1>10. Late'
  BY <1>4, <1>5, <1>6, <1>7, <1>8 DEF UInv, Late, IsUpload
<1>11. UrlsResolve'
  BY <1>4, <1>5, <1>6 DEF UInv, UrlsResolve, IsUpload
<1>12. UploadErrorExplained'
  BY <1>3, <1>4, <1>5, <1>7, <1>8 DEF UInv, UploadErrorExplained, IsUpload
<1> QED
  BY <1>1, <1>9, <1>10, <1>11, <1>12 DEF UInv

\* A request goes on, on whatever route.
LEMMA MoveUInv ==
    ASSUME UInv, AInv', UploadsTypeOK', NEW r \in Requests, Moves(r), StoreEffects(r)
    PROVE  UInv'
<1>1. /\ at[r] \notin {"new", "done"} /\ at'[r] # "new"
      /\ call' = call /\ before' = before
      /\ at'[r] # "done" => answer'[r] = answer[r]
      /\ \A q \in Requests \ {r} : /\ at'[q] = at[q] /\ answer'[q] = answer[q]
                                   /\ q \in failed' => q \in failed
      /\ failed \subseteq failed'
  BY DEF Moves
<1>2. /\ \A q \in Requests : /\ before[q] \subseteq Requests /\ r \notin before[q]
                             /\ \A s \in before[q] : at[s] = "done"
      /\ answer[r].status = 0 /\ objects[r] = "absent"
  BY <1>1 DEF UInv, AInv, AccountsTypeOK, HttpTypeOK, Settled, Unanswered, InBucket
<1>3. \A q \in Requests : IsUpload(q)' = IsUpload(q)
  BY <1>1 DEF IsUpload
<1>4. \A q, s \in Requests : Overlap(q, s) => (Overlap(q, s))'
  BY <1>1 DEF Overlap
<1>5. UploadersStore'
  BY <1>1, <1>3 DEF UInv, UploadersStore, StoreSteps, StoreEffects
<1>6. InBucket'
  BY <1>1, <1>2, <1>3 DEF UInv, InBucket, StoreEffects
<1>7. Late'
  <2> SUFFICES ASSUME NEW q \in Requests, at'[q] = "make"
               PROVE  /\ \A s \in before[q] : IsUpload(s) => answer[s].status # 201
                      /\ bucket' => \E s \in Requests : Overlap(q, s) /\ IsUpload(s)
    BY <1>1, <1>2, <1>3, <1>4 DEF Late
  <2>1. CASE q = r
    BY <1>2, <2>1 DEF UInv, InBucket, StoreEffects
  <2>2. CASE q # r /\ (bucket \/ ~ bucket')
    BY <1>1, <2>2 DEF UInv, Late
  <2>3. CASE q # r /\ ~ bucket /\ bucket'
    <3>1. at[r] = "make" /\ at[q] = "make"
      BY <1>1, <2>3 DEF StoreEffects
    <3>2. Overlap(q, r) /\ IsUpload(r)
      BY <1>2, <2>3, <3>1 DEF Overlap, UInv, UploadersStore, StoreSteps
    <3> QED
      BY <3>1, <3>2 DEF UInv, Late
  <2> QED
    BY <2>1, <2>2, <2>3
<1>8. UrlsResolve'
  BY <1>1, <1>2, <1>3 DEF UInv, UrlsResolve, StoreEffects
<1>9. UploadErrorExplained'
  <2> SUFFICES ASSUME NEW q \in Requests, IsUpload(q), answer'[q].status = 500, q \notin failed'
               PROVE  /\ \E s \in Requests : Overlap(q, s) /\ IsUpload(s)
                      /\ \A s \in before[q] : IsUpload(s) => answer[s].status # 201
    BY <1>1, <1>2, <1>3, <1>4 DEF UploadErrorExplained
  <2>1. CASE q = r
    BY <2>1 DEF StoreEffects, UInv, Late
  <2>2. CASE q # r
    BY <1>1, <2>2 DEF UInv, UploadErrorExplained
  <2> QED
    BY <2>1, <2>2
<1> QED
  BY <1>5, <1>6, <1>7, <1>8, <1>9 DEF UInv

\* An object is deleted, or nothing happens.
LEMMA DeleteUInv ==
    ASSUME UInv, AInv', UNCHANGED <<httpVars, users, bucket>>,
           objects' = objects \/ \E key \in Requests : Delete(key)
    PROVE  UInv'
<1>1. /\ objects' \in [Requests -> {"absent", "stored", "deleted"}]
      /\ \A q \in Requests : objects'[q] = "absent" <=> objects[q] = "absent"
  BY DEF UInv, UploadsTypeOK, Delete
<1> QED
  BY <1>1
     DEF httpVars, UInv, AInv, UploadsTypeOK, UploadersStore, InBucket, Late, UrlsResolve,
         UploadErrorExplained, Overlap, IsUpload

=============================================================================
