------------------------------- MODULE Uploads -------------------------------
(***************************************************************************)
(* Photo uploads of backend-api: UploadController, UploadService and       *)
(* MinioStorageService (src/upload), beside the routes of Accounts.  The   *)
(* object store keeps one bucket, which the first upload creates, and in   *)
(* it one object per key; the key of a request is a new uuid, written as   *)
(* the number of the request.                                              *)
(***************************************************************************)
EXTENDS Accounts

VARIABLES
    bucket,         \* whether the bucket exists
    objects         \* whether the object of each key is in it

storeVars == <<bucket, objects>>

UploadsTypeOK ==
    /\ AccountsTypeOK
    /\ bucket \in BOOLEAN
    /\ objects \in [Requests -> {"absent", "stored", "deleted"}]

UploadsInit ==
    /\ AccountsInit
    /\ bucket = FALSE
    /\ objects = [r \in Requests |-> "absent"]

-----------------------------------------------------------------------------
\* FileInterceptor and the handler: no file, a type fileFilter refuses, and more
\* than 10 MB.
FileRefused(r) ==
    CASE call[r].file \in {"none", "text"} -> "BadRequest"
      [] call[r].file = "large" -> "PayloadTooLarge"
      [] OTHER -> "no"

\* Mutant: the bucket is always created.
MakeAlways(r) ==
    /\ at[r] = "bucket"
    /\ IF FileRefused(r) # "no" THEN Throw(r, FileRefused(r)) ELSE Await(r, "make")
    /\ UNCHANGED storeVars

\* bucketExists.
CheckBucket(r) ==
    /\ at[r] = "bucket"
    /\ IF FileRefused(r) # "no"
       THEN Throw(r, FileRefused(r))
       ELSE Await(r, IF bucket THEN "put" ELSE "make")
    /\ UNCHANGED storeVars

\* makeBucket, which the store refuses when the bucket is there already.
MakeBucket(r) ==
    /\ at[r] = "make"
    /\ IF bucket THEN Throw(r, "StorageError") ELSE Await(r, "put")
    /\ bucket' = TRUE
    /\ objects' = objects

\* Mutant: the object is not awaited.
PutBehind(r) ==
    \/ at[r] = "put" /\ Return(r, r) /\ UNCHANGED storeVars
    \/ /\ at[r] = "done" /\ answer[r].status = 201 /\ objects[r] = "absent"
       /\ objects' = [objects EXCEPT ![r] = "stored"]
       /\ UNCHANGED <<httpVars, bucket>>

\* putObject, and the answer with the url and the key.
PutObject(r) ==
    /\ at[r] = "put"
    /\ objects' = [objects EXCEPT ![r] = "stored"]
    /\ Return(r, r)
    /\ bucket' = bucket

\* A call of the store fails; what it was to do may have been done.
StoreCallFails(r) ==
    /\ at[r] \in {"bucket", "make", "put"}
    /\ CallFails(r)
    /\ bucket' \in {bucket, bucket \/ at[r] = "make"}
    /\ objects' \in {objects, [objects EXCEPT ![r] = IF at[r] = "put" THEN "stored" ELSE @]}

\* UploadService.delete, exported and without a caller in this repository.
Delete(key) ==
    /\ objects[key] = "stored"
    /\ objects' = [objects EXCEPT ![key] = "deleted"]
    /\ UNCHANGED <<bucket, httpVars>>

UploadStep(r) == CheckBucket(r) \/ MakeBucket(r) \/ PutObject(r) \/ StoreCallFails(r)

UploadsNext ==
    \/ AccountsNext /\ UNCHANGED storeVars
    \/ \E r \in Requests : (UploadStep(r) \/ Delete(r)) /\ users' = users

UploadsSpec == UploadsInit /\ [][UploadsNext]_<<accountVars, storeVars>>

-----------------------------------------------------------------------------
(* Properties.                                                              *)

IsUpload(r) == call[r].route = "upload"

\* An object whose url was answered is in the bucket until it is deleted, and a
\* request that was refused has stored nothing.
UrlsResolve ==
    \A r \in Requests : IsUpload(r) =>
        /\ answer[r].status = 201 => bucket /\ objects[r] # "absent"
        /\ answer[r].status \in {400, 401, 413} => objects[r] = "absent"

\* An upload ends in a server error only when a call of it failed or when another
\* upload ran beside it, and never for the bucket once an upload has succeeded.
UploadErrorExplained ==
    \A r \in Requests :
        IsUpload(r) /\ answer[r].status = 500 /\ r \notin failed
        => /\ \E s \in Requests : Overlap(r, s) /\ IsUpload(s)
           /\ \A s \in before[r] : IsUpload(s) => answer[s].status # 201

=============================================================================
