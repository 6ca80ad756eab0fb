------------------------------ MODULE Profiles ------------------------------
(***************************************************************************)
(* Profiles of backend-api: ProfilesController and ProfilesService         *)
(* (src/profiles) over the table profiles with its unique column user_id,  *)
(* beside the account routes and the guard of Accounts.                    *)
(*                                                                         *)
(* PUT profiles/:id looks for the row and then creates or updates it, and  *)
(* an update reads it again, assigns the body and saves.  The body is not  *)
(* validated and may give any property of a Profile, its id and its user   *)
(* included.  TypeORM's save inserts an entity without an id; with one, it *)
(* reads the row of that id, and then writes the columns in which the      *)
(* entity differs from it, or inserts it when there is none.  So an update *)
(* is four calls between which others run.                                 *)
(***************************************************************************)
EXTENDS Accounts

CONSTANTS
    Columns,        \* bio, gender, birthday, location, interests, photos
    Values,         \* what the database accepts in one,
    BadValues,      \* and what it refuses: an unknown gender, a text too long
    Null,           \* a column without a value, or with its default
    Absent,         \* a column a body leaves out
    NoRow           \* no row, no entity in hand

Given == [Columns -> Values \cup BadValues \cup {Null, Absent}]

\* A row of a user: its primary key, a uuid, and its columns.
Row == [id : Ids, set : [Columns -> Values \cup {Null}]]

\* userId and the relation user are one column, in which the relation prevails.
Body == [id : Ids \cup {NoId}, userId : Ids \cup {NoId}, user : Ids \cup {NoId},
         set : Given]

Entity == [id : Ids \cup {NoId}, userId : Ids, set : Given]

ASSUME ColumnsAssumption == "userId" \notin Columns
ASSUME ValuesAssumption ==
    /\ Null # Absent /\ Null \notin Values \cup BadValues
    /\ Absent \notin Values \cup BadValues /\ Values \cap BadValues = {}
ASSUME RowAssumption == NoRow \notin Row \cup Entity
ASSUME BodiesAssumption == Bodies \subseteq Body

VARIABLES
    profiles,       \* table profiles: the row of each user_id
    entity,         \* the entity an update saves
    diff            \* the columns its save is about to write

profileVars == <<profiles, entity, diff>>

ProfilesTypeOK ==
    /\ AccountsTypeOK
    /\ profiles \in [Ids -> Row \cup {NoRow}]
    /\ entity \in [Requests -> Entity \cup {NoRow}]
    /\ diff \in [Requests -> SUBSET (Columns \cup {"userId"})]

ProfilesInit ==
    /\ AccountsInit
    /\ profiles = [i \in Ids |-> NoRow]
    /\ entity = [r \in Requests |-> NoRow]
    /\ diff = [r \in Requests |-> {}]

-----------------------------------------------------------------------------
(* Entities and rows.                                                       *)

IsPut(r) == call[r].route = "putProfile"

\* The user_id whose row a PUT looks for, and the properties it is given.
Owner(r) == call[r].id
Data(r) == call[r].body

Or(x, y) == IF x # NoId THEN x ELSE y

\* repository.create({...data, userId}).
Created(r) ==
    [id |-> Data(r).id, userId |-> Or(Data(r).user, Owner(r)), set |-> Data(r).set]

\* Mutant: what is stored wins.
AssignOld(set, given) ==
    [k \in Columns |-> IF set[k] = Null /\ given[k] # Absent THEN given[k] ELSE set[k]]

Assign(set, given) == [k \in Columns |-> IF given[k] # Absent THEN given[k] ELSE set[k]]

\* Object.assign(profile, data), on the row of the owner.
Updated(r, row) ==
    [id |-> Or(Data(r).id, row.id),
     userId |-> Or(Data(r).user, Or(Data(r).userId, Owner(r))),
     set |-> Assign(row.set, Data(r).set)]

\* Mutant: columns that are left out stay so.
KeepAbsent(set) == set

\* The columns an INSERT leaves out have their defaults.
Filled(set) == [k \in Columns |-> IF set[k] = Absent THEN Null ELSE set[k]]

\* The UPDATE of a save: the columns in D, from the entity.
Written(set, given, D) == [k \in Columns |-> IF k \in D THEN given[k] ELSE set[k]]

\* The row of user i has the primary key id.
Holds(i, id) == profiles[i] # NoRow /\ profiles[i].id = id

\* The columns in which entity e differs from the row of user i.
Differs(e, i) ==
    {k \in Columns : e.set[k] \notin {Absent, profiles[i].set[k]}}
        \cup (IF e.userId = i THEN {} ELSE {"userId"})

\* user_id refers to a user, and is unique.
MayOwn(i) == HasId(i) /\ profiles[i] = NoRow

Sound(r, C) == \A k \in C : entity[r].set[k] \notin BadValues

\* The INSERT of the entity, with a uuid of its own or the id that was given.
Key(r) == Or(entity[r].id, r)

Insertable(r) ==
    MayOwn(entity[r].userId) /\ Sound(r, Columns) /\ \A i \in Ids : ~ Holds(i, Key(r))

InsertRow(r) ==
    profiles' = [profiles EXCEPT ![entity[r].userId] =
                    [id |-> Key(r), set |-> Filled(entity[r].set)]]

\* The UPDATE of the row that user i has, and that user NewOwner has then.
NewOwner(r, i) == IF "userId" \in diff[r] THEN entity[r].userId ELSE i

Writable(r, i) ==
    (NewOwner(r, i) = i \/ MayOwn(NewOwner(r, i))) /\ Sound(r, diff[r] \cap Columns)

WriteRow(r, i) ==
    profiles' = [j \in Ids |->
        CASE j = NewOwner(r, i) ->
                [id |-> profiles[i].id,
                 set |-> Written(profiles[i].set, entity[r].set, diff[r])]
          [] j = i /\ j # NewOwner(r, i) -> NoRow
          [] OTHER -> profiles[j]]

-----------------------------------------------------------------------------
(* PUT profiles/:id.                                                        *)

Look(r) ==
    IF profiles[Owner(r)] = NoRow
    THEN /\ entity' = [entity EXCEPT ![r] = Created(r)]
         /\ Await(r, IF Data(r).id = NoId THEN "insert" ELSE "compare")
    ELSE Await(r, "refind") /\ entity' = entity

\* Mutant: whose profile it is is not compared.
FindAnyones(r) ==
    /\ at[r] = "find" /\ IsPut(r)
    /\ Look(r)
    /\ UNCHANGED <<profiles, diff>>

\* Mutant: the row is looked for under the wrong key, and never found.
CreateAlways(r) ==
    /\ at[r] = "find" /\ IsPut(r)
    /\ IF Owner(r) # call[r].token
       THEN Throw(r, "NotFound") /\ entity' = entity
       ELSE Await(r, "insert") /\ entity' = [entity EXCEPT ![r] = Created(r)]
    /\ UNCHANGED <<profiles, diff>>

\* Users update their own profile only; its row is looked for, and without one an
\* entity is created.
FindProfile(r) ==
    /\ at[r] = "find" /\ IsPut(r)
    /\ IF Owner(r) # call[r].token THEN Throw(r, "NotFound") /\ entity' = entity ELSE Look(r)
    /\ UNCHANGED <<profiles, diff>>

\* ProfilesService.update finds the row again and assigns the body.
Refind(r) ==
    /\ at[r] = "refind" /\ IsPut(r)
    /\ IF profiles[Owner(r)] = NoRow
       THEN Throw(r, "NotFound") /\ entity' = entity
       ELSE /\ entity' = [entity EXCEPT ![r] = Updated(r, profiles[Owner(r)])]
            /\ Await(r, "compare")
    /\ UNCHANGED <<profiles, diff>>

\* save of an entity with an id reads the row of that id; when the entity does
\* not differ from it nothing is written.
Compare(r) ==
    /\ at[r] = "compare" /\ IsPut(r)
    /\ \/ /\ \A i \in Ids : ~ Holds(i, entity[r].id)
          /\ Await(r, "insert") /\ diff' = diff
       \/ \E i \in Ids :
            /\ Holds(i, entity[r].id)
            /\ diff' = [diff EXCEPT ![r] = Differs(entity[r], i)]
            /\ IF Differs(entity[r], i) = {}
               THEN Return(r, entity[r].userId)
               ELSE Await(r, "update")
    /\ UNCHANGED <<profiles, entity>>

\* save inserts the entity.
InsertProfile(r) ==
    /\ at[r] = "insert" /\ IsPut(r)
    /\ IF Insertable(r)
       THEN InsertRow(r) /\ Return(r, entity[r].userId)
       ELSE Throw(r, "QueryFailed") /\ profiles' = profiles
    /\ UNCHANGED <<entity, diff>>

\* save writes the columns that differed, in the row of that id as it is now.
Update(r) ==
    /\ at[r] = "update" /\ IsPut(r)
    /\ \E i \in Ids :
        /\ Holds(i, entity[r].id)
        /\ IF Writable(r, i)
           THEN WriteRow(r, i) /\ Return(r, entity[r].userId)
           ELSE Throw(r, "QueryFailed") /\ profiles' = profiles
    /\ UNCHANGED <<entity, diff>>

-----------------------------------------------------------------------------
(* GET profiles/me and profiles/:id.                                        *)

ReadProfile(r) ==
    LET id == IF call[r].route = "myProfile" THEN call[r].token ELSE call[r].id
    IN  /\ at[r] = "read" /\ call[r].route \in {"myProfile", "profile"}
        /\ IF id \in Ids /\ profiles[id] # NoRow
           THEN Return(r, id)
           ELSE Throw(r, "NotFound")
        /\ UNCHANGED profileVars

-----------------------------------------------------------------------------
\* A query of a profile route fails; an INSERT or UPDATE may have been committed.
ProfileCallFails(r) ==
    /\ call[r].route \in {"putProfile", "myProfile", "profile"} /\ at[r] # "auth"
    /\ CallFails(r)
    /\ \/ profiles' = profiles
       \/ at[r] = "insert" /\ Insertable(r) /\ InsertRow(r)
       \/ /\ at[r] = "update"
          /\ \E i \in Ids : Holds(i, entity[r].id) /\ Writable(r, i) /\ WriteRow(r, i)
    /\ UNCHANGED <<entity, diff>>

ProfileStep(r) ==
    \/ FindProfile(r) \/ Refind(r) \/ Compare(r) \/ InsertProfile(r) \/ Update(r)
    \/ ReadProfile(r) \/ ProfileCallFails(r)

ProfilesNext ==
    \/ AccountsNext /\ UNCHANGED profileVars
    \/ \E r \in Requests : ProfileStep(r) /\ users' = users

ProfilesSpec == ProfilesInit /\ [][ProfilesNext]_<<accountVars, profileVars>>

-----------------------------------------------------------------------------
(* Properties.                                                              *)

\* r has arrived as an update by user i of its own profile.
PutOf(r, i) == at[r] # "new" /\ IsPut(r) /\ Owner(r) = i /\ call[r].token = i

\* The columns r gives.
Sets(r) == {k \in Columns : Data(r).set[k] # Absent}

\* The users r gives, and the ids that updates by i draw or give.
Users(r) == {Data(r).userId, Data(r).user} \ {NoId}

KeysOf(i) ==
    LET puts == {r \in Requests : PutOf(r, i)}
    IN  puts \cup ({Data(r).id : r \in puts} \ {NoId})

\* Bodies keep the profile of i apart: updates by i give no other user than i,
\* updates by others do not give i, and neither give an id of the other.  (The id
\* and user that a client read of its own profile may be sent back.)
Apart(i) ==
    /\ \A r \in Requests, j \in Ids : PutOf(r, j) =>
        IF j = i THEN Users(r) \subseteq {i} ELSE i \notin Users(r)
    /\ \A j \in Ids \ {i} : KeysOf(i) \cap KeysOf(j) = {}

\* While bodies keep a profile apart, a column of it holds what some update by its
\* owner put there: however updates overlap, and whatever stale columns they write
\* back, nothing is mixed in from elsewhere.
OwnValues ==
    \A i \in Ids : profiles[i] # NoRow /\ Apart(i) =>
        \A k \in Columns : profiles[i].set[k] # Null =>
            \E r \in Requests : PutOf(r, i) /\ Data(r).set[k] = profiles[i].set[k]

\* While bodies keep a profile apart, a column that an update has set stands: it
\* changes only through an update by the owner that sets it as well, or through
\* one that overlapped this one, which read the row before and writes its stale
\* columns back after.
LastWriteStands ==
    \A r \in Requests : IsPut(r) /\ answer[r].status = 200 /\ Apart(Owner(r)) =>
        \A k \in Sets(r) :
            (\A s \in Requests \ {r} :
                PutOf(s, Owner(r)) => \/ s \in before[r]
                                      \/ r \in before[s] /\ k \notin Sets(s))
            => /\ profiles[Owner(r)] # NoRow
               /\ profiles[Owner(r)].set[k] = Data(r).set[k]

\* r gives another id than the one the profile of its owner has.
Rekeys(r) ==
    /\ Data(r).id # NoId /\ profiles[Owner(r)] # NoRow
    /\ profiles[Owner(r)].id # Data(r).id

\* While bodies keep a profile apart, an update of it ends in a server error only
\* when a call of it failed, when the database refuses what it gives (a value, or a
\* new id for the profile), or when another update by the owner ran beside it; and
\* the last no more once an update has been answered.
PutErrorExplained ==
    \A r \in Requests :
        /\ IsPut(r) /\ answer[r].status = 500 /\ r \notin failed
        /\ Apart(Owner(r)) /\ ~ Rekeys(r)
        /\ \A k \in Columns : Data(r).set[k] \notin BadValues
        => /\ \E s \in Requests : Overlap(r, s) /\ PutOf(s, Owner(r))
           /\ \A s \in before[r] : PutOf(s, Owner(r)) => answer[s].status # 200

=============================================================================
