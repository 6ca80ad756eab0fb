---------------------------- MODULE ProfilesProofs ----------------------------
(***************************************************************************)
(* Proofs about Profiles, for any number of requests, any bodies, and any  *)
(* of the awaited calls failing.                                           *)
(*                                                                         *)
(* Bodies may give any id and any user.  What holds a profile together     *)
(* while they keep it apart (Apart) is that an id belongs to those whose   *)
(* updates draw or give it (KeysOf): the row of i has one of the ids of i, *)
(* no other row has (OwnKeys), and an entity carries i and an id of i just *)
(* if the update is by i (OwnEntities).  An arrival can add an id to those *)
(* of i, but none that a row or an entity already has from somebody else   *)
(* (KnownKeys), or i is not kept apart any more.                           *)
(*                                                                         *)
(* An update that nobody disturbs (Quiet) finds its row as it left it at   *)
(* each of its four calls, so its columns are stored when it is answered;  *)
(* who arrives later reads them, and does not write them back (Standing).  *)
(* An update that inserts had found no row, or gives another id than the   *)
(* row it found: who was answered before it arrived had stored none, and   *)
(* whoever stores one meanwhile overlaps with it (Unfound).  All this      *)
(* rests on the invariant of Accounts, which says that the user of a       *)
(* request behind the guard is in the table.                               *)
(***************************************************************************)
EXTENDS Profiles, AccountsProofs

Stages == {"insert", "refind", "compare", "update"}
Saving == {"insert", "compare", "update"}
Readers == {"myProfile", "profile"}

-----------------------------------------------------------------------------
(* The invariant.                                                           *)

HasRow(i) == profiles[i] # NoRow

\* What an update knows at each stage, and what its answer promises.
Rows ==
    \A r \in Requests : IsPut(r) =>
        /\ \/ at[r] \in Stages \/ answer[r].status = 200
           \/ answer[r].status = 500 /\ r \notin failed
         => Owner(r) = call[r].token /\ Owner(r) \in Ids
        /\ (at[r] \in {"refind", "update"} \/ answer[r].status = 200) /\ Apart(Owner(r))
             => HasRow(Owner(r))

ReadersOnlyRead ==
    \A r \in Requests : call[r].route \in Readers => at[r] \notin Stages

\* The entity of an update that is being saved.
Entities ==
    \A r \in Requests : IsPut(r) /\ at[r] \in Saving =>
        /\ entity[r] # NoRow
        /\ \A k \in Sets(r) : entity[r].set[k] = Data(r).set[k]
        /\ \A k \in Columns :
             entity[r].set[k] \in BadValues => Data(r).set[k] \in BadValues
        /\ at[r] = "update" => \A k \in diff[r] \cap Columns : entity[r].set[k] # Absent

\* Whose the rows and the entities are.
OwnKeys ==
    \A i, j \in Ids : Apart(i) /\ HasRow(j) => (profiles[j].id \in KeysOf(i) <=> j = i)

OwnEntities ==
    \A r \in Requests, i \in Ids : IsPut(r) /\ at[r] \in Saving /\ Apart(i) =>
        /\ entity[r].userId = i <=> Owner(r) = i
        /\ entity[r].id # NoId => (entity[r].id \in KeysOf(i) <=> Owner(r) = i)

KnownKeys ==
    /\ \A j \in Ids : HasRow(j) => \E m \in Ids : profiles[j].id \in KeysOf(m)
    /\ \A r \in Requests : IsPut(r) /\ at[r] \in Saving /\ entity[r].id # NoId
         => \E m \in Ids : entity[r].id \in KeysOf(m)

\* An update by i has put v in column k.
Source(i, k, v) == \E r \in Requests : PutOf(r, i) /\ Data(r).set[k] = v

OwnColumns ==
    \A r \in Requests : IsPut(r) /\ at[r] \in Saving /\ Apart(Owner(r)) =>
        \A k \in Columns : entity[r].set[k] \notin {Null, Absent}
                             => Source(Owner(r), k, entity[r].set[k])

\* No update of the profile had been answered when r arrived, and whoever has stored
\* one since overlaps with r.
Rivalled(r) ==
    /\ \A s \in before[r] : PutOf(s, Owner(r)) => answer[s].status # 200
    /\ HasRow(Owner(r)) => \E s \in Requests : Overlap(r, s) /\ PutOf(s, Owner(r))

Unfound ==
    \A r \in Requests : IsPut(r) /\ Apart(Owner(r)) =>
        /\ at[r] = "insert" => Rekeys(r) \/ Rivalled(r)
        /\ at[r] = "compare" =>
             \/ HasRow(Owner(r)) /\ profiles[Owner(r)].id = entity[r].id
             \/ Rekeys(r) \/ Rivalled(r)

\* The other updates of the profile are over when r arrives, or arrive when r is
\* over and leave column k alone.
Quiet(r, k) ==
    \A s \in Requests \ {r} :
        PutOf(s, Owner(r)) => s \in before[r] \/ (r \in before[s] /\ k \notin Sets(s))

Stands(r, k) ==
    /\ at[r] = "update" => k \in diff[r] \/ profiles[Owner(r)].set[k] = Data(r).set[k]
    /\ answer[r].status = 200 =>
         /\ profiles[Owner(r)].set[k] = Data(r).set[k]
         /\ \A s \in Requests : PutOf(s, Owner(r)) /\ r \in before[s] =>
              /\ at[s] \in {"compare", "update"} => entity[s].set[k] = Data(r).set[k]
              /\ at[s] = "update" => k \notin diff[s]

Standing ==
    \A r \in Requests : IsPut(r) /\ Apart(Owner(r)) =>
        \A k \in Sets(r) : Quiet(r, k) => Stands(r, k)

PInv ==
    /\ AInv /\ ProfilesTypeOK /\ Rows /\ ReadersOnlyRead /\ Entities
    /\ OwnKeys /\ OwnEntities /\ KnownKeys /\ OwnValues /\ OwnColumns
    /\ Unfound /\ PutErrorExplained /\ Standing

LEMMA StandingStands == Rows /\ Standing => LastWriteStands
BY DEF Rows, Standing, Stands, Quiet, LastWriteStands, HasRow

-----------------------------------------------------------------------------
(* What a step may do to the profiles.                                      *)

Creates(r) ==
    /\ at[r] = "insert" /\ IsPut(r) /\ at'[r] = "done" /\ Insertable(r) /\ InsertRow(r)

Writes(r) ==
    /\ at[r] = "update" /\ IsPut(r) /\ at'[r] = "done"
    /\ \E i \in Ids : Holds(i, entity[r].id) /\ Writable(r, i) /\ WriteRow(r, i)

\* How an update gets where it is.
Puts(r) ==
    /\ at'[r] \in Stages => profiles' = profiles
    /\ at'[r] = "refind" => at[r] = "find" /\ Owner(r) = call[r].token /\ HasRow(Owner(r))
    /\ at'[r] \in {"insert", "compare"} /\ at[r] = "find" =>
         /\ Owner(r) = call[r].token /\ ~ HasRow(Owner(r)) /\ entity'[r] = Created(r)
         /\ at'[r] = "insert" <=> Data(r).id = NoId
    /\ at'[r] = "insert" /\ at[r] # "find" =>
         /\ at[r] = "compare" /\ entity'[r] = entity[r]
         /\ \A i \in Ids : ~ Holds(i, entity[r].id)
    /\ at'[r] = "compare" /\ at[r] # "find" =>
         /\ at[r] = "refind" /\ HasRow(Owner(r))
         /\ entity'[r] = Updated(r, profiles[Owner(r)])
    /\ at'[r] = "update" =>
         /\ at[r] = "compare" /\ entity'[r] = entity[r]
         /\ \E i \in Ids : Holds(i, entity[r].id) /\ diff'[r] = Differs(entity[r], i)
    /\ answer'[r].status = 200 =>
         \/ Creates(r) \/ Writes(r)
         \/ /\ at[r] = "compare" /\ profiles' = profiles
            /\ \E i \in Ids : Holds(i, entity[r].id) /\ Differs(entity[r], i) = {}
    /\ answer'[r].status = 500 /\ r \notin failed' =>
         /\ profiles' = profiles
         /\ \/ at[r] = "insert" /\ ~ Insertable(r)
            \/ at[r] = "update" /\ \E i \in Ids : Holds(i, entity[r].id) /\ ~ Writable(r, i)

Effects(r) ==
    /\ profiles' = profiles \/ Creates(r) \/ Writes(r)
    /\ \A q \in Requests \ {r} : entity'[q] = entity[q] /\ diff'[q] = diff[q]
    /\ IsPut(r) => Puts(r)
    /\ call[r].route \in Readers => at'[r] \notin Stages

-----------------------------------------------------------------------------
(* Types.                                                                   *)

LEMMA DataType ==
    ASSUME ProfilesTypeOK, NEW r \in Requests
    PROVE  Data(r) \in Body
BY BodiesAssumption DEF ProfilesTypeOK, AccountsTypeOK, HttpTypeOK, Call, Data

LEMMA CreatedType ==
    ASSUME ProfilesTypeOK, NEW r \in Requests, Owner(r) \in Ids
    PROVE  Created(r) \in Entity
<1>1. Or(Data(r).user, Owner(r)) \in Ids
  BY DataType DEF Body, Or
<1> QED
  BY <1>1, DataType DEF Body, Entity, Created

LEMMA UpdatedType ==
    ASSUME ProfilesTypeOK, NEW r \in Requests, Owner(r) \in Ids, NEW row \in Row
    PROVE  Updated(r, row) \in Entity
<1>1. Or(Data(r).id, row.id) \in Ids \cup {NoId}
  BY DataType DEF Body, Row, Or
<1>2. Or(Data(r).user, Or(Data(r).userId, Owner(r))) \in Ids
  BY DataType DEF Body, Or
<1>3. Assign(row.set, Data(r).set) \in Given
  BY DataType DEF Body, Row, Given, Assign
<1> QED
  BY <1>1, <1>2, <1>3 DEF Entity, Updated

LEMMA NewRowType ==
    ASSUME ProfilesTypeOK, NEW r \in Requests, entity[r] # NoRow, Insertable(r)
    PROVE  [id |-> Key(r), set |-> Filled(entity[r].set)] \in Row
<1>1. entity[r] \in Entity /\ profiles \in [Ids -> Row \cup {NoRow}]
  BY DEF ProfilesTypeOK
<1>2. Key(r) \in Ids
  BY <1>1 DEF Key, Or, Entity, Ids
<1>3. Filled(entity[r].set) \in [Columns -> Values \cup {Null}]
  BY <1>1 DEF Filled, Entity, Given, Insertable, Sound
<1> QED
  BY <1>2, <1>3 DEF Row

LEMMA InsertType ==
    ASSUME ProfilesTypeOK, NEW r \in Requests, entity[r] # NoRow,
           Insertable(r), InsertRow(r)
    PROVE  profiles' \in [Ids -> Row \cup {NoRow}]
BY NewRowType DEF ProfilesTypeOK, InsertRow

LEMMA WrittenType ==
    ASSUME ProfilesTypeOK, NEW r \in Requests, entity[r] # NoRow,
           \A k \in diff[r] \cap Columns : entity[r].set[k] # Absent,
           NEW i \in Ids, Holds(i, entity[r].id), Writable(r, i)
    PROVE  [id |-> profiles[i].id,
            set |-> Written(profiles[i].set, entity[r].set, diff[r])] \in Row
<1>1. /\ entity[r] \in Entity /\ profiles \in [Ids -> Row \cup {NoRow}]
      /\ diff[r] \in SUBSET (Columns \cup {"userId"})
  BY DEF ProfilesTypeOK
<1>2. profiles[i] \in Row
  BY <1>1 DEF Holds
<1>3. Sound(r, diff[r] \cap Columns)
  BY DEF Writable
<1>4. \A k \in Columns :
        Written(profiles[i].set, entity[r].set, diff[r])[k] \in Values \cup {Null}
  <2> TAKE k \in Columns
  <2>1. profiles[i].set[k] \in Values \cup {Null}
    BY <1>2 DEF Row
  <2>2. entity[r].set[k] \in Values \cup BadValues \cup {Null, Absent}
    BY <1>1 DEF Entity, Given
  <2> QED
    BY <1>3, <2>1, <2>2 DEF Written, Sound
<1>5. Written(profiles[i].set, entity[r].set, diff[r]) \in [Columns -> Values \cup {Null}]
  BY <1>4 DEF Written
<1> QED
  BY <1>2, <1>5 DEF Row

LEMMA WriteType ==
    ASSUME ProfilesTypeOK, NEW r \in Requests, entity[r] # NoRow,
           \A k \in diff[r] \cap Columns : entity[r].set[k] # Absent,
           NEW i \in Ids, Holds(i, entity[r].id), Writable(r, i), WriteRow(r, i)
    PROVE  profiles' \in [Ids -> Row \cup {NoRow}]
<1>1. DOMAIN profiles' = Ids /\ profiles' = [j \in Ids |-> profiles'[j]]
  BY DEF WriteRow
<1>2. \A j \in Ids : profiles'[j] \in Row \cup {NoRow}
  BY WrittenType DEF WriteRow, ProfilesTypeOK
<1> QED
  BY <1>1, <1>2

\* The types of a step, from those of Http.
LEMMA ProfileTypes ==
    ASSUME PInv, NEW r \in Requests, HttpTypeOK', users' = users,
           profiles' \in [Ids -> Row \cup {NoRow}],
           entity' \in [Requests -> Entity \cup {NoRow}],
           diff' \in [Requests -> SUBSET (Columns \cup {"userId"})]
    PROVE  ProfilesTypeOK'
BY DEF PInv, ProfilesTypeOK, AccountsTypeOK

LEMMA ProfileEffects ==
    ASSUME PInv, NEW r \in Requests, ProfileStep(r), users' = users
    PROVE  Foreign(r) /\ Effects(r) /\ ProfilesTypeOK' /\ at'[r] \in Stages \cup {"done"}
<1> USE StatusValues DEF Stages
<1>1. /\ HttpTypeOK /\ users \subseteq User /\ ProfilesTypeOK
      /\ profiles \in [Ids -> Row \cup {NoRow}]
      /\ entity \in [Requests -> Entity \cup {NoRow}]
      /\ diff \in [Requests -> SUBSET (Columns \cup {"userId"})]
  BY DEF PInv, ProfilesTypeOK, AccountsTypeOK
<1>2. at[r] # "done" => answer[r].status = 0
  BY DEF PInv, AInv, Settled, Unanswered
<1>3. IsPut(r) /\ at[r] \in Saving => entity[r] \in Entity /\ entity[r].userId \in Ids
  BY <1>1 DEF PInv, Entities, Entity
<1>4. {"insert", "refind", "compare", "update"} \subseteq Steps
  BY DEF Steps
<1>5. IsPut(r) /\ at[r] = "find" => call[r].token \in Ids
  BY <1>1 DEF PInv, AInv, Passed, IsPut, Guarded, HasId, User
<1> DEFINE Routed == Moves(r) /\ HttpTypeOK' /\ at[r] # "auth" /\ at'[r] # "auth"
                     /\ answer'[r].status # 401
<1>6. ASSUME IsPut(r), Routed
      PROVE  Foreign(r) /\ (call[r].route \in Readers => at'[r] \notin Stages)
  BY <1>6 DEF Foreign, IsPut, AccountRoutes, Readers
<1>7. CASE FindProfile(r)
  <2>1. at[r] = "find" /\ IsPut(r) /\ profiles' = profiles /\ diff' = diff
    BY <1>7 DEF FindProfile
  <2>2. CASE Throw(r, "NotFound") /\ entity' = entity
    <3>1. Routed /\ at'[r] = "done" /\ answer'[r].status = 404
      BY <1>1, <2>1, <2>2, ThrowMoves, ThrowType
    <3>2. ProfilesTypeOK'
      BY <1>1, <2>1, <2>2, <3>1, ProfileTypes
    <3> QED
      BY <1>6, <2>1, <2>2, <3>1, <3>2 DEF Effects, Puts
  <2>3. CASE Owner(r) = call[r].token /\ HasRow(Owner(r))
             /\ Await(r, "refind") /\ entity' = entity
    <3>1. Routed /\ at'[r] = "refind" /\ answer' = answer
      BY <1>1, <1>2, <1>4, <2>1, <2>3, AwaitMoves, AwaitType
    <3>2. ProfilesTypeOK'
      BY <1>1, <2>1, <2>3, <3>1, ProfileTypes
    <3> QED
      BY <1>2, <1>6, <2>1, <2>3, <3>1, <3>2 DEF Effects, Puts
  <2>4. CASE /\ Owner(r) = call[r].token /\ ~ HasRow(Owner(r))
             /\ Await(r, IF Data(r).id = NoId THEN "insert" ELSE "compare")
             /\ entity' = [entity EXCEPT ![r] = Created(r)]
    <3>1. /\ Routed /\ answer' = answer
          /\ at'[r] = (IF Data(r).id = NoId THEN "insert" ELSE "compare")
      BY <1>1, <1>2, <1>4, <2>1, <2>4, AwaitMoves, AwaitType
    <3>2. Created(r) \in Entity
      BY <1>1, <1>5, <2>1, <2>4, CreatedType
    <3>3. /\ entity' \in [Requests -> Entity \cup {NoRow}] /\ entity'[r] = Created(r)
          /\ \A q \in Requests \ {r} : entity'[q] = entity[q]
      BY <1>1, <2>4, <3>2
    <3>4. ProfilesTypeOK'
      BY <1>1, <2>1, <3>1, <3>3, ProfileTypes
    <3> QED
      BY <1>2, <1>6, <2>1, <2>4, <3>1, <3>3, <3>4 DEF Effects, Puts
  <2> QED
    BY <1>7, <2>2, <2>3, <2>4 DEF FindProfile, Look, HasRow
<1>8. CASE Refind(r)
  <2>1. /\ at[r] = "refind" /\ IsPut(r) /\ profiles' = profiles /\ diff' = diff
        /\ Owner(r) \in Ids
    BY <1>8 DEF Refind, PInv, Rows
  <2>2. CASE Throw(r, "NotFound") /\ entity' = entity
    <3>1. Routed /\ at'[r] = "done" /\ answer'[r].status = 404
      BY <1>1, <2>1, <2>2, ThrowMoves, ThrowType
    <3>2. ProfilesTypeOK'
      BY <1>1, <2>1, <2>2, <3>1, ProfileTypes
    <3> QED
      BY <1>6, <2>1, <2>2, <3>1, <3>2 DEF Effects, Puts
  <2>3. CASE /\ HasRow(Owner(r)) /\ Await(r, "compare")
             /\ entity' = [entity EXCEPT ![r] = Updated(r, profiles[Owner(r)])]
    <3>1. Routed /\ at'[r] = "compare" /\ answer' = answer
      BY <1>1, <1>2, <1>4, <2>1, <2>3, AwaitMoves, AwaitType
    <3>2. Updated(r, profiles[Owner(r)]) \in Entity
      BY <1>1, <2>1, <2>3, UpdatedType DEF HasRow
    <3>3. /\ entity' \in [Requests -> Entity \cup {NoRow}]
          /\ entity'[r] = Updated(r, profiles[Owner(r)])
          /\ \A q \in Requests \ {r} : entity'[q] = entity[q]
      BY <1>1, <2>3, <3>2
    <3>4. ProfilesTypeOK'
      BY <1>1, <2>1, <3>1, <3>3, ProfileTypes
    <3> QED
      BY <1>2, <1>6, <2>1, <2>3, <3>1, <3>3, <3>4 DEF Effects, Puts
  <2> QED
    BY <1>8, <2>2, <2>3 DEF Refind, HasRow
<1>9. CASE Compare(r)
  <2>1. at[r] = "compare" /\ IsPut(r) /\ profiles' = profiles /\ entity' = entity
    BY <1>9 DEF Compare
  <2>2. CASE /\ \A i \in Ids : ~ Holds(i, entity[r].id)
             /\ Await(r, "insert") /\ diff' = diff
    <3>1. Routed /\ at'[r] = "insert" /\ answer' = answer
      BY <1>1, <1>2, <1>4, <2>1, <2>2, AwaitMoves, AwaitType
    <3>2. ProfilesTypeOK'
      BY <1>1, <2>1, <2>2, <3>1, ProfileTypes
    <3> QED
      BY <1>2, <1>6, <2>1, <2>2, <3>1, <3>2 DEF Effects, Puts
  <2>3. ASSUME NEW i \in Ids, Holds(i, entity[r].id),
               diff' = [diff EXCEPT ![r] = Differs(entity[r], i)],
               IF Differs(entity[r], i) = {}
               THEN Return(r, entity[r].userId)
               ELSE Await(r, "update")
        PROVE  Foreign(r) /\ Effects(r) /\ ProfilesTypeOK' /\ at'[r] \in {"done", "update"}
    <3>1. Differs(entity[r], i) \in SUBSET (Columns \cup {"userId"})
      BY DEF Differs
    <3>2. /\ diff' \in [Requests -> SUBSET (Columns \cup {"userId"})]
          /\ diff'[r] = Differs(entity[r], i)
          /\ \A q \in Requests \ {r} : diff'[q] = diff[q]
      BY <1>1, <2>3, <3>1
    <3>3. CASE Differs(entity[r], i) = {} /\ Return(r, entity[r].userId)
      <4>1. Routed /\ at'[r] = "done" /\ answer'[r].status = 200
        BY <1>1, <1>3, <2>1, <3>3, ReturnMoves, ReturnType DEF Posts, IsPut, Saving
      <4>2. Puts(r)
        BY <2>1, <2>3, <3>3, <4>1 DEF Puts
      <4> QED
        BY <1>1, <1>6, <2>1, <3>2, <4>1, <4>2, ProfileTypes DEF Effects
    <3>4. CASE Await(r, "update")
      <4>1. Routed /\ at'[r] = "update" /\ answer' = answer
        BY <1>1, <1>2, <1>4, <2>1, <3>4, AwaitMoves, AwaitType
      <4>2. Puts(r)
        BY <1>2, <2>1, <2>3, <3>2, <4>1 DEF Puts
      <4> QED
        BY <1>1, <1>6, <2>1, <3>2, <4>1, <4>2, ProfileTypes DEF Effects
    <3> QED
      BY <2>3, <3>3, <3>4
  <2> QED
    BY <1>9, <2>2, <2>3 DEF Compare
<1>10. CASE InsertProfile(r)
  <2>1. at[r] = "insert" /\ IsPut(r) /\ entity' = entity /\ diff' = diff
    BY <1>10 DEF InsertProfile
  <2>2. CASE ~ Insertable(r) /\ Throw(r, "QueryFailed") /\ profiles' = profiles
    <3>1. Routed /\ at'[r] = "done" /\ answer'[r].status = 500
      BY <1>1, <2>1, <2>2, ThrowMoves, ThrowType
    <3>2. ProfilesTypeOK'
      BY <1>1, <2>1, <2>2, <3>1, ProfileTypes
    <3> QED
      BY <1>6, <2>1, <2>2, <3>1, <3>2 DEF Effects, Puts
  <2>3. CASE Insertable(r) /\ InsertRow(r) /\ Return(r, entity[r].userId)
    <3>1. Routed /\ at'[r] = "done" /\ answer'[r].status = 200
      BY <1>1, <1>3, <2>1, <2>3, ReturnMoves, ReturnType DEF Posts, IsPut, Saving
    <3>2. profiles' \in [Ids -> Row \cup {NoRow}]
      BY <1>1, <2>1, <2>3, InsertType DEF PInv, Entities, Saving
    <3>3. ProfilesTypeOK' /\ Creates(r)
      BY <1>1, <2>1, <2>3, <3>1, <3>2, ProfileTypes DEF Creates
    <3> QED
      BY <1>6, <2>1, <3>1, <3>3 DEF Effects, Puts
  <2> QED
    BY <1>10, <2>2, <2>3 DEF InsertProfile
<1>11. CASE Update(r)
  <2>1. at[r] = "update" /\ IsPut(r) /\ entity' = entity /\ diff' = diff
    BY <1>11 DEF Update
  <2>2. ASSUME NEW i \in Ids, Holds(i, entity[r].id), ~ Writable(r, i),
               Throw(r, "QueryFailed"), profiles' = profiles
        PROVE  Foreign(r) /\ Effects(r) /\ ProfilesTypeOK' /\ at'[r] = "done"
    <3>1. Routed /\ at'[r] = "done" /\ answer'[r].status = 500
      BY <1>1, <2>1, <2>2, ThrowMoves, ThrowType
    <3>2. ProfilesTypeOK'
      BY <1>1, <2>1, <2>2, <3>1, ProfileTypes
    <3> QED
      BY <1>6, <2>1, <2>2, <3>1, <3>2 DEF Effects, Puts
  <2>3. ASSUME NEW i \in Ids, Holds(i, entity[r].id), Writable(r, i),
               WriteRow(r, i), Return(r, entity[r].userId)
        PROVE  Foreign(r) /\ Effects(r) /\ ProfilesTypeOK' /\ at'[r] = "done"
    <3>1. Routed /\ at'[r] = "done" /\ answer'[r].status = 200
      BY <1>1, <1>3, <2>1, <2>3, ReturnMoves, ReturnType DEF Posts, IsPut, Saving
    <3>2. profiles' \in [Ids -> Row \cup {NoRow}]
      BY <1>1, <2>1, <2>3, WriteType DEF PInv, Entities, Saving
    <3>3. ProfilesTypeOK' /\ Writes(r)
      BY <1>1, <2>1, <2>3, <3>1, <3>2, ProfileTypes DEF Writes
    <3> QED
      BY <1>6, <2>1, <3>1, <3>3 DEF Effects, Puts
  <2> QED
    BY <1>11, <2>2, <2>3 DEF Update
<1>12. CASE ReadProfile(r)
  <2> DEFINE id == IF call[r].route = "myProfile" THEN call[r].token ELSE call[r].id
  <2>1. at[r] = "read" /\ call[r].route \in Readers /\ UNCHANGED profileVars
    BY <1>12 DEF ReadProfile, Readers
  <2>2. CASE Throw(r, "NotFound")
    <3>1. Routed /\ at'[r] = "done" /\ answer'[r].status = 404
      BY <1>1, <2>1, <2>2, ThrowMoves, ThrowType
    <3> QED
      BY <1>1, <2>1, <2>2, <3>1, ProfileTypes
         DEF Foreign, Effects, IsPut, AccountRoutes, Readers, profileVars
  <2>3. CASE Return(r, id) /\ id \in Ids
    <3>1. Routed /\ at'[r] = "done" /\ answer'[r].status = 200
      BY <1>1, <2>1, <2>3, ReturnMoves, ReturnType DEF Posts, Readers
    <3> QED
      BY <1>1, <2>1, <3>1, ProfileTypes
         DEF Foreign, Effects, IsPut, AccountRoutes, Readers, profileVars
  <2> QED
    BY <1>12, <2>2, <2>3 DEF ReadProfile
<1>13. CASE ProfileCallFails(r)
  <2>1. /\ call[r].route \in Readers \cup {"putProfile"} /\ at[r] \notin {"new", "done", "auth"}
        /\ CallFails(r) /\ entity' = entity /\ diff' = diff
    BY <1>13, FaultyAssumption DEF ProfileCallFails, CallFails, Readers
  <2>2. Routed /\ at'[r] = "done" /\ r \in failed' /\ answer'[r].status = 500
    BY <1>1, <2>1, FailMoves, FailType
  <2>3. at[r] \in {"insert", "update"} => IsPut(r)
    BY <2>1 DEF PInv, ReadersOnlyRead, IsPut
  <2>4. profiles' = profiles \/ Creates(r) \/ Writes(r)
    BY <1>13, <2>2, <2>3 DEF ProfileCallFails, Creates, Writes
  <2>5. ASSUME Creates(r) PROVE ProfilesTypeOK'
    <3>1. entity[r] # NoRow
      BY <2>5 DEF Creates, PInv, Entities, Saving
    <3> QED
      BY <1>1, <2>1, <2>2, <2>5, <3>1, InsertType, ProfileTypes DEF Creates
  <2>6. ASSUME Writes(r) PROVE ProfilesTypeOK'
    <3>1. /\ entity[r] # NoRow
          /\ \A k \in diff[r] \cap Columns : entity[r].set[k] # Absent
      BY <2>6 DEF Writes, PInv, Entities, Saving
    <3> QED
      BY <1>1, <2>1, <2>2, <2>6, <3>1, WriteType, ProfileTypes DEF Writes
  <2>7. ProfilesTypeOK'
    BY <1>1, <2>1, <2>2, <2>4, <2>5, <2>6, ProfileTypes
  <2> QED
    BY <2>1, <2>2, <2>4, <2>7
       DEF Foreign, Effects, Puts, IsPut, AccountRoutes, Readers
<1> QED
  BY <1>7, <1>8, <1>9, <1>10, <1>11, <1>12, <1>13 DEF ProfileStep

-----------------------------------------------------------------------------
(* Whose ids, rows and entities are whose.                                  *)

\* What is drawn or given by an update of m is an id of i just if m is i.
LEMMA ApartKeys ==
    ASSUME NEW i \in Ids, Apart(i), NEW m \in Ids, NEW r \in Requests, PutOf(r, m)
    PROVE  /\ r \in KeysOf(i) <=> m = i
           /\ Data(r).id # NoId => (Data(r).id \in KeysOf(i) <=> m = i)
           /\ m = i => Users(r) \subseteq {i}
           /\ i \in Users(r) => m = i
           /\ NoId \notin KeysOf(i)
<1>1. r \in KeysOf(m) /\ (Data(r).id # NoId => Data(r).id \in KeysOf(m))
  BY DEF KeysOf
<1>2. m # i => KeysOf(i) \cap KeysOf(m) = {}
  BY DEF Apart
<1>3. NoId \notin KeysOf(i)
  BY IdsAssumption DEF KeysOf, Ids
<1>4. (m = i => Users(r) \subseteq {i}) /\ (i \in Users(r) => m = i)
  BY DEF Apart
<1> QED
  BY <1>1, <1>2, <1>3, <1>4

\* A step of a request that goes on.
Step(r) ==
    /\ PInv /\ AInv' /\ ProfilesTypeOK' /\ r \in Requests /\ Moves(r) /\ Effects(r)

LEMMA StepTypes ==
    ASSUME NEW r, Step(r)
    PROVE  /\ HttpTypeOK /\ users \subseteq User /\ Settled /\ Passed /\ ProfilesTypeOK
           /\ profiles \in [Ids -> Row \cup {NoRow}]
           /\ profiles' \in [Ids -> Row \cup {NoRow}]
           /\ entity \in [Requests -> Entity \cup {NoRow}]
           /\ entity' \in [Requests -> Entity \cup {NoRow}]
BY DEF Step, PInv, AInv, ProfilesTypeOK, AccountsTypeOK

LEMMA StepSame ==
    ASSUME NEW r, Step(r)
    PROVE  /\ r \in Requests /\ at[r] \notin {"new", "done"} /\ at'[r] # "new"
           /\ call' = call /\ before' = before /\ failed \subseteq failed'
           /\ answer[r].status = 0 /\ (at'[r] # "done" => answer'[r].status = 0)
           /\ \A q \in Requests \ {r} : /\ at'[q] = at[q] /\ answer'[q] = answer[q]
                                        /\ entity'[q] = entity[q] /\ diff'[q] = diff[q]
                                        /\ q \in failed' => q \in failed
           /\ \A q \in Requests : /\ r \notin before[q] /\ before[q] \subseteq Requests
                                  /\ \A s \in before[q] : at[s] = "done"
                                  /\ answer[q].status # 0 => at[q] = "done"
           /\ \A q, s \in Requests : (Overlap(q, s))' <=> Overlap(q, s)
<1>1. /\ r \in Requests /\ at[r] \notin {"new", "done"} /\ at'[r] # "new"
      /\ call' = call /\ before' = before /\ failed \subseteq failed'
      /\ at'[r] # "done" => answer'[r] = answer[r]
      /\ \A q \in Requests \ {r} : /\ at'[q] = at[q] /\ answer'[q] = answer[q]
                                   /\ q \in failed' => q \in failed
  BY DEF Step, Moves
<1>2. \A q \in Requests \ {r} : entity'[q] = entity[q] /\ diff'[q] = diff[q]
  BY DEF Step, Effects
<1>3. \A q \in Requests : at[q] # "done" => answer[q].status = 0
  BY StepTypes DEF Settled, Unanswered
<1>4. \A q \in Requests : before[q] \subseteq Requests /\ \A s \in before[q] : at[s] = "done"
  BY StepTypes DEF Settled, HttpTypeOK
<1>5. \A q, s \in Requests : (Overlap(q, s))' <=> Overlap(q, s)
  BY <1>1 DEF Overlap
<1> QED
  BY <1>1, <1>2, <1>3, <1>4, <1>5

\* The bodies, and with them what is kept apart, are the same.
LEMMA StepPuts ==
    ASSUME NEW r, Step(r)
    PROVE  /\ \A q \in Requests : /\ IsPut(q)' = IsPut(q) /\ Owner(q)' = Owner(q)
                                  /\ Data(q)' = Data(q) /\ Sets(q)' = Sets(q)
           /\ \A i : \A q \in Requests : (PutOf(q, i))' <=> PutOf(q, i)
           /\ \A i : (KeysOf(i))' = KeysOf(i)
           /\ \A i : (Apart(i))' <=> Apart(i)
<1>1. call' = call /\ \A q \in Requests : at'[q] # "new" <=> at[q] # "new"
  BY StepSame
<1>2. \A q \in Requests : /\ IsPut(q)' = IsPut(q) /\ Owner(q)' = Owner(q)
                          /\ Data(q)' = Data(q) /\ Sets(q)' = Sets(q)
                          /\ Users(q)' = Users(q)
  BY <1>1 DEF IsPut, Owner, Data, Sets, Users
<1>3. \A i : \A q \in Requests : (PutOf(q, i))' <=> PutOf(q, i)
  BY <1>1, <1>2 DEF PutOf
<1>4. \A i : (KeysOf(i))' = KeysOf(i)
  <2> TAKE i
  <2>1. {q \in Requests : (PutOf(q, i))'} = {q \in Requests : PutOf(q, i)}
    BY <1>3
  <2> DEFINE P == {q \in Requests : PutOf(q, i)}
  <2>2. {Data(q)'.id : q \in P} = {Data(q).id : q \in P}
    BY <1>2
  <2> QED
    BY <2>1, <2>2 DEF KeysOf
<1>5. \A i : (Apart(i))' <=> Apart(i)
  BY <1>2, <1>3, <1>4 DEF Apart
<1> QED
  BY <1>2, <1>3, <1>4, <1>5

\* What an update knows while it saves.
LEMMA SavingFacts ==
    ASSUME NEW r, Step(r), IsPut(r), at[r] \in Saving
    PROVE  /\ Owner(r) \in Ids /\ Owner(r) = call[r].token /\ PutOf(r, Owner(r))
           /\ entity[r] \in Entity
<1>1. r \in Requests /\ at[r] \in Stages
  BY DEF Step, Stages, Saving
<1>2. Owner(r) \in Ids /\ Owner(r) = call[r].token
  BY <1>1 DEF Step, PInv, Rows
<1>3. PutOf(r, Owner(r))
  BY <1>1, <1>2 DEF PutOf, Stages
<1> QED
  BY <1>1, <1>2, <1>3, StepTypes DEF Step, PInv, Entities

\* The rows after a step.
LEMMA RowsAfter ==
    ASSUME NEW r, Step(r), NEW j \in Ids
    PROVE  \/ profiles'[j] = profiles[j]
           \/ /\ Creates(r) /\ j = entity[r].userId /\ ~ HasRow(j) /\ HasRow(j)'
              /\ profiles'[j] = [id |-> Key(r), set |-> Filled(entity[r].set)]
           \/ /\ Writes(r)
              /\ \E i \in Ids :
                   /\ Holds(i, entity[r].id) /\ Writable(r, i) /\ j \in {i, NewOwner(r, i)}
                   /\ j = NewOwner(r, i) => HasRow(j)'
                   /\ profiles'[j] =
                        IF j = NewOwner(r, i)
                        THEN [id |-> profiles[i].id,
                              set |-> Written(profiles[i].set, entity[r].set, diff[r])]
                        ELSE NoRow
<1>1. CASE profiles' = profiles
  BY <1>1
<1>2. CASE Creates(r)
  <2>1. [id |-> Key(r), set |-> Filled(entity[r].set)] # NoRow
    BY <1>2, StepTypes, NewRowType, RowAssumption
       DEF Step, PInv, Entities, Saving, Creates
  <2> QED
    BY <1>2, <2>1, StepTypes DEF Creates, InsertRow, Insertable, MayOwn, HasRow
<1>3. CASE Writes(r)
  <2>1. PICK i \in Ids : Holds(i, entity[r].id) /\ Writable(r, i) /\ WriteRow(r, i)
    BY <1>3 DEF Writes
  <2>2. [id |-> profiles[i].id,
         set |-> Written(profiles[i].set, entity[r].set, diff[r])] # NoRow
    BY <1>3, <2>1, StepTypes, WrittenType, RowAssumption
       DEF Step, PInv, Entities, Saving, Writes
  <2> QED
    BY <1>3, <2>1, <2>2 DEF WriteRow, HasRow
<1> QED
  BY <1>1, <1>2, <1>3 DEF Step, Effects

\* The row of a user who is kept apart changes only by updates of the user.
LEMMA RowAfter ==
    ASSUME NEW r, Step(r), NEW i \in Ids, Apart(i)
    PROVE  \/ profiles'[i] = profiles[i]
           \/ /\ Creates(r) /\ Owner(r) = i /\ ~ HasRow(i) /\ HasRow(i)'
              /\ profiles'[i] = [id |-> Key(r), set |-> Filled(entity[r].set)]
           \/ /\ Writes(r) /\ Owner(r) = i /\ Holds(i, entity[r].id) /\ HasRow(i)'
              /\ NewOwner(r, i) = i
              /\ profiles'[i] = [id |-> profiles[i].id,
                                 set |-> Written(profiles[i].set, entity[r].set, diff[r])]
<1>1. CASE profiles'[i] = profiles[i]
  BY <1>1
<1>2. ASSUME Creates(r) \/ Writes(r)
      PROVE  /\ entity[r].userId = i <=> Owner(r) = i
             /\ entity[r].id # NoId => (entity[r].id \in KeysOf(i) <=> Owner(r) = i)
  BY <1>2 DEF Creates, Writes, Saving, Step, PInv, OwnEntities
<1>3. CASE /\ Creates(r) /\ i = entity[r].userId /\ ~ HasRow(i) /\ HasRow(i)'
           /\ profiles'[i] = [id |-> Key(r), set |-> Filled(entity[r].set)]
  BY <1>2, <1>3
<1>4. ASSUME Writes(r), NEW j \in Ids, Holds(j, entity[r].id), Writable(r, j),
             i \in {j, NewOwner(r, j)}, i = NewOwner(r, j) => HasRow(i)',
             profiles'[i] =
                IF i = NewOwner(r, j)
                THEN [id |-> profiles[j].id,
                      set |-> Written(profiles[j].set, entity[r].set, diff[r])]
                ELSE NoRow
      PROVE  /\ Owner(r) = i /\ j = i /\ NewOwner(r, i) = i /\ HasRow(i)'
             /\ profiles'[i] = [id |-> profiles[i].id,
                                set |-> Written(profiles[i].set, entity[r].set, diff[r])]
  <2>1. entity[r].id # NoId
    BY <1>4, StepTypes, IdsAssumption DEF Holds, Row
  <2>2. entity[r].id \in KeysOf(i) <=> j = i
    BY <1>4 DEF Step, PInv, OwnKeys, Holds, HasRow
  <2> QED
    BY <1>2, <1>4, <2>1, <2>2 DEF NewOwner
<1> QED
  BY <1>1, <1>3, <1>4, RowsAfter

\* The row that has the id of the entity is the one of the owner.
LEMMA HeldOwn ==
    ASSUME NEW r, Step(r), IsPut(r), at[r] \in Saving, Apart(Owner(r)),
           NEW i \in Ids, Holds(i, entity[r].id)
    PROVE  i = Owner(r)
<1>1. entity[r].id # NoId
  BY StepTypes, IdsAssumption DEF Holds, Row
<1>2. r \in Requests /\ Owner(r) \in Ids
  BY SavingFacts, StepSame
<1>3. entity[r].id \in KeysOf(Owner(r))
  BY <1>1, <1>2 DEF Step, PInv, OwnEntities
<1> QED
  BY <1>2, <1>3 DEF Step, PInv, OwnKeys, Holds, HasRow

LEMMA RowStays ==
    ASSUME NEW r, Step(r), NEW i \in Ids, Apart(i), HasRow(i)
    PROVE  HasRow(i)' /\ profiles'[i].id = profiles[i].id
<1>1. CASE profiles'[i] = profiles[i]
  BY <1>1 DEF HasRow
<1>2. CASE HasRow(i)' /\ profiles'[i] = [id |-> profiles[i].id,
                             set |-> Written(profiles[i].set, entity[r].set, diff[r])]
  BY <1>2
<1> QED
  BY <1>1, <1>2, RowAfter

-----------------------------------------------------------------------------
(* A step of a request preserves the invariant, part by part.               *)

\* The owner of an update behind the guard is the user of its token.
LEMMA StepOwner ==
    ASSUME NEW r, Step(r), IsPut(r),
           \/ at'[r] \in Stages \/ answer'[r].status = 200
           \/ answer'[r].status = 500 /\ r \notin failed'
    PROVE  /\ Owner(r) = call[r].token /\ Owner(r) \in Ids /\ PutOf(r, Owner(r))
           /\ Puts(r)
<1>1. Puts(r) /\ r \in Requests
  BY DEF Step, Effects
<1>2. at[r] = "find" => call[r].token \in Ids
  BY StepTypes, <1>1 DEF Passed, IsPut, Guarded, HasId, User
<1>3. at'[r] \in Stages => at[r] = "find" \/ at[r] \in Stages
  BY <1>1 DEF Puts, Stages, Creates, Writes
<1>4. at'[r] \in Stages /\ at[r] = "find" => Owner(r) = call[r].token
  BY <1>1 DEF Puts, Stages
<1>5. answer'[r].status = 200 \/ (answer'[r].status = 500 /\ r \notin failed')
        => at[r] \in Stages
  BY <1>1 DEF Puts, Stages, Creates, Writes
<1>6. at[r] \in Stages => Owner(r) = call[r].token /\ Owner(r) \in Ids
  BY <1>1 DEF Step, PInv, Rows
<1>7. Owner(r) = call[r].token /\ Owner(r) \in Ids
  <2>1. CASE at'[r] \in Stages
    BY <1>2, <1>3, <1>4, <1>6, <2>1
  <2>2. CASE at'[r] \notin Stages
    BY <1>5, <1>6, <2>2
  <2> QED
    BY <2>1, <2>2
<1> QED
  BY <1>1, <1>7, StepSame DEF PutOf

\* Where an entity comes from.
LEMMA StepEntity ==
    ASSUME NEW r, Step(r), IsPut(r), at'[r] \in Saving
    PROVE  \/ at[r] \in Saving /\ entity'[r] = entity[r]
           \/ at[r] = "find" /\ ~ HasRow(Owner(r)) /\ entity'[r] = Created(r)
           \/ /\ at[r] = "refind" /\ HasRow(Owner(r))
              /\ entity'[r] = Updated(r, profiles[Owner(r)])
<1>1. Puts(r)
  BY StepOwner DEF Saving, Stages
<1> QED
  BY <1>1 DEF Puts, Saving

LEMMA MoveRows ==
    ASSUME NEW r, Step(r)
    PROVE  Rows'
<1> SUFFICES ASSUME NEW q \in Requests, IsPut(q)
             PROVE  /\ \/ at'[q] \in Stages \/ answer'[q].status = 200
                       \/ answer'[q].status = 500 /\ q \notin failed'
                     => Owner(q) = call[q].token /\ Owner(q) \in Ids
                    /\ (at'[q] \in {"refind", "update"} \/ answer'[q].status = 200)
                       /\ Apart(Owner(q)) => profiles'[Owner(q)] # NoRow
  BY StepSame, StepPuts DEF Rows, HasRow
<1>1. CASE q # r
  <2>1. at'[q] = at[q] /\ answer'[q] = answer[q] /\ (q \notin failed' => q \notin failed)
    BY <1>1, StepSame
  <2>2. /\ \/ at[q] \in Stages \/ answer[q].status = 200
           \/ answer[q].status = 500 /\ q \notin failed
         => Owner(q) = call[q].token /\ Owner(q) \in Ids
        /\ (at[q] \in {"refind", "update"} \/ answer[q].status = 200)
           /\ Apart(Owner(q)) => HasRow(Owner(q))
    BY DEF Step, PInv, Rows
  <2> QED
    BY <2>1, <2>2, RowStays DEF Stages, HasRow
<1>2. CASE q = r
  <2>1. \/ at'[r] \in Stages \/ answer'[r].status = 200
        \/ answer'[r].status = 500 /\ r \notin failed'
      => Owner(r) = call[r].token /\ Owner(r) \in Ids /\ Puts(r)
    BY <1>2, StepOwner
  <2> SUFFICES ASSUME at'[r] \in {"refind", "update"} \/ answer'[r].status = 200,
                      Apart(Owner(r))
               PROVE  profiles'[Owner(r)] # NoRow
    BY <1>2, <2>1
  <2>2. Owner(r) \in Ids /\ Puts(r)
    BY <2>1 DEF Stages
  <2>3. ASSUME NEW i \in Ids, Holds(i, entity[r].id), at[r] \in Saving
        PROVE  HasRow(Owner(r))
    BY <1>2, <2>3, HeldOwn DEF Holds, HasRow
  <2>4. HasRow(Owner(r)) => profiles'[Owner(r)] # NoRow
    BY <2>2, RowStays DEF HasRow
  <2>5. CASE at'[r] = "refind"
    BY <2>2, <2>4, <2>5 DEF Puts
  <2>6. CASE at'[r] = "update"
    BY <2>2, <2>3, <2>4, <2>6 DEF Puts, Saving
  <2>7. CASE answer'[r].status = 200
    <3>1. CASE Creates(r)
      <4>1. entity[r].userId = Owner(r)
        BY <1>2, <2>2, <3>1 DEF Step, PInv, OwnEntities, Creates, Saving
      <4>2. [id |-> Key(r), set |-> Filled(entity[r].set)] # NoRow
        BY <1>2, <3>1, StepTypes, NewRowType, RowAssumption
           DEF Step, PInv, Entities, Saving, Creates
      <4> QED
        BY <2>2, <3>1, <4>1, <4>2, StepTypes DEF Creates, InsertRow, HasRow
    <3>2. CASE Writes(r)
      BY <2>3, <2>4, <3>2 DEF Writes, Saving
    <3>3. CASE at[r] = "compare" /\ \E i \in Ids : Holds(i, entity[r].id)
      BY <2>3, <2>4, <3>3 DEF Saving
    <3> QED
      BY <2>2, <2>7, <3>1, <3>2, <3>3 DEF Puts
  <2> QED
    BY <2>5, <2>6, <2>7
<1> QED
  BY <1>1, <1>2

LEMMA MoveReaders ==
    ASSUME NEW r, Step(r)
    PROVE  ReadersOnlyRead'
<1> SUFFICES ASSUME NEW q \in Requests, call[q].route \in Readers PROVE at'[q] \notin Stages
  BY StepSame DEF ReadersOnlyRead
<1>1. CASE q = r
  BY <1>1 DEF Step, Effects
<1>2. CASE q # r
  BY <1>2, StepSame DEF Step, PInv, ReadersOnlyRead
<1> QED
  BY <1>1, <1>2

LEMMA MoveEntities ==
    ASSUME NEW r, Step(r)
    PROVE  Entities'
<1> SUFFICES ASSUME NEW q \in Requests, IsPut(q), at'[q] \in Saving
             PROVE  /\ entity'[q] # NoRow
                    /\ \A k \in Sets(q) : entity'[q].set[k] = Data(q).set[k]
                    /\ \A k \in Columns :
                         entity'[q].set[k] \in BadValues => Data(q).set[k] \in BadValues
                    /\ at'[q] = "update" =>
                         \A k \in diff'[q] \cap Columns : entity'[q].set[k] # Absent
  BY StepPuts DEF Entities
<1>1. CASE q # r
  BY <1>1, StepSame DEF Step, PInv, Entities
<1>2. CASE q = r
  <2>1. Owner(r) \in Ids /\ Puts(r) /\ r \in Requests
    BY <1>2, StepOwner DEF Saving, Stages
  <2>2. CASE at[r] \in Saving /\ entity'[r] = entity[r]
    <3>1. at'[r] = "update" => \A k \in diff'[r] \cap Columns : entity[r].set[k] # Absent
      <4> SUFFICES ASSUME at'[r] = "update", NEW k \in Columns, k \in diff'[r]
                   PROVE  entity[r].set[k] # Absent
        OBVIOUS
      <4>1. PICK i \in Ids : diff'[r] = Differs(entity[r], i)
        BY <2>1 DEF Puts
      <4> QED
        BY <4>1, ColumnsAssumption DEF Differs
    <3> QED
      BY <1>2, <2>2, <3>1 DEF Step, PInv, Entities
  <2>3. CASE at[r] = "find" /\ entity'[r] = Created(r)
    <3>1. Created(r) # NoRow
      BY <2>1, CreatedType, StepTypes, RowAssumption
    <3>2. Created(r).set = Data(r).set
      BY DEF Created
    <3>3. at'[r] # "update"
      BY <2>1, <2>3 DEF Puts
    <3> QED
      BY <1>2, <2>3, <3>1, <3>2, <3>3
  <2>4. CASE at[r] = "refind" /\ HasRow(Owner(r)) /\ entity'[r] = Updated(r, profiles[Owner(r)])
    <3>1. profiles[Owner(r)] \in Row
      BY <2>1, <2>4, StepTypes DEF HasRow
    <3>2. Updated(r, profiles[Owner(r)]) # NoRow
      BY <2>1, <3>1, UpdatedType, StepTypes, RowAssumption
    <3>3. \A k \in Columns :
            /\ Data(r).set[k] # Absent => entity'[r].set[k] = Data(r).set[k]
            /\ Data(r).set[k] = Absent => entity'[r].set[k] = profiles[Owner(r)].set[k]
      BY <2>4 DEF Updated, Assign
    <3>4. \A k \in Columns : profiles[Owner(r)].set[k] \notin BadValues
      BY <3>1, ValuesAssumption DEF Row
    <3>5. at'[r] # "update"
      BY <2>1, <2>4 DEF Puts
    <3> QED
      BY <1>2, <2>4, <3>2, <3>3, <3>4, <3>5 DEF Sets
  <2> QED
    BY <1>2, <2>2, <2>3, <2>4, StepEntity
<1> QED
  BY <1>1, <1>2

\* The id of a row after a step: that of the row before, or that of the entity.
LEMMA KeyAfter ==
    ASSUME NEW r, Step(r), NEW j \in Ids, HasRow(j)'
    PROVE  \/ HasRow(j) /\ profiles'[j].id = profiles[j].id
           \/ Creates(r) /\ j = entity[r].userId /\ profiles'[j].id = Key(r)
           \/ /\ Writes(r) /\ profiles'[j].id = entity[r].id
              /\ \E i \in Ids : Holds(i, entity[r].id) /\ j \in {i, entity[r].userId}
<1>1. CASE profiles'[j] = profiles[j]
  BY <1>1 DEF HasRow
<1>2. CASE Creates(r) /\ j = entity[r].userId
           /\ profiles'[j] = [id |-> Key(r), set |-> Filled(entity[r].set)]
  BY <1>2
<1>3. ASSUME Writes(r), NEW i \in Ids, Holds(i, entity[r].id), j \in {i, NewOwner(r, i)},
             profiles'[j] =
                IF j = NewOwner(r, i)
                THEN [id |-> profiles[i].id,
                      set |-> Written(profiles[i].set, entity[r].set, diff[r])]
                ELSE NoRow
      PROVE  profiles'[j].id = entity[r].id /\ j \in {i, entity[r].userId}
  BY <1>3 DEF HasRow, Holds, NewOwner
<1> QED
  BY <1>1, <1>2, <1>3, RowsAfter

\* An entity is of those whose update it is.
LEMMA EntityAfter ==
    ASSUME NEW r, Step(r), IsPut(r), at'[r] \in Saving
    PROVE  /\ \A i \in Ids : Apart(i) =>
                /\ entity'[r].userId = i <=> Owner(r) = i
                /\ entity'[r].id # NoId => (entity'[r].id \in KeysOf(i) <=> Owner(r) = i)
           /\ entity'[r].id # NoId => \E m \in Ids : entity'[r].id \in KeysOf(m)
<1>1. /\ r \in Requests /\ Owner(r) \in Ids /\ PutOf(r, Owner(r)) /\ Owner(r) # NoId
      /\ Data(r) \in Body
  BY StepOwner, StepTypes, DataType, IdsAssumption DEF Saving, Stages, Step
<1>2. Data(r).id # NoId => Data(r).id \in KeysOf(Owner(r))
  BY <1>1 DEF KeysOf
<1>3. ASSUME NEW i \in Ids, Apart(i)
      PROVE  /\ Data(r).id # NoId => (Data(r).id \in KeysOf(i) <=> Owner(r) = i)
             /\ \A u \in {Data(r).userId, Data(r).user} : u # NoId => (u = i <=> Owner(r) = i)
  <2>1. /\ Data(r).id # NoId => (Data(r).id \in KeysOf(i) <=> Owner(r) = i)
        /\ Owner(r) = i => Users(r) \subseteq {i}
        /\ i \in Users(r) => Owner(r) = i
    BY <1>1, <1>3, ApartKeys
  <2> QED
    BY <2>1 DEF Users
<1>4. CASE at[r] \in Saving /\ entity'[r] = entity[r]
  BY <1>4, StepSame DEF Step, PInv, OwnEntities, KnownKeys
<1>5. CASE entity'[r] = Created(r)
  <2>1. entity'[r].id = Data(r).id
    BY <1>5 DEF Created
  <2>2. entity'[r].userId = (IF Data(r).user # NoId THEN Data(r).user ELSE Owner(r))
    BY <1>5 DEF Created, Or
  <2> QED
    BY <1>1, <1>2, <1>3, <2>1, <2>2
<1>6. CASE HasRow(Owner(r)) /\ entity'[r] = Updated(r, profiles[Owner(r)])
  <2>1. entity'[r].id = (IF Data(r).id # NoId THEN Data(r).id ELSE profiles[Owner(r)].id)
    BY <1>6 DEF Updated, Or
  <2>2. entity'[r].userId = (IF Data(r).user # NoId THEN Data(r).user
                             ELSE IF Data(r).userId # NoId THEN Data(r).userId ELSE Owner(r))
    BY <1>6 DEF Updated, Or
  <2>3. \A i \in Ids : Apart(i) => (profiles[Owner(r)].id \in KeysOf(i) <=> Owner(r) = i)
    BY <1>1, <1>6 DEF Step, PInv, OwnKeys
  <2>4. \E m \in Ids : profiles[Owner(r)].id \in KeysOf(m)
    BY <1>1, <1>6 DEF Step, PInv, KnownKeys
  <2> QED
    BY <1>1, <1>2, <1>3, <2>1, <2>2, <2>3, <2>4
<1> QED
  BY <1>4, <1>5, <1>6, StepEntity

\* The entity of an update, and the id it may be written under, are of its owner.
LEMMA SavedKeys ==
    ASSUME NEW r, Step(r), IsPut(r), at[r] \in Saving
    PROVE  /\ \A i \in Ids : Apart(i) =>
                /\ entity[r].userId = i <=> Owner(r) = i
                /\ Key(r) \in KeysOf(i) <=> Owner(r) = i
                /\ entity[r].id # NoId => (entity[r].id \in KeysOf(i) <=> Owner(r) = i)
           /\ \E m \in Ids : Key(r) \in KeysOf(m)
<1>1. r \in Requests
  BY DEF Step
<1>2. /\ Owner(r) \in Ids /\ PutOf(r, Owner(r))
  BY <1>1, SavingFacts
<1>3. r \in KeysOf(Owner(r))
  BY <1>1, <1>2 DEF KeysOf
<1>4. \A i \in Ids : Apart(i) => (r \in KeysOf(i) <=> Owner(r) = i)
  BY <1>1, <1>2, ApartKeys
<1>5. \A i \in Ids : Apart(i) =>
        /\ entity[r].userId = i <=> Owner(r) = i
        /\ entity[r].id # NoId => (entity[r].id \in KeysOf(i) <=> Owner(r) = i)
  BY <1>1 DEF Step, PInv, OwnEntities
<1>6. entity[r].id # NoId => \E m \in Ids : entity[r].id \in KeysOf(m)
  BY <1>1 DEF Step, PInv, KnownKeys
<1>7. Key(r) = (IF entity[r].id # NoId THEN entity[r].id ELSE r)
  BY DEF Key, Or
<1> QED
  BY <1>2, <1>3, <1>4, <1>5, <1>6, <1>7

LEMMA MoveKeys ==
    ASSUME NEW r, Step(r)
    PROVE  OwnKeys' /\ OwnEntities' /\ KnownKeys'
<1>1. /\ \A i, j \in Ids : Apart(i) /\ HasRow(j) => (profiles[j].id \in KeysOf(i) <=> j = i)
      /\ \A j \in Ids : HasRow(j) => \E m \in Ids : profiles[j].id \in KeysOf(m)
  BY DEF Step, PInv, OwnKeys, KnownKeys
<1>2. ASSUME NEW j \in Ids, HasRow(j)'
      PROVE  /\ \A i \in Ids : Apart(i) => (profiles'[j].id \in KeysOf(i) <=> j = i)
             /\ \E m \in Ids : profiles'[j].id \in KeysOf(m)
  <2>1. CASE HasRow(j) /\ profiles'[j].id = profiles[j].id
    BY <1>1, <2>1
  <2>2. CASE Creates(r) /\ j = entity[r].userId /\ profiles'[j].id = Key(r)
    BY <2>2, SavedKeys DEF Creates, Saving
  <2>3. ASSUME Writes(r), profiles'[j].id = entity[r].id,
               NEW m \in Ids, Holds(m, entity[r].id), j \in {m, entity[r].userId}
        PROVE  /\ \A i \in Ids : Apart(i) => (profiles'[j].id \in KeysOf(i) <=> j = i)
               /\ \E n \in Ids : profiles'[j].id \in KeysOf(n)
    <3>1. HasRow(m) /\ profiles[m].id = entity[r].id /\ entity[r].id # NoId
      BY <2>3, StepTypes, IdsAssumption DEF Holds, HasRow, Row
    <3>2. \A i \in Ids : Apart(i) => (entity[r].id \in KeysOf(i) <=> m = i)
      BY <1>1, <3>1
    <3>3. \A i \in Ids : Apart(i) => (entity[r].userId = i <=> m = i)
      BY <2>3, <3>1, <3>2, SavedKeys DEF Writes, Saving
    <3> QED
      BY <1>1, <2>3, <3>1, <3>2, <3>3
  <2> QED
    BY <1>2, <2>1, <2>2, <2>3, KeyAfter
<1>3. OwnKeys'
  BY <1>2, StepPuts DEF OwnKeys
<1>4. ASSUME NEW q \in Requests, IsPut(q), at'[q] \in Saving
      PROVE  /\ \A i \in Ids : Apart(i) =>
                  /\ entity'[q].userId = i <=> Owner(q) = i
                  /\ entity'[q].id # NoId => (entity'[q].id \in KeysOf(i) <=> Owner(q) = i)
             /\ entity'[q].id # NoId => \E m \in Ids : entity'[q].id \in KeysOf(m)
  <2>1. CASE q = r
    BY <1>4, <2>1, EntityAfter
  <2>2. CASE q # r
    <3>1. at[q] \in Saving /\ entity'[q] = entity[q]
      BY <1>4, <2>2, StepSame
    <3> QED
      BY <1>4, <3>1 DEF Step, PInv, OwnEntities, KnownKeys
  <2> QED
    BY <2>1, <2>2
<1>5. OwnEntities'
  BY <1>4, StepPuts DEF OwnEntities
<1>6. KnownKeys'
  BY <1>2, <1>4, StepPuts DEF KnownKeys
<1> QED
  BY <1>3, <1>5, <1>6

LEMMA MoveValues ==
    ASSUME NEW r, Step(r)
    PROVE  OwnValues' /\ OwnColumns'
<1>1. ASSUME NEW i \in Ids, Apart(i), HasRow(i), NEW k \in Columns, profiles[i].set[k] # Null
      PROVE  Source(i, k, profiles[i].set[k])
  BY <1>1 DEF Step, PInv, OwnValues, HasRow, Source
<1>2. ASSUME IsPut(r), at[r] \in Saving, Apart(Owner(r)), NEW k \in Columns,
             entity[r].set[k] \notin {Null, Absent}
      PROVE  Source(Owner(r), k, entity[r].set[k])
  BY <1>2 DEF Step, PInv, OwnColumns
<1>3. ASSUME NEW i \in Ids, Apart(i), profiles'[i] # NoRow, NEW k \in Columns,
             profiles'[i].set[k] # Null
      PROVE  Source(i, k, profiles'[i].set[k])
  <2>1. CASE profiles'[i] = profiles[i]
    BY <1>1, <1>3, <2>1 DEF HasRow
  <2>2. CASE Creates(r) /\ Owner(r) = i
             /\ profiles'[i] = [id |-> Key(r), set |-> Filled(entity[r].set)]
    <3>1. profiles'[i].set[k] = (IF entity[r].set[k] = Absent THEN Null ELSE entity[r].set[k])
      BY <2>2 DEF Filled
    <3> QED
      BY <1>2, <1>3, <2>2, <3>1 DEF Creates, Saving
  <2>3. CASE /\ Writes(r) /\ Owner(r) = i /\ Holds(i, entity[r].id)
             /\ profiles'[i] = [id |-> profiles[i].id,
                                set |-> Written(profiles[i].set, entity[r].set, diff[r])]
    <3>1. profiles'[i].set[k] = (IF k \in diff[r] THEN entity[r].set[k] ELSE profiles[i].set[k])
      BY <2>3 DEF Written
    <3>2. IsPut(r) /\ at[r] \in Saving /\ at[r] = "update" /\ HasRow(i)
      BY <2>3 DEF Writes, Saving, Holds, HasRow
    <3>3. k \in diff[r] => entity[r].set[k] # Absent
      BY <3>2 DEF Step, PInv, Entities
    <3> QED
      BY <1>1, <1>2, <1>3, <2>3, <3>1, <3>2, <3>3
  <2> QED
    BY <1>3, <2>1, <2>2, <2>3, RowAfter
<1>4. OwnValues'
  <2> SUFFICES ASSUME NEW i \in Ids, profiles'[i] # NoRow, Apart(i), NEW k \in Columns,
                      profiles'[i].set[k] # Null
               PROVE  \E q \in Requests : PutOf(q, i) /\ Data(q).set[k] = profiles'[i].set[k]
    BY StepPuts DEF OwnValues
  <2> QED
    BY <1>3 DEF Source
<1>5. ASSUME NEW q \in Requests, IsPut(q), at'[q] \in Saving, Apart(Owner(q)),
             NEW k \in Columns, entity'[q].set[k] \notin {Null, Absent}
      PROVE  Source(Owner(q), k, entity'[q].set[k])
  <2>1. CASE q # r
    <3>1. at[q] \in Saving /\ entity'[q] = entity[q]
      BY <1>5, <2>1, StepSame
    <3> QED
      BY <1>5, <3>1 DEF Step, PInv, OwnColumns
  <2>2. CASE q = r
    <3>1. Owner(r) \in Ids /\ PutOf(r, Owner(r))
      BY <1>5, <2>2, StepOwner DEF Saving, Stages
    <3>2. CASE at[r] \in Saving /\ entity'[r] = entity[r]
      BY <1>2, <1>5, <2>2, <3>2
    <3>3. CASE entity'[r] = Created(r)
      BY <1>5, <2>2, <3>1, <3>3 DEF Created, Source
    <3>4. CASE HasRow(Owner(r)) /\ entity'[r] = Updated(r, profiles[Owner(r)])
      <4>1. entity'[r].set[k] = (IF Data(r).set[k] # Absent THEN Data(r).set[k]
                                 ELSE profiles[Owner(r)].set[k])
        BY <3>4 DEF Updated, Assign
      <4>2. CASE Data(r).set[k] # Absent
        BY <2>2, <3>1, <4>1, <4>2 DEF Source
      <4>3. CASE Data(r).set[k] = Absent
        BY <1>1, <1>5, <2>2, <3>1, <3>4, <4>1, <4>3
      <4> QED
        BY <4>2, <4>3
    <3> QED
      BY <1>5, <2>2, <3>2, <3>3, <3>4, StepEntity
  <2> QED
    BY <2>1, <2>2
<1>6. OwnColumns'
  <2>1. \A i, k, v : Source(i, k, v) => (Source(i, k, v))'
    BY StepPuts DEF Source
  <2> QED
    BY <1>5, <2>1, StepPuts DEF OwnColumns
<1> QED
  BY <1>4, <1>6

\* What explains an error goes on to explain it.
LEMMA StaysExplained ==
    ASSUME NEW r, Step(r), NEW q \in Requests, Owner(q) \in Ids, Apart(Owner(q))
    PROVE  /\ Rekeys(q) => (Rekeys(q))'
           /\ HasRow(Owner(q)) => /\ profiles'[Owner(q)] # NoRow
                                  /\ profiles'[Owner(q)].id = profiles[Owner(q)].id
           /\ IsPut(q) /\ at[q] \notin {"new", "done"} /\ Rivalled(q)
              /\ (q = r => profiles' = profiles)
                => (Rivalled(q))'
<1>1. HasRow(Owner(q)) => /\ profiles'[Owner(q)] # NoRow
                          /\ profiles'[Owner(q)].id = profiles[Owner(q)].id
  BY RowStays DEF HasRow
<1>2. Rekeys(q) => (Rekeys(q))'
  <2>1. Data(q)' = Data(q) /\ Owner(q)' = Owner(q)
    BY StepPuts
  <2> QED
    BY <1>1, <2>1 DEF Rekeys, HasRow
<1>3. ASSUME IsPut(q), at[q] \notin {"new", "done"}, Rivalled(q), q = r => profiles' = profiles
      PROVE  (Rivalled(q))'
  <2>1. ASSUME NEW s \in before[q], PutOf(s, Owner(q))
        PROVE  answer'[s].status # 200
    <3>1. s \in Requests /\ at[s] = "done" /\ s # r
      BY <2>1, StepSame
    <3> QED
      BY <1>3, <2>1, <3>1, StepSame DEF Rivalled
  <2>2. ASSUME profiles'[Owner(q)] # NoRow
        PROVE  \E s \in Requests : Overlap(q, s) /\ PutOf(s, Owner(q))
    <3>1. CASE HasRow(Owner(q))
      BY <1>3, <3>1 DEF Rivalled
    <3>2. CASE ~ HasRow(Owner(q))
      <4>1. Creates(r) /\ Owner(r) = Owner(q)
        <5>1. \/ profiles'[Owner(q)] = profiles[Owner(q)]
              \/ Creates(r) /\ Owner(r) = Owner(q)
              \/ Holds(Owner(q), entity[r].id)
          BY RowAfter
        <5> QED
          BY <2>2, <3>2, <5>1 DEF HasRow, Holds
      <4>2. q # r
        BY <1>3, <2>2, <3>2 DEF HasRow
      <4>3. PutOf(r, Owner(q)) /\ r \in Requests
        BY <4>1, SavingFacts, StepSame DEF Creates, Saving
      <4>4. Overlap(q, r)
        BY <1>3, <4>2, <4>3, StepSame DEF Overlap
      <4> QED
        BY <4>3, <4>4
    <3> QED
      BY <3>1, <3>2
  <2>3. /\ before' = before /\ Owner(q)' = Owner(q)
        /\ \A i : \A s \in Requests : (PutOf(s, i))' <=> PutOf(s, i)
        /\ \A s \in Requests : (Overlap(q, s))' <=> Overlap(q, s)
        /\ before[q] \subseteq Requests
    BY StepSame, StepPuts
  <2> QED
    BY <2>1, <2>2, <2>3 DEF Rivalled, HasRow
<1> QED
  BY <1>1, <1>2, <1>3

LEMMA MoveUnfound ==
    ASSUME NEW r, Step(r)
    PROVE  Unfound'
<1> SUFFICES ASSUME NEW q \in Requests, IsPut(q), Apart(Owner(q)),
                    at'[q] \in {"insert", "compare"}
             PROVE  \/ (Rekeys(q))' \/ (Rivalled(q))'
                    \/ /\ at'[q] = "compare" /\ profiles'[Owner(q)] # NoRow
                       /\ profiles'[Owner(q)].id = entity'[q].id
  BY StepPuts DEF Unfound, HasRow
<1>1. CASE q # r
  <2>1. at[q] = at'[q] /\ entity'[q] = entity[q]
    BY <1>1, StepSame
  <2>2. Owner(q) \in Ids
    BY <2>1 DEF Step, PInv, Rows, Stages
  <2>3. \/ Rekeys(q) \/ Rivalled(q)
        \/ at[q] = "compare" /\ HasRow(Owner(q)) /\ profiles[Owner(q)].id = entity[q].id
    BY <2>1 DEF Step, PInv, Unfound
  <2> QED
    BY <1>1, <2>1, <2>2, <2>3, StaysExplained
<1>2. CASE q = r
  <2>1. Owner(r) \in Ids /\ Puts(r) /\ profiles' = profiles /\ r \in Requests
    BY <1>2, StepOwner DEF Puts, Stages
  <2>2. /\ Rekeys(r) => (Rekeys(r))'
        /\ Rivalled(r) => (Rivalled(r))'
    BY <1>2, <2>1, StepSame, StaysExplained
  <2>3. CASE at[r] = "find"
    <3>1. ~ HasRow(Owner(r))
      BY <1>2, <2>1, <2>3 DEF Puts
    <3>2. ASSUME NEW s \in before[r], PutOf(s, Owner(r)) PROVE answer[s].status # 200
      <4>1. s \in Requests /\ IsPut(s) /\ Owner(s) = Owner(r)
        BY <3>2, StepSame, <2>1 DEF PutOf
      <4> QED
        BY <1>2, <3>1, <4>1 DEF Step, PInv, Rows
    <3>3. Rivalled(r)
      BY <3>1, <3>2 DEF Rivalled
    <3> QED
      BY <1>2, <2>2, <3>3
  <2>4. CASE at[r] = "compare" /\ at'[r] = "insert"
    <3>1. \A i \in Ids : ~ Holds(i, entity[r].id)
      BY <2>1, <2>4 DEF Puts
    <3> QED
      BY <1>2, <2>1, <2>2, <2>4, <3>1 DEF Step, PInv, Unfound, Holds, HasRow
  <2>5. CASE at[r] = "refind" /\ at'[r] = "compare"
    <3>1. HasRow(Owner(r)) /\ entity'[r] = Updated(r, profiles[Owner(r)])
      BY <2>1, <2>5 DEF Puts
    <3>2. entity'[r].id = (IF Data(r).id # NoId THEN Data(r).id ELSE profiles[Owner(r)].id)
      BY <3>1 DEF Updated, Or
    <3> QED
      BY <1>2, <2>1, <2>2, <2>5, <3>1, <3>2 DEF Rekeys, HasRow
  <2> QED
    BY <1>2, <2>1, <2>3, <2>4, <2>5 DEF Puts
<1> QED
  BY <1>1, <1>2

LEMMA MoveError ==
    ASSUME NEW r, Step(r)
    PROVE  PutErrorExplained'
<1> SUFFICES ASSUME NEW q \in Requests, IsPut(q), answer'[q].status = 500, q \notin failed',
                    Apart(Owner(q)), ~ (Rekeys(q))',
                    \A k \in Columns : Data(q).set[k] \notin BadValues
             PROVE  /\ \E s \in Requests : Overlap(q, s) /\ PutOf(s, Owner(q))
                    /\ \A s \in before[q] : PutOf(s, Owner(q)) => answer'[s].status # 200
  <2>1. /\ before' = before
        /\ \A p \in Requests : IsPut(p)' = IsPut(p) /\ Owner(p)' = Owner(p) /\ Data(p)' = Data(p)
        /\ \A i : \A p \in Requests : (PutOf(p, i))' <=> PutOf(p, i)
        /\ \A i : (Apart(i))' <=> Apart(i)
        /\ \A p, s \in Requests : (Overlap(p, s))' <=> Overlap(p, s)
        /\ \A p \in Requests : before[p] \subseteq Requests
    BY StepSame, StepPuts
  <2> QED
    BY <2>1 DEF PutErrorExplained
<1>1. ASSUME NEW s \in before[q], PutOf(s, Owner(q)), answer[s].status # 200
      PROVE  answer'[s].status # 200
  BY <1>1, StepSame
<1>2. CASE q # r
  <2>1. answer[q].status = 500 /\ q \notin failed
    BY <1>2, StepSame
  <2>2. Owner(q) \in Ids
    BY <2>1 DEF Step, PInv, Rows
  <2>3. ~ Rekeys(q)
    BY <2>2, StaysExplained
  <2>4. /\ \E s \in Requests : Overlap(q, s) /\ PutOf(s, Owner(q))
        /\ \A s \in before[q] : PutOf(s, Owner(q)) => answer[s].status # 200
    BY <2>1, <2>3 DEF Step, PInv, PutErrorExplained
  <2> QED
    BY <1>1, <2>4
<1>3. CASE q = r
  <2>1. Owner(r) \in Ids /\ Puts(r) /\ Owner(r) = call[r].token /\ r \in Requests
    BY <1>3, StepOwner
  <2>2. /\ profiles' = profiles
        /\ \/ at[r] = "insert" /\ ~ Insertable(r)
           \/ at[r] = "update" /\ \E i \in Ids : Holds(i, entity[r].id) /\ ~ Writable(r, i)
    BY <1>3, <2>1 DEF Puts
  <2>3. at[r] \in Saving /\ ~ Rekeys(r)
    BY <1>3, <2>1, <2>2, StaysExplained DEF Saving
  <2>4. entity[r].userId = Owner(r)
    BY <1>3, <2>1, <2>3 DEF Step, PInv, OwnEntities
  <2>5. Sound(r, Columns) /\ Sound(r, diff[r] \cap Columns)
    BY <1>3, <2>1, <2>3 DEF Step, PInv, Entities, Sound
  <2>6. CASE at[r] = "update"
    <3>1. PICK i \in Ids : Holds(i, entity[r].id) /\ ~ Writable(r, i)
      BY <2>2, <2>6
    <3>2. i = Owner(r)
      BY <1>3, <2>3, <3>1, HeldOwn
    <3> QED
      BY <2>4, <2>5, <3>1, <3>2 DEF Writable, NewOwner
  <2>7. CASE at[r] = "insert" /\ ~ Insertable(r)
    <3>1. Rivalled(r)
      BY <1>3, <2>1, <2>3, <2>7 DEF Step, PInv, Unfound
    <3>2. HasId(Owner(r))
      BY <1>3, <2>1, <2>7, StepTypes DEF Passed, IsPut, Guarded
    <3>3. ~ MayOwn(entity[r].userId) => HasRow(Owner(r))
      BY <2>4, <3>2 DEF MayOwn, HasRow
    <3>4. ASSUME NEW i \in Ids, Holds(i, Key(r))
          PROVE  HasRow(Owner(r))
      <4>1. Key(r) \in KeysOf(Owner(r))
        BY <1>3, <2>1, <2>3, SavedKeys
      <4> QED
        BY <1>3, <2>1, <3>4, <4>1 DEF Step, PInv, OwnKeys, Holds, HasRow
    <3>5. HasRow(Owner(r))
      BY <2>5, <2>7, <3>3, <3>4, <2>4, <3>2 DEF Insertable, MayOwn, HasRow
    <3>6. /\ \E s \in Requests : Overlap(r, s) /\ PutOf(s, Owner(r))
          /\ \A s \in before[r] : PutOf(s, Owner(r)) => answer[s].status # 200
      BY <3>1, <3>5 DEF Rivalled
    <3> QED
      BY <1>1, <1>3, <3>6
  <2> QED
    BY <2>2, <2>6, <2>7
<1> QED
  BY <1>2, <1>3

\* An update reaches its last call, and its answer, with its columns stored or about
\* to be.
LEMMA OwnStands ==
    ASSUME NEW r, Step(r), IsPut(r), Apart(Owner(r)), NEW k \in Sets(r), Stands(r, k)
    PROVE  /\ at'[r] = "update" =>
                k \in diff'[r] \/ profiles'[Owner(r)].set[k] = Data(r).set[k]
           /\ answer'[r].status = 200 => profiles'[Owner(r)].set[k] = Data(r).set[k]
<1> SUFFICES ASSUME at'[r] = "update" \/ answer'[r].status = 200
             PROVE  /\ at'[r] = "update" =>
                         k \in diff'[r] \/ profiles'[Owner(r)].set[k] = Data(r).set[k]
                    /\ answer'[r].status = 200 =>
                         profiles'[Owner(r)].set[k] = Data(r).set[k]
  OBVIOUS
<1>1. Owner(r) \in Ids /\ Puts(r) /\ r \in Requests
  BY StepOwner, StepSame DEF Stages
<1>2. k \in Columns /\ Data(r).set[k] # Absent
  BY DEF Sets
<1>3. at[r] \in Saving => entity[r].set[k] = Data(r).set[k] /\ entity[r].userId = Owner(r)
  BY <1>1 DEF Step, PInv, Entities, OwnEntities
<1>4. ASSUME NEW i \in Ids, Holds(i, entity[r].id), at[r] = "compare",
             k \notin Differs(entity[r], i)
      PROVE  profiles[Owner(r)].set[k] = Data(r).set[k]
  <2>1. i = Owner(r)
    BY <1>4, HeldOwn DEF Saving
  <2> QED
    BY <1>2, <1>3, <1>4, <2>1 DEF Differs, Saving
<1>5. CASE at'[r] = "update"
  <2>1. /\ at[r] = "compare" /\ profiles' = profiles
        /\ \E i \in Ids : Holds(i, entity[r].id) /\ diff'[r] = Differs(entity[r], i)
    BY <1>1, <1>5 DEF Puts, Stages
  <2>2. answer'[r].status # 200
    BY <1>5, StepSame
  <2> QED
    BY <1>4, <2>1, <2>2
<1>6. CASE answer'[r].status = 200
  <2>1. CASE Creates(r)
    <3>1. profiles'[Owner(r)] = [id |-> Key(r), set |-> Filled(entity[r].set)]
      BY <1>1, <1>3, <2>1, StepTypes DEF Creates, InsertRow, Saving
    <3> QED
      BY <1>2, <1>3, <1>5, <2>1, <3>1 DEF Filled, Creates, Saving
  <2>2. CASE Writes(r)
    <3>1. PICK i \in Ids : Holds(i, entity[r].id) /\ WriteRow(r, i)
      BY <2>2 DEF Writes
    <3>2. i = Owner(r) /\ NewOwner(r, i) = Owner(r)
      BY <1>3, <2>2, <3>1, HeldOwn DEF Writes, Saving, NewOwner
    <3>3. profiles'[Owner(r)].set[k] =
            IF k \in diff[r] THEN entity[r].set[k] ELSE profiles[Owner(r)].set[k]
      BY <1>2, <3>1, <3>2 DEF WriteRow, Written
    <3> QED
      BY <1>3, <1>5, <2>2, <3>3 DEF Stands, Writes, Saving
  <2>3. CASE /\ at[r] = "compare" /\ profiles' = profiles
             /\ \E i \in Ids : Holds(i, entity[r].id) /\ Differs(entity[r], i) = {}
    BY <1>4, <1>5, <2>3
  <2> QED
    BY <1>1, <1>6, <2>1, <2>2, <2>3 DEF Puts
<1> QED
  BY <1>5, <1>6

\* An update that arrives when q is over, and leaves column k alone, leaves it alone.
LEMMA LaterStands ==
    ASSUME NEW r, Step(r), NEW q \in Requests \ {r}, IsPut(q), Apart(Owner(q)),
           NEW k \in Sets(q), Stands(q, k), answer[q].status = 200,
           PutOf(r, Owner(q)), q \in before[r], k \notin Sets(r)
    PROVE  /\ profiles'[Owner(q)].set[k] = Data(q).set[k]
           /\ at'[r] \in {"compare", "update"} => entity'[r].set[k] = Data(q).set[k]
           /\ at'[r] = "update" => k \notin diff'[r]
<1>1. /\ Owner(q) \in Ids /\ HasRow(Owner(q)) /\ k \in Columns /\ k # "userId"
      /\ IsPut(r) /\ Owner(r) = Owner(q) /\ Data(r).set[k] = Absent /\ r \in Requests
  BY ColumnsAssumption, StepSame DEF Step, PInv, Rows, Sets, PutOf
<1>2. /\ profiles[Owner(q)].set[k] = Data(q).set[k]
      /\ at[r] \in {"compare", "update"} => entity[r].set[k] = Data(q).set[k]
      /\ at[r] = "update" => k \notin diff[r]
  BY <1>1 DEF Stands
<1>3. Puts(r)
  BY <1>1 DEF Step, Effects
<1>4. profiles'[Owner(q)].set[k] = Data(q).set[k]
  <2>1. CASE profiles'[Owner(q)] = profiles[Owner(q)]
    BY <1>2, <2>1
  <2>2. CASE /\ Writes(r)
             /\ profiles'[Owner(q)] =
                  [id |-> profiles[Owner(q)].id,
                   set |-> Written(profiles[Owner(q)].set, entity[r].set, diff[r])]
    BY <1>1, <1>2, <2>2 DEF Writes, Written
  <2> QED
    BY <1>1, <2>1, <2>2, RowAfter
<1>5. ASSUME at'[r] = "update"
      PROVE  entity'[r].set[k] = Data(q).set[k] /\ k \notin diff'[r]
  <2>1. PICK i \in Ids : /\ at[r] = "compare" /\ entity'[r] = entity[r]
                         /\ Holds(i, entity[r].id) /\ diff'[r] = Differs(entity[r], i)
    BY <1>3, <1>5 DEF Puts
  <2>2. i = Owner(q)
    BY <1>1, <2>1, HeldOwn DEF Saving
  <2> QED
    BY <1>1, <1>2, <2>1, <2>2 DEF Differs
<1>6. ASSUME at'[r] = "compare"
      PROVE  entity'[r].set[k] = Data(q).set[k]
  <2>1. entity'[r] = Updated(r, profiles[Owner(q)])
    BY <1>1, <1>3, <1>6 DEF Puts
  <2> QED
    BY <1>1, <1>2, <2>1 DEF Updated, Assign
<1> QED
  BY <1>4, <1>5, <1>6

LEMMA MoveStanding ==
    ASSUME NEW r, Step(r)
    PROVE  Standing'
<1> SUFFICES ASSUME NEW q \in Requests, IsPut(q), Apart(Owner(q)), NEW k \in Sets(q),
                    Quiet(q, k)
             PROVE  (Stands(q, k))'
  <2>1. \A p \in Requests, c \in Columns : (Quiet(p, c))' <=> Quiet(p, c)
    BY StepSame, StepPuts DEF Quiet
  <2> QED
    BY <2>1, StepPuts DEF Standing, Sets
<1>1. Stands(q, k)
  BY DEF Step, PInv, Standing
<1> SUFFICES
      /\ at'[q] = "update" => k \in diff'[q] \/ profiles'[Owner(q)].set[k] = Data(q).set[k]
      /\ answer'[q].status = 200 =>
           /\ profiles'[Owner(q)].set[k] = Data(q).set[k]
           /\ \A s \in Requests : PutOf(s, Owner(q)) /\ q \in before[s] =>
                /\ at'[s] \in {"compare", "update"} => entity'[s].set[k] = Data(q).set[k]
                /\ at'[s] = "update" => k \notin diff'[s]
  <2>1. Owner(q)' = Owner(q) /\ Data(q)' = Data(q) /\ before' = before
    BY StepSame, StepPuts
  <2>2. \A s \in Requests : (PutOf(s, Owner(q)))' <=> PutOf(s, Owner(q))
    BY <2>1, StepPuts
  <2> QED
    BY <2>1, <2>2 DEF Stands
<1>2. CASE q = r
  BY <1>1, <1>2, OwnStands, StepSame
<1>3. ASSUME q # r, NEW s \in Requests \ {r}, answer[q].status = 200,
             PutOf(s, Owner(q)), q \in before[s]
      PROVE  /\ at'[s] \in {"compare", "update"} => entity'[s].set[k] = Data(q).set[k]
             /\ at'[s] = "update" => k \notin diff'[s]
  BY <1>1, <1>3, StepSame DEF Stands
<1>4. CASE q # r /\ PutOf(r, Owner(q))
  <2>1. q \in before[r] /\ k \notin Sets(r) /\ at[q] = "done"
    BY <1>4, StepSame DEF Quiet
  <2>2. at'[q] = "done" /\ answer'[q] = answer[q]
    BY <1>4, <2>1, StepSame
  <2> QED
    BY <1>1, <1>3, <1>4, <2>1, <2>2, LaterStands
<1>5. CASE q # r /\ ~ PutOf(r, Owner(q))
  <2>1. /\ at'[q] = at[q] /\ answer'[q] = answer[q] /\ diff'[q] = diff[q]
    BY <1>5, StepSame
  <2>2. at[q] = "update" \/ answer[q].status = 200 => Owner(q) \in Ids
    BY DEF Step, PInv, Rows, Stages
  <2>3. ~ ((Creates(r) \/ Writes(r)) /\ Owner(r) = Owner(q))
    BY <1>5, SavingFacts DEF Creates, Writes, Saving
  <2>4. Owner(q) \in Ids => profiles'[Owner(q)] = profiles[Owner(q)]
    BY <2>3, RowAfter
  <2> QED
    BY <1>1, <1>3, <1>5, <2>1, <2>2, <2>4 DEF Stands
<1> QED
  BY <1>2, <1>4, <1>5

-----------------------------------------------------------------------------
(* The invariant is preserved.                                              *)

\* A request goes on, on whatever route.
LEMMA MovePInv ==
    ASSUME PInv, AInv', ProfilesTypeOK', NEW r \in Requests, Moves(r), Effects(r)
    PROVE  PInv'
<1>1. Step(r)
  BY DEF Step
<1> QED
  BY <1>1, MoveRows, MoveReaders, MoveEntities, MoveKeys, MoveValues, MoveUnfound,
     MoveError, MoveStanding DEF PInv

\* What the arrival of r leaves as it is: the others, and what has been stored.
Arrival(r) ==
    /\ r \in Requests /\ at[r] = "new" /\ failed' = failed
    /\ at'[r] \notin Stages \cup {"new"} /\ answer'[r].status \in {0, 400}
    /\ profiles' = profiles /\ entity' = entity /\ diff' = diff
    /\ \A q \in Requests : before[q] \subseteq Requests /\ r \notin before[q]
    /\ \A q \in Requests \ {r} :
        /\ call'[q] = call[q] /\ at'[q] = at[q] /\ answer'[q] = answer[q]
        /\ before'[q] = before[q]

LEMMA ArrivalHolds ==
    ASSUME PInv, NEW r \in Requests, Arrive(r), UNCHANGED <<users, profileVars>>
    PROVE  Arrival(r)
<1>1. HttpTypeOK
  BY DEF PInv, AInv, AccountsTypeOK
<1>2. PICK c \in Calls :
        /\ call' = [call EXCEPT ![r] = c]
        /\ IF c.route \in Guarded
           THEN at' = [at EXCEPT ![r] = "auth"] /\ answer' = answer
           ELSE Enter(r, c)
  BY DEF Arrive
<1>3. /\ at[r] = "new" /\ failed' = failed
      /\ before' = [before EXCEPT ![r] = {s \in Requests : at[s] = "done"}]
  BY DEF Arrive
<1>4. /\ at'[r] \in {"auth", "done", "find", "bucket", "read"}
      /\ answer'[r].status \in {0, 400}
  BY <1>1, <1>2, <1>3 DEF PInv, AInv, Settled, Unanswered, Enter, FirstCall, HttpTypeOK
<1>5. \A q \in Requests \ {r} : /\ call'[q] = call[q] /\ at'[q] = at[q]
                                /\ answer'[q] = answer[q] /\ before'[q] = before[q]
  BY <1>1, <1>2, <1>3 DEF Enter, HttpTypeOK
<1>6. \A q \in Requests : before[q] \subseteq Requests /\ r \notin before[q]
  BY <1>1, <1>3 DEF HttpTypeOK, PInv, AInv, Settled
<1> QED
  BY <1>3, <1>4, <1>5, <1>6 DEF Arrival, profileVars, Stages

\* An arrival adds to the updates, and to the ids of their owners; whom it leaves
\* apart was so before, and has got no id that somebody else had.
LEMMA ArrivalPuts ==
    ASSUME NEW r, Arrival(r)
    PROVE  /\ \A q \in Requests \ {r} :
                /\ IsPut(q)' = IsPut(q) /\ Owner(q)' = Owner(q)
                /\ Data(q)' = Data(q) /\ Sets(q)' = Sets(q)
                /\ \A i : (PutOf(q, i))' <=> PutOf(q, i)
           /\ \A i : ~ PutOf(r, i)
           /\ \A i : KeysOf(i) \subseteq (KeysOf(i))'
           /\ \A i : (Apart(i))' => Apart(i)
           /\ \A i, m \in Ids : (Apart(i))' =>
                \A x \in KeysOf(m) : x \in (KeysOf(i))' <=> x \in KeysOf(i)
<1>1. \A i : ~ PutOf(r, i)
  BY DEF Arrival, PutOf
<1>2. \A q \in Requests \ {r} : /\ IsPut(q)' = IsPut(q) /\ Owner(q)' = Owner(q)
                                /\ Data(q)' = Data(q) /\ Sets(q)' = Sets(q)
                                /\ Users(q)' = Users(q)
  BY DEF Arrival, IsPut, Owner, Data, Sets, Users
<1>3. \A i : \A q \in Requests \ {r} : (PutOf(q, i))' <=> PutOf(q, i)
  BY <1>2 DEF Arrival, PutOf
<1>4. \A i : KeysOf(i) \subseteq (KeysOf(i))'
  <2> TAKE i
  <2>1. \A q \in Requests : PutOf(q, i) => (PutOf(q, i))' /\ Data(q)' = Data(q)
    BY <1>1, <1>2, <1>3
  <2> QED
    BY <2>1 DEF KeysOf
<1>5. ASSUME NEW i, (Apart(i))'
      PROVE  Apart(i)
  <2>1. \A q \in Requests, j \in Ids : PutOf(q, j) =>
            IF j = i THEN Users(q) \subseteq {i} ELSE i \notin Users(q)
    BY <1>1, <1>2, <1>3, <1>5 DEF Apart
  <2>2. \A j \in Ids \ {i} : KeysOf(i) \cap KeysOf(j) = {}
    BY <1>4, <1>5 DEF Apart
  <2> QED
    BY <2>1, <2>2 DEF Apart
<1>6. ASSUME NEW i \in Ids, NEW m \in Ids, (Apart(i))', NEW x \in KeysOf(m)
      PROVE  x \in (KeysOf(i))' <=> x \in KeysOf(i)
  BY <1>4, <1>6 DEF Apart
<1> QED
  BY <1>1, <1>2, <1>3, <1>4, <1>5, <1>6

LEMMA ArrivalKeys ==
    ASSUME PInv, NEW r, Arrival(r)
    PROVE  OwnKeys' /\ OwnEntities' /\ KnownKeys'
<1>1. /\ profiles' = profiles /\ entity' = entity
      /\ \A q \in Requests : at'[q] \in Saving => q # r /\ at[q] \in Saving
      /\ \A q \in Requests \ {r} : IsPut(q)' = IsPut(q) /\ Owner(q)' = Owner(q)
      /\ \A i : KeysOf(i) \subseteq (KeysOf(i))'
      /\ \A i : (Apart(i))' => Apart(i)
      /\ \A i, m \in Ids : (Apart(i))' =>
           \A x \in KeysOf(m) : x \in (KeysOf(i))' <=> x \in KeysOf(i)
  BY ArrivalPuts DEF Arrival, Stages, Saving
<1>2. /\ \A j \in Ids : HasRow(j) => \E m \in Ids : profiles[j].id \in KeysOf(m)
      /\ \A q \in Requests : IsPut(q) /\ at[q] \in Saving /\ entity[q].id # NoId
           => \E m \in Ids : entity[q].id \in KeysOf(m)
  BY DEF PInv, KnownKeys
<1>3. OwnKeys'
  <2> SUFFICES ASSUME NEW i \in Ids, NEW j \in Ids, (Apart(i))', HasRow(j)
               PROVE  profiles[j].id \in (KeysOf(i))' <=> j = i
    BY <1>1 DEF OwnKeys, HasRow
  <2>1. profiles[j].id \in KeysOf(i) <=> j = i
    BY <1>1 DEF PInv, OwnKeys
  <2> QED
    BY <1>1, <1>2, <2>1
<1>4. OwnEntities'
  <2> SUFFICES ASSUME NEW q \in Requests, NEW i \in Ids, IsPut(q)', at'[q] \in Saving,
                      (Apart(i))'
               PROVE  /\ entity[q].userId = i <=> Owner(q)' = i
                      /\ entity[q].id # NoId =>
                           (entity[q].id \in (KeysOf(i))' <=> Owner(q)' = i)
    BY <1>1 DEF OwnEntities
  <2>1. IsPut(q) /\ at[q] \in Saving /\ Owner(q)' = Owner(q) /\ Apart(i)
    BY <1>1
  <2>2. /\ entity[q].userId = i <=> Owner(q) = i
        /\ entity[q].id # NoId => (entity[q].id \in KeysOf(i) <=> Owner(q) = i)
    BY <2>1 DEF PInv, OwnEntities
  <2> QED
    BY <1>1, <1>2, <2>1, <2>2
<1>5. KnownKeys'
  <2>1. \A j \in Ids : HasRow(j)' <=> HasRow(j)
    BY <1>1 DEF HasRow
  <2> QED
    BY <1>1, <1>2, <2>1 DEF KnownKeys
<1> QED
  BY <1>3, <1>4, <1>5

LEMMA ArrivalValues ==
    ASSUME PInv, NEW r, Arrival(r)
    PROVE  Rows' /\ ReadersOnlyRead' /\ Entities' /\ OwnValues' /\ OwnColumns'
<1>1. /\ profiles' = profiles /\ entity' = entity /\ diff' = diff /\ failed' = failed
      /\ at'[r] \notin Stages /\ answer'[r].status \notin {200, 500}
      /\ \A q \in Requests \ {r} :
           /\ IsPut(q)' = IsPut(q) /\ Owner(q)' = Owner(q) /\ Data(q)' = Data(q)
           /\ Sets(q)' = Sets(q)
           /\ call'[q] = call[q] /\ at'[q] = at[q] /\ answer'[q] = answer[q]
      /\ \A i : (Apart(i))' => Apart(i)
  BY ArrivalPuts DEF Arrival
<1>2. Rows'
  <2> SUFFICES ASSUME NEW q \in Requests \ {r}, IsPut(q)
               PROVE  /\ \/ at[q] \in Stages \/ answer[q].status = 200
                         \/ answer[q].status = 500 /\ q \notin failed
                       => Owner(q) = call[q].token /\ Owner(q) \in Ids
                      /\ (at[q] \in {"refind", "update"} \/ answer[q].status = 200)
                         /\ Apart(Owner(q)) => HasRow(Owner(q))
    BY <1>1 DEF Rows, HasRow, Stages
  <2> QED
    BY DEF PInv, Rows
<1>3. ReadersOnlyRead'
  BY <1>1 DEF PInv, ReadersOnlyRead
<1>4. Entities'
  BY <1>1 DEF PInv, Entities, Saving, Stages
<1>5. OwnValues'
  <2> SUFFICES ASSUME NEW i \in Ids, profiles[i] # NoRow, Apart(i), NEW k \in Columns,
                      profiles[i].set[k] # Null
               PROVE  (Source(i, k, profiles[i].set[k]))'
    BY <1>1 DEF OwnValues, Source
  <2>1. Source(i, k, profiles[i].set[k])
    BY DEF PInv, OwnValues, Source
  <2>2. (Source(i, k, profiles[i].set[k]))' <=> \E q \in Requests :
            (PutOf(q, i))' /\ Data(q)'.set[k] = profiles[i].set[k]
    BY <1>1 DEF Source
  <2> QED
    BY <2>1, <2>2, ArrivalPuts DEF Source
<1>6. OwnColumns'
  <2> SUFFICES ASSUME NEW q \in Requests \ {r}, IsPut(q), at[q] \in Saving,
                      Apart(Owner(q)), NEW k \in Columns,
                      entity[q].set[k] \notin {Null, Absent}
               PROVE  (Source(Owner(q), k, entity[q].set[k]))'
    BY <1>1 DEF OwnColumns, Saving, Stages
  <2>1. Source(Owner(q), k, entity[q].set[k])
    BY DEF PInv, OwnColumns
  <2>2. (Source(Owner(q), k, entity[q].set[k]))' <=> \E s \in Requests :
            (PutOf(s, Owner(q)))' /\ Data(s)'.set[k] = entity[q].set[k]
    BY <1>1 DEF Source
  <2> QED
    BY <2>1, <2>2, ArrivalPuts DEF Source
<1> QED
  BY <1>2, <1>3, <1>4, <1>5, <1>6

LEMMA ArrivalErrors ==
    ASSUME PInv, NEW r, Arrival(r)
    PROVE  Unfound' /\ PutErrorExplained'
<1>1. /\ profiles' = profiles /\ entity' = entity /\ failed' = failed
      /\ at'[r] \notin Stages /\ answer'[r].status \notin {200, 500}
      /\ at[r] = "new" /\ at'[r] # "new"
      /\ \A q \in Requests : before[q] \subseteq Requests \ {r}
      /\ \A q \in Requests \ {r} :
           /\ IsPut(q)' = IsPut(q) /\ Owner(q)' = Owner(q) /\ Data(q)' = Data(q)
           /\ at'[q] = at[q] /\ answer'[q] = answer[q] /\ before'[q] = before[q]
           /\ \A i : (PutOf(q, i))' <=> PutOf(q, i)
      /\ \A i : ~ PutOf(r, i)
      /\ \A i : (Apart(i))' => Apart(i)
  BY ArrivalPuts DEF Arrival
<1>2. \A q, s \in Requests : Overlap(q, s) => (Overlap(q, s))' /\ q # r /\ s # r
  BY <1>1 DEF Overlap
<1>3. ASSUME NEW q \in Requests \ {r}
      PROVE  /\ (Rekeys(q))' <=> Rekeys(q)
             /\ Rivalled(q) => (Rivalled(q))'
  <2>1. (Rekeys(q))' <=> Rekeys(q)
    BY <1>1 DEF Rekeys
  <2>2. ASSUME Rivalled(q) PROVE (Rivalled(q))'
    <3>1. Owner(q)' = Owner(q) /\ before'[q] = before[q] /\ before[q] \subseteq Requests \ {r}
      BY <1>1
    <3>2. \A s \in before[q] : (PutOf(s, Owner(q)))' => answer'[s].status # 200
      BY <1>1, <2>2, <3>1 DEF Rivalled
    <3>3. HasRow(Owner(q)) =>
            \E s \in Requests : (Overlap(q, s))' /\ (PutOf(s, Owner(q)))'
      BY <1>1, <1>2, <2>2, <3>1 DEF Rivalled
    <3> QED
      BY <1>1, <3>1, <3>2, <3>3 DEF Rivalled, HasRow
  <2> QED
    BY <2>1, <2>2
<1>4. Unfound'
  <2> SUFFICES ASSUME NEW q \in Requests \ {r}, IsPut(q), Apart(Owner(q))
               PROVE  /\ at[q] = "insert" => (Rekeys(q))' \/ (Rivalled(q))'
                      /\ at[q] = "compare" =>
                           \/ HasRow(Owner(q)) /\ profiles[Owner(q)].id = entity[q].id
                           \/ (Rekeys(q))' \/ (Rivalled(q))'
    BY <1>1 DEF Unfound, HasRow, Stages
  <2> QED
    BY <1>3 DEF PInv, Unfound
<1>5. PutErrorExplained'
  <2> SUFFICES ASSUME NEW q \in Requests \ {r}, IsPut(q), answer[q].status = 500,
                      q \notin failed, Apart(Owner(q)), ~ (Rekeys(q))',
                      \A k \in Columns : Data(q).set[k] \notin BadValues
               PROVE  /\ \E s \in Requests : (Overlap(q, s))' /\ (PutOf(s, Owner(q)))'
                      /\ \A s \in before[q] :
                           (PutOf(s, Owner(q)))' => answer'[s].status # 200
    BY <1>1 DEF PutErrorExplained
  <2>1. /\ \E s \in Requests : Overlap(q, s) /\ PutOf(s, Owner(q))
        /\ \A s \in before[q] : PutOf(s, Owner(q)) => answer[s].status # 200
    BY <1>3 DEF PInv, PutErrorExplained
  <2>2. /\ \A s \in Requests : PutOf(s, Owner(q)) => s # r /\ (PutOf(s, Owner(q)))'
        /\ \A s \in Requests \ {r} : (PutOf(s, Owner(q)))' => PutOf(s, Owner(q))
    BY <1>1
  <2> QED
    BY <1>1, <1>2, <2>1, <2>2
<1> QED
  BY <1>4, <1>5

LEMMA ArrivalStanding ==
    ASSUME PInv, NEW r, Arrival(r)
    PROVE  Standing'
<1> SUFFICES ASSUME NEW q \in Requests, IsPut(q)', (Apart(Owner(q)))', NEW k \in (Sets(q))',
                    (Quiet(q, k))'
             PROVE  (Stands(q, k))'
  BY DEF Standing
<1>1. CASE q = r
  BY <1>1 DEF Arrival, Stands, Stages
<1>2. CASE q # r
  <2>1. /\ IsPut(q) /\ Owner(q)' = Owner(q) /\ Data(q)' = Data(q) /\ Sets(q)' = Sets(q)
        /\ k \in Sets(q)
    BY <1>2, ArrivalPuts
  <2>0. Apart(Owner(q))
    <3>1. \A i : (Apart(i))' => Apart(i)
      BY ArrivalPuts
    <3> QED
      BY <2>1, <3>1
  <2>2. /\ \A s \in Requests \ {r} : /\ (PutOf(s, Owner(q)))' <=> PutOf(s, Owner(q))
                                     /\ Sets(s)' = Sets(s)
        /\ ~ PutOf(r, Owner(q))
    BY <2>1, ArrivalPuts
  <2>3. \A s \in Requests \ {r} : at'[s] = at[s] /\ answer'[s] = answer[s]
                                  /\ before'[s] = before[s]
    BY DEF Arrival
  <2>4. Quiet(q, k)
    <3> SUFFICES ASSUME NEW s \in Requests \ {q}, PutOf(s, Owner(q))
                 PROVE  s \in before[q] \/ (q \in before[s] /\ k \notin Sets(s))
      BY DEF Quiet
    <3>1. s # r /\ (PutOf(s, Owner(q)))'
      BY <2>2
    <3>2. s \in before'[q] \/ (q \in before'[s] /\ k \notin Sets(s)')
      BY <2>1, <3>1 DEF Quiet
    <3> QED
      BY <1>2, <2>2, <2>3, <3>1, <3>2
  <2>5. Stands(q, k)
    BY <2>0, <2>1, <2>4 DEF PInv, Standing
  <2>6. /\ profiles' = profiles /\ entity' = entity /\ diff' = diff
        /\ at'[r] \notin {"compare", "update"}
    BY DEF Arrival, Stages
  <2> QED
    BY <1>2, <2>1, <2>2, <2>3, <2>5, <2>6 DEF Stands
<1> QED
  BY <1>1, <1>2

\* A request arrives.
LEMMA ArrivePInv ==
    ASSUME PInv, NEW r \in Requests, Arrive(r), UNCHANGED <<users, profileVars>>
    PROVE  PInv'
<1>1. Arrival(r)
  BY ArrivalHolds
<1>2. AInv' /\ ProfilesTypeOK'
  BY ArriveInv DEF PInv, AInv, AccountsTypeOK, ProfilesTypeOK, profileVars
<1> QED
  BY <1>1, <1>2, ArrivalKeys, ArrivalValues, ArrivalErrors, ArrivalStanding DEF PInv

-----------------------------------------------------------------------------
(* Profiles by itself.                                                      *)

\* The guard, and the account routes, leave the profiles alone.
LEMMA GuardEffects ==
    ASSUME PInv, NEW r \in Requests, AccountStep(r), UNCHANGED profileVars
    PROVE  Moves(r) /\ Effects(r)
<1>1. Moves(r) /\ HttpTypeOK /\ (at[r] # "done" => answer[r] = Unanswered)
  BY AccountMoves DEF PInv, AInv, AccountsTypeOK, Settled
<1>2. profiles' = profiles /\ entity' = entity /\ diff' = diff
  BY DEF profileVars
<1>3. IsPut(r) \/ call[r].route \in Readers =>
        /\ at'[r] \in {"done", "find", "bucket", "read"}
        /\ answer'[r].status \in {0, 400, 401, 500}
        /\ answer'[r].status = 500 => r \in failed'
  BY <1>1, GuardMoves DEF IsPut, Readers, AccountRoutes
<1> QED
  BY <1>1, <1>2, <1>3 DEF Effects, Puts, Stages, Readers

LEMMA ProfilesInitInv == ProfilesInit => PInv
<1> SUFFICES ASSUME ProfilesInit PROVE PInv
  OBVIOUS
<1>1. AInv
  BY AccountsInitInv DEF ProfilesInit
<1>2. \A r \in Requests : at[r] = "new" /\ before[r] = {} /\ answer[r].status = 0
  BY DEF ProfilesInit, AccountsInit, HttpInit, Unanswered
<1>3. ProfilesTypeOK /\ \A i \in Ids : profiles[i] = NoRow
  BY <1>1 DEF ProfilesInit, ProfilesTypeOK, AInv
<1>4. Rows /\ ReadersOnlyRead /\ Entities /\ OwnKeys /\ OwnEntities /\ KnownKeys
  BY <1>2, <1>3 DEF Rows, ReadersOnlyRead, Entities, OwnKeys, OwnEntities, KnownKeys,
                    Stages, Saving, HasRow
<1>5. OwnValues /\ OwnColumns /\ Unfound /\ PutErrorExplained /\ Standing
  BY <1>2, <1>3 DEF OwnValues, OwnColumns, Unfound, PutErrorExplained, Standing, Stands,
                    Saving
<1> QED
  BY <1>1, <1>3, <1>4, <1>5 DEF PInv

LEMMA ProfilesStutter ==
    ASSUME PInv, UNCHANGED <<accountVars, profileVars>>
    PROVE  PInv'
<1>1. AInv'
  BY AccountsNextInv DEF PInv
<1>2. /\ call' = call /\ at' = at /\ answer' = answer /\ before' = before /\ failed' = failed
      /\ profiles' = profiles /\ entity' = entity /\ diff' = diff
  BY DEF accountVars, httpVars, profileVars
<1>3. \A r : /\ IsPut(r)' = IsPut(r) /\ Owner(r)' = Owner(r) /\ Data(r)' = Data(r)
             /\ Sets(r)' = Sets(r) /\ Users(r)' = Users(r) /\ (Rekeys(r))' = Rekeys(r)
  BY <1>2 DEF IsPut, Owner, Data, Sets, Users, Rekeys
<1>4. \A r, i : (PutOf(r, i))' = PutOf(r, i)
  BY <1>2, <1>3 DEF PutOf
<1>5. \A i : (KeysOf(i))' = KeysOf(i)
  BY <1>3, <1>4 DEF KeysOf
<1>6. \A i : (Apart(i))' = Apart(i)
  BY <1>3, <1>4, <1>5 DEF Apart
<1>7. \A r, s : (Overlap(r, s))' = Overlap(r, s)
  BY <1>2 DEF Overlap
<1>8. ProfilesTypeOK' /\ ReadersOnlyRead'
  BY <1>1, <1>2 DEF PInv, AInv, ProfilesTypeOK, ReadersOnlyRead
<1>9. Rows'
  BY <1>2, <1>3, <1>6 DEF PInv, Rows, HasRow
<1>10. Entities'
  BY <1>2, <1>3 DEF PInv, Entities
<1>11. OwnKeys' /\ OwnEntities'
  BY <1>2, <1>3, <1>5, <1>6 DEF PInv, OwnKeys, OwnEntities, HasRow
<1>12. KnownKeys'
  BY <1>2, <1>3, <1>5 DEF PInv, KnownKeys, HasRow
<1>13. OwnValues' /\ OwnColumns'
  BY <1>2, <1>3, <1>4, <1>6 DEF PInv, OwnValues, OwnColumns, Source
<1>14. \A r \in Requests : Rivalled(r) => (Rivalled(r))'
  BY <1>2, <1>3, <1>4, <1>7 DEF Rivalled, HasRow
<1>15. Unfound'
  BY <1>2, <1>3, <1>6, <1>14 DEF PInv, Unfound, HasRow
<1>16. PutErrorExplained'
  BY <1>2, <1>3, <1>4, <1>6, <1>7 DEF PInv, PutErrorExplained
<1>17. Standing'
  <2>1. \A r \in Requests, k \in Columns : /\ (Quiet(r, k))' => Quiet(r, k)
                                           /\ Stands(r, k) => (Stands(r, k))'
    BY <1>2, <1>3, <1>4 DEF Quiet, Stands
  <2> QED
    BY <1>3, <1>6, <2>1 DEF PInv, Standing, Sets
<1> QED
  BY <1>1, <1>8, <1>9, <1>10, <1>11, <1>12, <1>13, <1>15, <1>16, <1>17 DEF PInv

=============================================================================
