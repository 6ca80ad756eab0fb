---------------------------- MODULE AccountsProofs ----------------------------
(***************************************************************************)
(* Proofs about Accounts, for any number of requests, any calls, and any   *)
(* of the awaited calls failing.                                           *)
(*                                                                         *)
(* The table users only grows, and by a row whose phone is not in it: so   *)
(* whom register or login answered is in it for good (Entitled), which is  *)
(* what a later login and the guard look for.  A registration that finds   *)
(* its phone taken when it inserts, though it had found it free, had a     *)
(* rival under way (RivalInserted).                                        *)
(*                                                                         *)
(* The other routes of the backend share the requests with these.  What a  *)
(* step of theirs may do to a request is Foreign; the invariant holds      *)
(* beside such steps, and is used with them in BackendProofs.              *)
(***************************************************************************)
EXTENDS Accounts, TLAPS

AccountRoutes == {"register", "login", "me", "user"}

-----------------------------------------------------------------------------
(* Types.                                                                   *)

LEMMA DoneType ==
    ASSUME HttpTypeOK, NEW r \in Requests, NEW status \in Statuses,
           NEW id \in Ids \cup {NoId}, Done(r, status, id), failed' \subseteq Requests
    PROVE  HttpTypeOK'
BY DEF HttpTypeOK, Done, Steps

LEMMA ThrowType ==
    ASSUME HttpTypeOK, NEW r \in Requests, NEW e, Throw(r, e)
    PROVE  HttpTypeOK'
<1>1. StatusOf(e) \in Statuses
  BY DEF StatusOf, Statuses
<1> QED
  BY <1>1, DoneType DEF Throw, HttpTypeOK

LEMMA ReturnType ==
    ASSUME HttpTypeOK, NEW r \in Requests, NEW id \in Ids \cup {NoId}, Return(r, id)
    PROVE  HttpTypeOK'
<1>1. 200 \in Statuses /\ 201 \in Statuses
  BY DEF Statuses
<1> QED
  BY <1>1, DoneType DEF Return, HttpTypeOK

LEMMA AwaitType ==
    ASSUME HttpTypeOK, NEW r \in Requests, NEW step \in Steps, Await(r, step)
    PROVE  HttpTypeOK'
BY DEF HttpTypeOK, Await

LEMMA FailType ==
    ASSUME HttpTypeOK, NEW r \in Requests, CallFails(r)
    PROVE  HttpTypeOK'
<1>1. 500 \in Statuses
  BY DEF Statuses
<1> QED
  BY <1>1, DoneType DEF CallFails, HttpTypeOK

LEMMA EnterType ==
    ASSUME HttpTypeOK, NEW r \in Requests, NEW c \in Call, Enter(r, c)
    PROVE  /\ at' \in [Requests -> Steps]
           /\ answer' \in [Requests -> [status : Statuses, id : Ids \cup {NoId}]]
BY DEF HttpTypeOK, Enter, FirstCall, Steps, Statuses

LEMMA ArriveType ==
    ASSUME HttpTypeOK, NEW r \in Requests, Arrive(r)
    PROVE  HttpTypeOK'
<1>1. PICK c \in Calls :
        /\ call' = [call EXCEPT ![r] = c]
        /\ IF c.route \in Guarded
           THEN at' = [at EXCEPT ![r] = "auth"] /\ answer' = answer
           ELSE Enter(r, c)
  BY DEF Arrive
<1>2. c \in Call
  BY CallsAssumption
<1>3. /\ at' \in [Requests -> Steps]
      /\ answer' \in [Requests -> [status : Statuses, id : Ids \cup {NoId}]]
  BY <1>1, <1>2, EnterType DEF HttpTypeOK, Steps
<1>4. before' \in [Requests -> SUBSET Requests] /\ failed' \subseteq Requests
  BY DEF Arrive, HttpTypeOK
<1> QED
  BY <1>1, <1>2, <1>3, <1>4 DEF HttpTypeOK

LEMMA NewUserType == ASSUME HttpTypeOK, NEW r \in Requests PROVE NewUser(r) \in User
BY DEF HttpTypeOK, NewUser, User, Call, Ids

LEMMA AccountStepType ==
    ASSUME AccountsTypeOK, NEW r \in Requests, AccountStep(r)
    PROVE  AccountsTypeOK'
<1>1. HttpTypeOK /\ users \subseteq User /\ call[r] \in Call /\ NewUser(r) \in User
  BY NewUserType DEF AccountsTypeOK, HttpTypeOK
<1>2. r \in Ids \cup {NoId} /\ "insert" \in Steps
  BY DEF Ids, Steps
<1>3. CASE Authenticate(r)
  <2>1. CASE Enter(r, call[r]) /\ UNCHANGED <<call, before, failed>>
    BY <1>1, <1>3, <2>1, EnterType DEF AccountsTypeOK, HttpTypeOK, Authenticate
  <2>2. CASE Throw(r, "Unauthorized")
    BY <1>1, <1>3, <2>2, ThrowType DEF AccountsTypeOK, Authenticate
  <2> QED
    BY <1>3, <2>1, <2>2 DEF Authenticate
<1>4. CASE FindForRegister(r)
  BY <1>1, <1>2, <1>4, ThrowType, AwaitType DEF AccountsTypeOK, FindForRegister
<1>5. CASE InsertUser(r)
  BY <1>1, <1>2, <1>5, ThrowType, ReturnType DEF AccountsTypeOK, InsertUser
<1>6. CASE Login(r)
  BY <1>1, <1>6, ThrowType, ReturnType DEF AccountsTypeOK, Login, User
<1>7. CASE ReadUser(r)
  BY <1>1, <1>7, ThrowType, ReturnType DEF AccountsTypeOK, ReadUser, Call
<1>8. CASE AccountCallFails(r)
  BY <1>1, <1>8, FailType DEF AccountsTypeOK, AccountCallFails
<1> QED
  BY <1>3, <1>4, <1>5, <1>6, <1>7, <1>8 DEF AccountStep

LEMMA AccountsInitType == AccountsInit => AccountsTypeOK
<1> SUFFICES ASSUME AccountsInit PROVE AccountsTypeOK
  OBVIOUS
<1>1. (CHOOSE c \in Calls : TRUE) \in Call
  BY CallsAssumption
<1>2. users \subseteq User
  BY InitUsersAssumption DEF AccountsInit, User, Ids
<1> QED
  BY <1>1, <1>2
     DEF AccountsInit, HttpInit, AccountsTypeOK, HttpTypeOK, Unanswered, Steps, Statuses

-----------------------------------------------------------------------------
(* What a step of a request leaves alone.                                   *)

\* Request r has gone on: it is under way before, and nobody else is touched.
Moves(r) ==
    /\ at[r] \notin {"new", "done"} /\ at'[r] # "new"
    /\ call' = call /\ before' = before
    /\ at'[r] # "done" => answer'[r] = answer[r]
    /\ \A q \in Requests \ {r} : /\ at'[q] = at[q] /\ answer'[q] = answer[q]
                                 /\ q \in failed' => q \in failed
    /\ failed \subseteq failed'

LEMMA DoneMoves ==
    ASSUME HttpTypeOK, NEW r \in Requests, at[r] \notin {"new", "done"},
           NEW status, NEW id, Done(r, status, id), failed' \in {failed, failed \cup {r}}
    PROVE  /\ Moves(r) /\ at'[r] = "done"
           /\ answer'[r].status = status /\ answer'[r].id = id
BY DEF HttpTypeOK, Done, Moves

LEMMA ThrowMoves ==
    ASSUME HttpTypeOK, NEW r \in Requests, at[r] \notin {"new", "done"}, NEW e, Throw(r, e)
    PROVE  /\ Moves(r) /\ at'[r] = "done" /\ failed' = failed
           /\ answer'[r].status = StatusOf(e)
BY DoneMoves DEF Throw

LEMMA ReturnMoves ==
    ASSUME HttpTypeOK, NEW r \in Requests, at[r] \notin {"new", "done"}, NEW id, Return(r, id)
    PROVE  /\ Moves(r) /\ at'[r] = "done" /\ failed' = failed
           /\ answer'[r].status = (IF call[r].route \in Posts THEN 201 ELSE 200)
           /\ answer'[r].id = id
BY DoneMoves DEF Return

LEMMA AwaitMoves ==
    ASSUME HttpTypeOK, NEW r \in Requests, at[r] \notin {"new", "done"},
           NEW step, step # "new", Await(r, step)
    PROVE  Moves(r) /\ at'[r] = step /\ answer' = answer /\ failed' = failed
BY DEF HttpTypeOK, Await, Moves

LEMMA StatusValues ==
    /\ StatusOf("Unauthorized") = 401 /\ StatusOf("NotFound") = 404
    /\ StatusOf("Conflict") = 409 /\ StatusOf("QueryFailed") = 500
BY DEF StatusOf

LEMMA FailMoves ==
    ASSUME HttpTypeOK, NEW r \in Requests, at[r] \notin {"new", "done"}, CallFails(r)
    PROVE  /\ Moves(r) /\ at'[r] = "done" /\ r \in failed'
           /\ answer'[r].status = 500
BY DoneMoves DEF CallFails

\* Every step of an account route moves its request; users stays as it is, or r
\* inserts its row and is done.
Inserts(r) ==
    /\ at[r] = "insert" /\ call[r].route = "register" /\ ~ Taken(r)
    /\ at'[r] = "done" /\ users' = users \cup {NewUser(r)}

\* What the answers of the account routes mean, for each of them.
Answers(r) ==
    /\ at'[r] # "auth"
    /\ call[r].route \in Guarded /\ at'[r] # "done" => HasId(call[r].token)
    /\ at'[r] = "insert" => users' = users /\ ~ Taken(r)
    /\ answer'[r].status = 201 /\ call[r].route = "register"
         => Inserts(r) /\ answer'[r].id = r
    /\ answer'[r].status = 201 /\ call[r].route = "login"
         => \E u \in users : Credentials(u, r) /\ answer'[r].id = u.id
    /\ answer'[r].status = 401 /\ call[r].route = "login"
         => \A u \in users : ~ Credentials(u, r)
    /\ answer'[r].status = 401 /\ call[r].route \in Guarded => ~ HasId(call[r].token)
    /\ answer'[r].status = 500 /\ call[r].route = "register" /\ r \notin failed'
         => at[r] = "insert" /\ Taken(r)

AuthGuarded == \A r \in Requests : at[r] = "auth" => call[r].route \in Guarded

Settled ==
    \A r \in Requests :
        /\ at[r] # "done" => answer[r] = Unanswered
        /\ \A s \in before[r] : at[s] = "done"

LEMMA AccountMoves ==
    ASSUME HttpTypeOK, AuthGuarded, Settled, NEW r \in Requests, AccountStep(r)
    PROVE  Moves(r) /\ Answers(r) /\ (users' = users \/ Inserts(r))
<1> USE StatusValues
<1>1. at[r] # "done" => answer[r].status = 0
  BY DEF Settled, Unanswered
<1>2. CASE Authenticate(r)
  <2>1. at[r] = "auth" /\ call[r].route \in Guarded /\ users' = users
    BY <1>2 DEF Authenticate, AuthGuarded
  <2>2. CASE Enter(r, call[r]) /\ UNCHANGED <<call, before, failed>> /\ HasId(call[r].token)
    <3>1. /\ at'[r] \in {"done", "find", "bucket", "read"}
          /\ answer'[r].status \in {0, 400}
          /\ at'[r] # "done" => answer'[r] = answer[r]
          /\ \A q \in Requests \ {r} : at'[q] = at[q] /\ answer'[q] = answer[q]
      BY <1>1, <2>1, <2>2 DEF Enter, FirstCall, HttpTypeOK
    <3> QED
      BY <2>1, <2>2, <3>1 DEF Moves, Answers
  <2>3. CASE Throw(r, "Unauthorized") /\ ~ HasId(call[r].token)
    <3>1. Moves(r) /\ at'[r] = "done" /\ answer'[r].status = 401
      BY <2>1, <2>3, ThrowMoves
    <3> QED
      BY <2>1, <2>3, <3>1 DEF Answers, Guarded
  <2> QED
    BY <1>2, <2>2, <2>3 DEF Authenticate
<1>3. CASE FindForRegister(r)
  <2>1. CASE Taken(r)
    <3>1. Moves(r) /\ at'[r] = "done" /\ answer'[r].status = 409
      BY <1>3, <2>1, ThrowMoves DEF FindForRegister
    <3> QED
      BY <1>3, <3>1 DEF Answers, FindForRegister, Guarded
  <2>2. CASE ~ Taken(r)
    <3>1. Moves(r) /\ at'[r] = "insert" /\ answer' = answer
      BY <1>3, <2>2, AwaitMoves DEF FindForRegister
    <3>2. call[r].route = "register" /\ users' = users /\ answer'[r].status = 0
      BY <1>1, <1>3, <3>1 DEF FindForRegister
    <3> QED
      BY <2>2, <3>1, <3>2 DEF Answers, Guarded
  <2> QED
    BY <2>1, <2>2
<1>4. CASE InsertUser(r)
  <2>1. CASE Taken(r)
    <3>1. Moves(r) /\ at'[r] = "done" /\ answer'[r].status = 500
      BY <1>4, <2>1, ThrowMoves DEF InsertUser
    <3> QED
      BY <1>4, <2>1, <3>1 DEF Answers, InsertUser
  <2>2. CASE ~ Taken(r)
    <3>1. /\ Moves(r) /\ at'[r] = "done"
          /\ answer'[r].status = 201 /\ answer'[r].id = r
      BY <1>4, <2>2, ReturnMoves DEF InsertUser, Posts
    <3> QED
      BY <1>4, <2>2, <3>1 DEF Answers, InsertUser, Inserts, Guarded
  <2> QED
    BY <2>1, <2>2
<1>5. CASE Login(r)
  <2>1. at[r] = "find" /\ call[r].route = "login" /\ users' = users
    BY <1>5 DEF Login
  <2>2. ASSUME NEW u \in users, Credentials(u, r), Return(r, u.id)
        PROVE  Moves(r) /\ Answers(r)
    <3>1. /\ Moves(r) /\ at'[r] = "done"
          /\ answer'[r].status = 201 /\ answer'[r].id = u.id
      BY <2>1, <2>2, ReturnMoves DEF Posts
    <3> QED
      BY <2>1, <2>2, <3>1 DEF Answers, Guarded
  <2>3. CASE (\A u \in users : ~ Credentials(u, r)) /\ Throw(r, "Unauthorized")
    <3>1. Moves(r) /\ at'[r] = "done" /\ answer'[r].status = 401
      BY <2>1, <2>3, ThrowMoves
    <3> QED
      BY <2>1, <2>3, <3>1 DEF Answers, Guarded
  <2> QED
    BY <1>5, <2>1, <2>2, <2>3 DEF Login
<1>6. CASE ReadUser(r)
  <2>1. at[r] = "read" /\ call[r].route \in {"me", "user"} /\ users' = users
    BY <1>6 DEF ReadUser
  <2>2. Moves(r) /\ at'[r] = "done" /\ answer'[r].status \in {200, 404}
    BY <1>6, <2>1, ReturnMoves, ThrowMoves DEF ReadUser, Posts
  <2> QED
    BY <2>1, <2>2 DEF Answers
<1>7. CASE AccountCallFails(r)
  <2>1. at[r] \notin {"new", "done"} /\ CallFails(r)
    BY <1>7, FaultyAssumption DEF AccountCallFails, CallFails
  <2>2. Moves(r) /\ at'[r] = "done" /\ r \in failed' /\ answer'[r].status = 500
    BY <2>1, FailMoves
  <2>3. users' = users \/ Inserts(r)
    BY <1>7, <2>2 DEF AccountCallFails, Inserts
  <2> QED
    BY <2>2, <2>3 DEF Answers
<1> QED
  BY <1>2, <1>3, <1>4, <1>5, <1>6, <1>7 DEF AccountStep

-----------------------------------------------------------------------------
(* The invariant.                                                           *)

\* The table keeps the rows it began with, has one row per id and phone, and the
\* row of a request only when that request is over.
Table ==
    /\ InitUsers \subseteq users
    /\ \A u, v \in users : u.id = v.id \/ u.phone = v.phone => u = v
    /\ \A u \in users : u.id \in Requests => at[u.id] = "done"

\* Whoever register or login answered is in the table with what they gave.
Entitled ==
    \A r \in Requests :
        Answered201(r, {"register", "login"}) =>
            \E u \in users : Credentials(u, r) /\ u.id = answer[r].id

Known ==
    \A r \in Requests :
        at[r] # "new" => call[r].token = NoId \/ HasId(call[r].token)

Rival(r, s) ==
    Overlap(r, s) /\ call[s].route = "register" /\ call[s].phone = call[r].phone

Passed ==
    \A r \in Requests :
        call[r].route \in Guarded /\ at[r] \notin {"new", "auth", "done"}
            => HasId(call[r].token)

RivalInserted ==
    \A r \in Requests :
        at[r] = "insert" /\ call[r].route = "register" /\ Taken(r)
            => \E s \in Requests : Rival(r, s)

AInv ==
    /\ AccountsTypeOK /\ AuthGuarded /\ Settled /\ Table /\ Entitled /\ Known /\ Passed
    /\ RivalInserted /\ RegisteredCanLogin /\ TokensHonoured /\ RegisterErrorExplained

\* A step of a route that is none of these.
Foreign(r) ==
    /\ Moves(r) /\ users' = users
    /\ call[r].route \notin AccountRoutes
    /\ at[r] # "auth" /\ at'[r] # "auth" /\ answer'[r].status # 401

LEMMA AccountsInitInv == AccountsInit => AInv
<1> SUFFICES ASSUME AccountsInit PROVE AInv
  OBVIOUS
<1>1. AccountsTypeOK
  BY AccountsInitType
<1>2. /\ \A r \in Requests : at[r] = "new" /\ before[r] = {} /\ answer[r] = Unanswered
                            /\ answer[r].status = 0
      /\ users = InitUsers
  BY DEF AccountsInit, HttpInit, Unanswered
<1>3. Table
  BY <1>2, InitUsersAssumption, IdsAssumption DEF Table
<1>4. AuthGuarded /\ Settled /\ Entitled /\ Known /\ Passed /\ RivalInserted
  BY <1>2 DEF AuthGuarded, Settled, Entitled, Answered201, Known, Passed, RivalInserted
<1>5. RegisteredCanLogin /\ TokensHonoured /\ RegisterErrorExplained
  BY <1>2 DEF RegisteredCanLogin, TokensHonoured, RegisterErrorExplained
<1> QED
  BY <1>1, <1>3, <1>4, <1>5 DEF AInv

\* A request arrives.
LEMMA ArriveInv ==
    ASSUME AInv, NEW r \in Requests, Arrive(r), users' = users
    PROVE  AInv'
<1>1. HttpTypeOK /\ users \subseteq User
  BY DEF AInv, AccountsTypeOK
<1>2. PICK c \in Calls :
        /\ c.token \in Issued \cup {NoId}
        /\ call' = [call EXCEPT ![r] = c]
        /\ IF c.route \in Guarded
           THEN at' = [at EXCEPT ![r] = "auth"] /\ answer' = answer
           ELSE Enter(r, c)
  BY DEF Arrive
<1>3. /\ at[r] = "new" /\ failed' = failed
      /\ before' = [before EXCEPT ![r] = {s \in Requests : at[s] = "done"}]
  BY DEF Arrive
<1>4. /\ call'[r] = c /\ at'[r] \in {"auth", "done", "find", "bucket", "read"}
      /\ at'[r] = "auth" => c.route \in Guarded
      /\ at'[r] \in {"find", "bucket", "read"} => c.route \notin Guarded
      /\ answer'[r].status \in {0, 400}
      /\ at'[r] # "done" => answer'[r] = Unanswered
  BY <1>1, <1>2, <1>3 DEF AInv, Settled, Unanswered, Enter, FirstCall, HttpTypeOK
<1>5. \A q \in Requests \ {r} : /\ call'[q] = call[q] /\ at'[q] = at[q]
                                /\ answer'[q] = answer[q] /\ before'[q] = before[q]
  BY <1>1, <1>2, <1>3 DEF Enter, HttpTypeOK
<1>6. before'[r] = {s \in Requests : at[s] = "done"}
  BY <1>1, <1>3 DEF HttpTypeOK
<1>7. \A q \in Requests : before[q] \subseteq Requests
  BY <1>1 DEF HttpTypeOK
<1>8. AccountsTypeOK'
  BY <1>1, ArriveType DEF AccountsTypeOK
<1>9. AuthGuarded' /\ Settled'
  BY <1>3, <1>4, <1>5, <1>6, <1>7 DEF AInv, AuthGuarded, Settled
<1>10. Table'
  BY <1>3, <1>4, <1>5 DEF AInv, Table
<1>11. Entitled'
  BY <1>4, <1>5 DEF AInv, Entitled, Answered201, Credentials
<1>12. Known'
  <2>1. c.token = NoId \/ HasId(c.token)
    <3>1. CASE c.token \in Seeds
      BY <3>1, InitUsersAssumption DEF AInv, Table, HasId
    <3>2. ASSUME NEW s \in Requests, c.token = answer[s].id,
                 Answered201(s, {"register", "login"})
          PROVE  HasId(c.token)
      BY <3>2 DEF AInv, Entitled, HasId
    <3> QED
      BY <1>2, <3>1, <3>2 DEF Issued, Answered201
  <2>2. HasId(c.token) => (HasId(c.token))'
    BY DEF HasId
  <2> QED
    BY <1>4, <1>5, <2>1, <2>2 DEF AInv, Known, HasId
<1>17. Passed'
  BY <1>4, <1>5 DEF AInv, Passed, HasId
<1>13. RivalInserted'
  <2> SUFFICES ASSUME NEW q \in Requests, at'[q] = "insert",
                      call'[q].route = "register", (Taken(q))'
               PROVE  \E s \in Requests : (Rival(q, s))'
    BY DEF RivalInserted
  <2>1. q # r
    BY <1>4
  <2>2. PICK s \in Requests : Rival(q, s)
    BY <1>5, <2>1 DEF AInv, RivalInserted, Taken
  <2>3. s # r
    BY <1>3, <2>2 DEF Rival, Overlap
  <2> QED
    BY <1>5, <2>1, <2>2, <2>3 DEF Rival, Overlap
<1>14. RegisteredCanLogin'
  BY <1>3, <1>4, <1>5, <1>7 DEF AInv, RegisteredCanLogin, Answered201, Settled
<1>15. TokensHonoured'
  BY <1>4, <1>5 DEF AInv, TokensHonoured
<1>16. RegisterErrorExplained'
  <2> SUFFICES ASSUME NEW q \in Requests, call'[q].route = "register",
                      answer'[q].status = 500, q \notin failed'
               PROVE  \E s \in Requests : (Rival(q, s))'
    BY DEF RegisterErrorExplained, Rival
  <2>1. q # r
    BY <1>4
  <2>2. PICK s \in Requests : Rival(q, s)
    BY <1>3, <1>5, <2>1 DEF AInv, RegisterErrorExplained, Rival
  <2>3. s # r
    BY <1>3, <2>2 DEF Rival, Overlap
  <2> QED
    BY <1>5, <2>1, <2>2, <2>3 DEF Rival, Overlap
<1> QED
  BY <1>8, <1>9, <1>10, <1>11, <1>12, <1>13, <1>14, <1>15, <1>16, <1>17
     DEF AInv

\* A request goes on, on an account route or another one.
LEMMA MoveInv ==
    ASSUME AInv, AccountsTypeOK', NEW r \in Requests,
           Moves(r), users' = users \/ Inserts(r), Answers(r) \/ Foreign(r)
    PROVE  AInv'
<1>1. HttpTypeOK /\ users \subseteq User
  BY DEF AInv, AccountsTypeOK
<1>2. /\ at[r] \notin {"new", "done"} /\ at'[r] # "new"
      /\ call' = call /\ before' = before
      /\ at'[r] # "done" => answer'[r] = answer[r]
      /\ \A q \in Requests \ {r} : /\ at'[q] = at[q] /\ answer'[q] = answer[q]
                                   /\ q \in failed' => q \in failed
      /\ failed \subseteq failed' /\ at'[r] # "auth" /\ users \subseteq users'
  BY DEF Moves, Answers, Foreign, Inserts
<1>3. \A q \in Requests : before[q] \subseteq Requests /\ \A s \in before[q] : s # r
  BY <1>1, <1>2 DEF HttpTypeOK, AInv, Settled
<1>4. AuthGuarded' /\ Settled'
  BY <1>2, <1>3 DEF AInv, AuthGuarded, Settled
<1>5. Table'
  <2>1. CASE users' = users
    BY <1>2, <2>1 DEF AInv, Table
  <2>2. CASE Inserts(r)
    <3>1. NewUser(r).id = r /\ NewUser(r).phone = call[r].phone
      BY DEF NewUser
    <3>2. \A u \in users : u.id # r /\ u.phone # call[r].phone
      BY <1>2, <2>2 DEF AInv, Table, Inserts, Taken
    <3> HIDE DEF NewUser
    <3> QED
      BY <1>2, <2>2, <3>1, <3>2 DEF AInv, Table, Inserts
  <2> QED
    BY <2>1, <2>2
<1>6. Entitled'
  <2> SUFFICES ASSUME NEW q \in Requests, (Answered201(q, {"register", "login"}))'
               PROVE  \E u \in users' : (Credentials(u, q))' /\ u.id = answer'[q].id
    BY DEF Entitled
  <2>1. CASE q # r
    BY <1>2, <2>1 DEF AInv, Entitled, Answered201, Credentials
  <2>2. CASE q = r /\ call[r].route = "register"
    <3>1. Inserts(r) /\ answer'[r].id = r
      BY <1>2, <2>2 DEF Answered201, Answers, Foreign, AccountRoutes
    <3>2. /\ NewUser(r).id = r /\ NewUser(r).phone = call[r].phone
          /\ NewUser(r).password = call[r].password
      BY DEF NewUser
    <3> QED
      BY <1>2, <2>2, <3>1, <3>2 DEF Inserts, Credentials
  <2>3. CASE q = r /\ call[r].route = "login"
    BY <1>2, <2>3 DEF Answered201, Answers, Foreign, AccountRoutes, Credentials
  <2> QED
    BY <1>2, <2>1, <2>2, <2>3 DEF Answered201
<1>7. Known' /\ Passed'
  BY <1>2 DEF AInv, Known, Passed, HasId, Answers, Foreign
<1>8. \A q, s \in Requests : Overlap(q, s) => (Overlap(q, s))'
  BY <1>2 DEF Overlap
<1>9. RivalInserted'
  <2> SUFFICES ASSUME NEW q \in Requests, at'[q] = "insert",
                      call[q].route = "register", (Taken(q))'
               PROVE  \E s \in Requests : (Rival(q, s))'
    BY <1>2 DEF RivalInserted
  <2>1. q # r
    BY <1>2 DEF Answers, Foreign, AccountRoutes, Taken
  <2>2. at[q] = "insert"
    BY <1>2, <2>1
  <2>3. CASE Taken(q)
    BY <1>2, <1>8, <2>2, <2>3 DEF AInv, RivalInserted, Rival
  <2>4. CASE ~ Taken(q)
    <3>1. Inserts(r) /\ call[r].phone = call[q].phone
      BY <1>2, <2>4 DEF Taken, Inserts, NewUser
    <3>2. Overlap(q, r)
      BY <1>2, <1>3, <2>1, <2>2 DEF Overlap, AInv, Settled
    <3> QED
      BY <1>2, <1>8, <3>1, <3>2 DEF Rival, Inserts
  <2> QED
    BY <2>3, <2>4
<1>10. RegisteredCanLogin'
  <2> SUFFICES ASSUME NEW q \in Requests, NEW s \in before[q],
                      call[q].route = "login", answer'[q].status = 401,
                      (Answered201(s, {"register", "login"}))',
                      call[s].phone = call[q].phone, call[s].password = call[q].password
               PROVE  FALSE
    BY <1>2 DEF RegisteredCanLogin, Answered201
  <2>1. s # r /\ s \in Requests /\ Answered201(s, {"register", "login"})
    BY <1>2, <1>3 DEF Answered201
  <2>2. PICK u \in users : Credentials(u, s)
    BY <2>1 DEF AInv, Entitled
  <2>3. CASE q = r
    BY <2>2, <2>3 DEF Answers, Foreign, AccountRoutes, Credentials
  <2>4. CASE q # r
    BY <1>2, <2>1, <2>4 DEF AInv, RegisteredCanLogin
  <2> QED
    BY <2>3, <2>4
<1>11. TokensHonoured'
  BY <1>2 DEF AInv, TokensHonoured, Known, Answers, Foreign
<1>12. RegisterErrorExplained'
  <2> SUFFICES ASSUME NEW q \in Requests, call[q].route = "register",
                      answer'[q].status = 500, q \notin failed'
               PROVE  \E s \in Requests : (Rival(q, s))'
    BY <1>2 DEF RegisterErrorExplained, Rival
  <2>1. \E s \in Requests : Rival(q, s)
    <3>1. CASE q = r
      BY <3>1 DEF Answers, Foreign, AccountRoutes, AInv, RivalInserted
    <3>2. CASE q # r
      BY <1>2, <3>2 DEF AInv, RegisterErrorExplained, Rival
    <3> QED
      BY <3>1, <3>2
  <2> QED
    BY <1>2, <1>8, <2>1 DEF Rival
<1> QED
  BY <1>4, <1>5, <1>6, <1>7, <1>9, <1>10, <1>11, <1>12 DEF AInv

\* On a route of another component an account step is the guard's.
LEMMA GuardMoves ==
    ASSUME HttpTypeOK, NEW r \in Requests, AccountStep(r), at[r] # "done" => answer[r] = Unanswered,
           call[r].route \notin AccountRoutes
    PROVE  /\ at[r] = "auth" /\ at'[r] \in {"done", "find", "bucket", "read"}
           /\ users' = users
           /\ answer'[r].status \in {0, 400, 401, 500}
           /\ answer'[r].status = 500 => r \in failed'
<1>1. CASE Authenticate(r)
  <2>1. at[r] = "auth" /\ users' = users /\ answer[r].status = 0
    BY <1>1 DEF Authenticate, Unanswered
  <2>2. CASE Enter(r, call[r])
    BY <2>1, <2>2 DEF Enter, FirstCall, HttpTypeOK
  <2>3. CASE Throw(r, "Unauthorized")
    BY <2>1, <2>3, ThrowMoves, StatusValues
  <2> QED
    BY <1>1, <2>1, <2>2, <2>3 DEF Authenticate
<1>2. CASE AccountCallFails(r)
  <2>1. at[r] = "auth" /\ CallFails(r) /\ users' = users
    BY <1>2 DEF AccountCallFails, AccountRoutes
  <2> QED
    BY <2>1, FailMoves
<1> QED
  BY <1>1, <1>2
     DEF AccountStep, FindForRegister, InsertUser, Login, ReadUser, AccountRoutes

LEMMA AccountStepInv ==
    ASSUME AInv, NEW r \in Requests, AccountStep(r)
    PROVE  AInv'
BY AccountStepType, AccountMoves, MoveInv DEF AInv, AccountsTypeOK

LEMMA ForeignInv ==
    ASSUME AInv, AccountsTypeOK', NEW r \in Requests, Foreign(r)
    PROVE  AInv'
BY MoveInv DEF Foreign

-----------------------------------------------------------------------------
(* The steps of Accounts are steps of Registry.                             *)

Got(r) == [id |-> answer[r].id, phone |-> call[r].phone, password |-> call[r].password]
Winners == {s \in Requests : Answered201(s, {"register", "login"})}
Granted == {Got(r) : r \in Winners}

LEMMA RegistryMove ==
    ASSUME AInv, AInv', NEW r \in Requests,
           Moves(r), users' = users \/ Inserts(r), Answers(r) \/ Foreign(r)
    PROVE  R!Next \/ UNCHANGED <<users, Granted>>
<1>1. /\ users \subseteq User /\ call' = call /\ answer[r].status # 201
      /\ \A q \in Requests \ {r} : answer'[q] = answer[q]
  BY DEF AInv, AccountsTypeOK, Moves, Settled, Unanswered
<1>2. /\ Winners \subseteq Winners' /\ Winners' \subseteq Winners \cup {r} /\ r \notin Winners
      /\ \A q \in Winners : (Got(q))' = Got(q)
  BY <1>1 DEF Winners, Answered201, Got
<1>3. CASE r \notin Winners'
  <2>1. Granted' = Granted
    BY <1>2, <1>3 DEF Granted
  <2>2. CASE users' = users
    BY <2>1, <2>2
  <2>3. CASE Inserts(r)
    <3>1. NewUser(r) \notin users /\ users' = users \cup {NewUser(r)}
      BY <2>3 DEF Inserts, Taken, NewUser
    <3>2. R!OnePerPhone(users \cup {NewUser(r)})
      BY <3>1 DEF AInv, Table, R!OnePerPhone
    <3> QED
      BY <2>1, <3>1, <3>2 DEF R!Next, R!Open, Granted, Got, Winners
  <2> QED
    BY <2>2, <2>3
<1>4. CASE r \in Winners'
  <2>1. Granted' = Granted \cup {(Got(r))'}
    BY <1>2, <1>4 DEF Granted
  <2>2. CASE call[r].route = "register"
    <3>1. Inserts(r) /\ answer'[r].id = r
      BY <1>1, <1>4, <2>2 DEF Winners, Answered201, Answers, Foreign, AccountRoutes
    <3>2. (Got(r))' = NewUser(r)
      BY <1>1, <3>1 DEF Got, NewUser
    <3>3. NewUser(r) \notin users /\ users' = users \cup {NewUser(r)}
      BY <3>1 DEF Inserts, Taken, NewUser
    <3>4. R!OnePerPhone(users \cup {NewUser(r)})
      BY <3>3 DEF AInv, Table, R!OnePerPhone
    <3> QED
      BY <2>1, <3>2, <3>3, <3>4 DEF R!Next, R!Open, Granted, Got, Winners
  <2>3. CASE call[r].route = "login"
    <3>1. PICK u \in users : Credentials(u, r) /\ answer'[r].id = u.id
      BY <1>1, <1>4, <2>3 DEF Winners, Answered201, Answers, Foreign, AccountRoutes
    <3>2. (Got(r))' = u
      BY <1>1, <3>1 DEF Got, Credentials, User
    <3>3. users' = users
      BY <2>3 DEF Inserts
    <3> QED
      BY <2>1, <3>1, <3>2, <3>3 DEF R!Next, R!Grant, Granted, Got, Winners
  <2> QED
    BY <1>1, <1>4, <2>2, <2>3 DEF Winners, Answered201
<1> QED
  BY <1>3, <1>4

LEMMA RegistryArrive ==
    ASSUME AInv, NEW r \in Requests, Arrive(r), users' = users
    PROVE  UNCHANGED <<users, Granted>>
<1>1. HttpTypeOK
  BY DEF AInv, AccountsTypeOK
<1>2. /\ at[r] = "new"
      /\ answer[r].status # 201 /\ answer'[r].status # 201
      /\ \A q \in Requests \ {r} : call'[q] = call[q] /\ answer'[q] = answer[q]
  BY <1>1 DEF Arrive, AInv, Settled, Unanswered, Enter, HttpTypeOK
<1>3. Winners' = Winners /\ \A q \in Winners : (Got(q))' = Got(q)
  BY <1>2 DEF Winners, Answered201, Got
<1> QED
  BY <1>3 DEF Granted

LEMMA RegistryInit == AccountsInit => R!Init
<1> SUFFICES ASSUME AccountsInit PROVE R!Init
  OBVIOUS
<1>1. Granted = {}
  BY DEF AccountsInit, HttpInit, Unanswered, Granted, Winners, Answered201
<1> QED
  BY <1>1, InitUsersAssumption
     DEF AccountsInit, R!Init, R!OnePerPhone, Granted, Got, Winners

-----------------------------------------------------------------------------
(* Accounts by itself.                                                      *)

LEMMA AccountsNextInv == AInv /\ [AccountsNext]_accountVars => AInv'
<1> SUFFICES ASSUME AInv, [AccountsNext]_accountVars PROVE AInv'
  OBVIOUS
<1>1. CASE UNCHANGED accountVars
  BY <1>1
     DEF accountVars, httpVars, AInv, AccountsTypeOK, HttpTypeOK, AuthGuarded, Settled,
         Table, Entitled, Answered201, Credentials, Known, Passed, HasId, RivalInserted, Taken,
         Rival, Overlap, RegisteredCanLogin, TokensHonoured, RegisterErrorExplained
<1> QED
  BY <1>1, ArriveInv, AccountStepInv DEF AccountsNext

LEMMA AccountsInvHolds == AccountsSpec => []AInv
<1> QED
  BY AccountsInitInv, AccountsNextInv, PTL DEF AccountsSpec

\* Accounts implements Registry: concurrent registrations of one phone open one
\* account, and access is granted to who gave its phone and password.
THEOREM AccountsImplementRegistry == AccountsSpec => ImplementsRegistry
<1>1. AInv /\ AInv' /\ [AccountsNext]_accountVars => [R!Next]_<<users, Granted>>
  <2> SUFFICES ASSUME AInv, AInv', [AccountsNext]_accountVars
               PROVE  R!Next \/ UNCHANGED <<users, Granted>>
    OBVIOUS
  <2>1. ASSUME NEW r \in Requests, AccountStep(r)
        PROVE  R!Next \/ UNCHANGED <<users, Granted>>
    BY <2>1, AccountMoves, RegistryMove DEF AInv, AccountsTypeOK
  <2>2. CASE UNCHANGED accountVars
    BY <2>2 DEF accountVars, httpVars, Granted, Got, Winners, Answered201
  <2> QED
    BY <2>1, <2>2, RegistryArrive DEF AccountsNext
<1>2. AccountsInit => R!Init
  BY RegistryInit
<1>3. [][R!Next]_<<users, Granted>> /\ R!Init => R!Spec
  BY PTL DEF R!Spec, Granted, Got, Winners
<1> QED
  BY <1>1, <1>2, <1>3, AccountsInvHolds, PTL DEF AccountsSpec, ImplementsRegistry

=============================================================================
