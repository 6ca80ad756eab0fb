------------------------------ MODULE Accounts ------------------------------
(***************************************************************************)
(* Accounts of backend-api: AuthService.register and login, UsersService   *)
(* and its controller, and the guard of the protected routes               *)
(* (src/auth, src/users), over the table users with its unique column      *)
(* phone.  A password hash is written as the password.                     *)
(***************************************************************************)
EXTENDS Http

CONSTANT InitUsers      \* the rows of the users in Seeds

User == [id : Ids, phone : Phones, password : Passwords]

ASSUME InitUsersAssumption ==
    /\ InitUsers \subseteq [id : Seeds, phone : Phones, password : Passwords]
    /\ \A u, v \in InitUsers : u.id = v.id \/ u.phone = v.phone => u = v
    /\ \A i \in Seeds : \E u \in InitUsers : u.id = i

VARIABLE users          \* table users

accountVars == <<httpVars, users>>

AccountsTypeOK == HttpTypeOK /\ users \subseteq User

AccountsInit == HttpInit /\ users = InitUsers

-----------------------------------------------------------------------------
(* The guard.                                                               *)

HasId(i) == \E u \in users : u.id = i

\* JwtStrategy.validate looks the user of the token up; without a valid token
\* the guard refuses the request itself.  Tokens expire after 7 days: no behaviour
\* here lasts that long.
Authenticate(r) ==
    /\ at[r] = "auth"
    /\ IF HasId(call[r].token)
       THEN Enter(r, call[r]) /\ UNCHANGED <<call, before, failed>>
       ELSE Throw(r, "Unauthorized")
    /\ users' = users

-----------------------------------------------------------------------------
(* register and login.                                                      *)

NewUser(r) == [id |-> r, phone |-> call[r].phone, password |-> call[r].password]

\* The unique column of the table users holds the phone of r.
Taken(r) == \E u \in users : u.phone = call[r].phone

\* Mutant: the phone is not looked for.
InsertAtOnce(r) ==
    /\ at[r] = "find" /\ call[r].route = "register"
    /\ Await(r, "insert")
    /\ users' = users

\* Mutant: it waits for the phone to be free.
FindWhenFree(r) ==
    /\ at[r] = "find" /\ call[r].route = "register"
    /\ ~ Taken(r) /\ Await(r, "insert")
    /\ users' = users

\* register: findByPhone, and then the hash.
FindForRegister(r) ==
    /\ at[r] = "find" /\ call[r].route = "register"
    /\ IF Taken(r) THEN Throw(r, "Conflict") ELSE Await(r, "insert")
    /\ users' = users

\* Mutant: the row of the phone is overwritten.
UpsertUser(r) ==
    /\ at[r] = "insert" /\ call[r].route = "register"
    /\ users' = {u \in users : u.phone # call[r].phone} \cup {NewUser(r)}
    /\ Return(r, r)

\* Mutant: the row is not awaited.
InsertBehind(r) ==
    /\ call[r].route = "register"
    /\ \/ at[r] = "insert" /\ users' = users /\ Return(r, r)
       \/ /\ at[r] = "done" /\ answer[r].status = 201 /\ ~ Taken(r)
          /\ users' = users \cup {NewUser(r)}
          /\ UNCHANGED httpVars

\* register: save, which is an INSERT, and the token of the new user.
InsertUser(r) ==
    /\ at[r] = "insert" /\ call[r].route = "register"
    /\ IF Taken(r)
       THEN Throw(r, "QueryFailed") /\ users' = users
       ELSE Return(r, r) /\ users' = users \cup {NewUser(r)}

\* Mutant: the password is not compared.
MatchesPhone(u, r) == u.phone = call[r].phone

\* findByPhone and bcrypt.compare.
Credentials(u, r) == u.phone = call[r].phone /\ u.password = call[r].password

Login(r) ==
    /\ at[r] = "find" /\ call[r].route = "login"
    /\ \/ \E u \in users : Credentials(u, r) /\ Return(r, u.id)
       \/ (\A u \in users : ~ Credentials(u, r)) /\ Throw(r, "Unauthorized")
    /\ users' = users

-----------------------------------------------------------------------------
(* users/me and users/:id.                                                  *)

ReadUser(r) ==
    LET id == IF call[r].route = "me" THEN call[r].token ELSE call[r].id
    IN  /\ at[r] = "read" /\ call[r].route \in {"me", "user"}
        /\ IF HasId(id) THEN Return(r, id) ELSE Throw(r, "NotFound")
        /\ users' = users

-----------------------------------------------------------------------------
\* A query of the guard or of an account route fails; an INSERT that fails may
\* have been committed.
AccountCallFails(r) ==
    /\ at[r] = "auth" \/ call[r].route \in {"register", "login", "me", "user"}
    /\ CallFails(r)
    /\ \/ users' = users
       \/ /\ at[r] = "insert" /\ call[r].route = "register" /\ ~ Taken(r)
          /\ users' = users \cup {NewUser(r)}

AccountStep(r) ==
    \/ Authenticate(r) \/ FindForRegister(r) \/ InsertUser(r) \/ Login(r)
    \/ ReadUser(r) \/ AccountCallFails(r)

AccountsNext == \E r \in Requests : (Arrive(r) /\ users' = users) \/ AccountStep(r)

AccountsSpec == AccountsInit /\ [][AccountsNext]_accountVars

-----------------------------------------------------------------------------
(* Properties.                                                              *)

Answered201(r, routes) == call[r].route \in routes /\ answer[r].status = 201

\* A client that was answered by register or login can sign in with the same
\* phone and password: no later login is refused, whatever registrations of the
\* same phone run beside it.
RegisteredCanLogin ==
    \A r \in Requests : \A s \in before[r] :
        /\ call[r].route = "login" /\ answer[r].status = 401
        /\ Answered201(s, {"register", "login"})
        => call[s].phone # call[r].phone \/ call[s].password # call[r].password

\* A token that was issued is refused for its age alone (it expires after 7 days,
\* which is left out): its user is in the table before the answer that carries it
\* leaves, and stays.
TokensHonoured ==
    \A r \in Requests :
        call[r].route \in Guarded /\ answer[r].status = 401 => call[r].token = NoId

\* register ends in a server error only when a call of it failed or when another
\* registration of the phone ran beside it: who registers alone is answered 201
\* or 409.
RegisterErrorExplained ==
    \A r \in Requests :
        /\ call[r].route = "register" /\ answer[r].status = 500
        /\ r \notin failed
        => \E s \in Requests : /\ Overlap(r, s)
                               /\ call[s].route = "register"
                               /\ call[s].phone = call[r].phone

\* The service implements Registry: concurrent registrations of a phone open one
\* account, its password never changes, and tokens go to who gave both.
R == INSTANCE Registry
        WITH accounts <- users,
             granted <- {[id |-> answer[r].id, phone |-> call[r].phone,
                          password |-> call[r].password] :
                           r \in {s \in Requests : Answered201(s, {"register", "login"})}}

ImplementsRegistry == R!Spec

=============================================================================
