-------------------------------- MODULE Http --------------------------------
(***************************************************************************)
(* Requests to backend-api (src/main.ts, src/common, and the routes of the *)
(* controllers).  Nest runs the guard of a route, then its interceptors,   *)
(* then the global ValidationPipe, then the handler; what the handler      *)
(* returns is wrapped by TransformInterceptor, and what it throws is       *)
(* answered by HttpExceptionFilter.                                        *)
(*                                                                         *)
(* A request is one process.  `at' is the awaited call it is suspended at, *)
(* each of which is one step; what a handler computes between two calls    *)
(* belongs to the step before.  Requests are numbered in the order they    *)
(* arrive.                                                                 *)
(***************************************************************************)
EXTENDS Integers, FiniteSets

CONSTANTS
    Requests,       \* 1 .. n, the requests of a behaviour
    Seeds,          \* ids of the users there are at the start
    NoId,           \* no user, no token
    Phones, Passwords,
    BadPhones,      \* phones that are not in E.164 format
    ShortPasswords, \* passwords of fewer than 6 characters
    Bodies,         \* bodies of PUT profiles/:id, with the ids each may give
    Calls,          \* the calls clients may make
    Faulty          \* bound: the awaited calls that may fail

\* The row a request inserts has a uuid of its own: it is written as the number
\* of the request.  A token is the id it was signed for.
Ids == Requests \cup Seeds

Routes == {"register", "login", "me", "user", "myProfile", "profile",
           "putProfile", "swipe", "upload"}
Posts == {"register", "login", "swipe", "upload"}

\* Routes behind JwtAuthGuard.
Guarded == {"me", "myProfile", "putProfile", "swipe", "upload"}

\* The fields a route does not read are arbitrary.
Call == [route : Routes, phone : Phones, password : Passwords,
         token : Ids \cup {NoId}, id : Ids \cup {NoId}, body : Bodies,
         file : {"none", "text", "large", "image"}]

Steps == {"new", "auth", "find", "insert", "read", "refind", "compare",
          "update", "bucket", "make", "put", "done"}

Statuses == {0, 200, 201, 400, 401, 404, 409, 413, 500}

ASSUME RequestsAssumption == Requests \subseteq Nat
ASSUME IdsAssumption == Seeds \cap Requests = {} /\ NoId \notin Ids
ASSUME CallsAssumption == Calls \subseteq Call /\ Calls # {}
ASSUME FaultyAssumption == Faulty \subseteq Steps \ {"new", "done"}

VARIABLES
    call,           \* the arguments of each request, arbitrary until it arrives
    at,             \* the call each request is suspended at
    answer,         \* the status it was answered with and the id in its data
    before,         \* history: the requests answered when it arrived
    failed          \* history: the requests one of whose calls has failed

httpVars == <<call, at, answer, before, failed>>

HttpTypeOK ==
    /\ call \in [Requests -> Call]
    /\ at \in [Requests -> Steps]
    /\ answer \in [Requests -> [status : Statuses, id : Ids \cup {NoId}]]
    /\ before \in [Requests -> SUBSET Requests]
    /\ failed \subseteq Requests

Unanswered == [status |-> 0, id |-> NoId]

HttpInit ==
    /\ call = [r \in Requests |-> CHOOSE c \in Calls : TRUE]
    /\ at = [r \in Requests |-> "new"]
    /\ answer = [r \in Requests |-> Unanswered]
    /\ before = [r \in Requests |-> {}]
    /\ failed = {}

-----------------------------------------------------------------------------
(* Answers.                                                                 *)

\* HttpExceptionFilter: an HttpException keeps its status, and everything else
\* (QueryFailedError, the errors of a driver or client) is a 500.
StatusOf(exception) ==
    CASE exception = "BadRequest" -> 400
      [] exception = "Unauthorized" -> 401
      [] exception = "NotFound" -> 404
      [] exception = "Conflict" -> 409
      [] exception = "PayloadTooLarge" -> 413
      [] OTHER -> 500

Done(r, status, id) ==
    /\ at' = [at EXCEPT ![r] = "done"]
    /\ answer' = [answer EXCEPT ![r] = [status |-> status, id |-> id]]
    /\ UNCHANGED <<call, before>>

Throw(r, exception) == Done(r, StatusOf(exception), NoId) /\ failed' = failed

\* TransformInterceptor: the status is the default one of the method.
Return(r, id) ==
    /\ Done(r, IF call[r].route \in Posts THEN 201 ELSE 200, id)
    /\ failed' = failed

Await(r, step) ==
    /\ at' = [at EXCEPT ![r] = step]
    /\ UNCHANGED <<call, answer, before, failed>>

\* The awaited call throws, and nothing in the backend catches it.
CallFails(r) ==
    /\ at[r] \in Faulty
    /\ Done(r, 500, NoId)
    /\ failed' = failed \cup {r}

-----------------------------------------------------------------------------
(* From the arrival of a request to the first call of its handler.          *)

BadRegistration(c) == c.phone \in BadPhones \/ c.password \in ShortPasswords
BadLogin(c) == c.password \in ShortPasswords

\* ValidationPipe on the body, with whitelist and forbidNonWhitelisted: SwipeDto
\* decorates no property, so whatever a swipe says is not whitelisted.  (A swipe
\* that says nothing passes, and is answered 500 by its handler: left out.)  The
\* body of putProfile is a Partial<Profile>, whose type is Object when it runs:
\* it is not validated.
Invalid(c) ==
    \/ c.route = "register" /\ BadRegistration(c)
    \/ c.route = "login" /\ BadLogin(c)
    \/ c.route = "swipe"

FirstCall(route) ==
    CASE route \in {"register", "login", "putProfile"} -> "find"
      [] route = "upload" -> "bucket"
      [] OTHER -> "read"

\* Behind the guard.
Enter(r, c) ==
    /\ at' = [at EXCEPT ![r] = IF Invalid(c) THEN "done" ELSE FirstCall(c.route)]
    /\ answer' = [answer EXCEPT ![r] = IF Invalid(c) THEN [@ EXCEPT !.status = 400] ELSE @]

\* The users a client may hold a token of: those answered with one, and those
\* who signed in before the behaviour begins.
Issued ==
    Seeds \cup {answer[r].id : r \in {s \in Requests : call[s].route \in {"register", "login"}
                                                       /\ answer[s].status = 201}}

\* The ids a body gives.
Named(body) == {body.id, body.userId, body.user} \ {NoId}

\* A uuid in a body is one that a client has seen or made up, a made-up one being
\* written as a seed: no row that is inserted later draws it.
Arrive(r) ==
    /\ at[r] = "new"
    /\ \A s \in Requests : s < r => at[s] # "new"
    /\ \E c \in Calls :
        /\ c.token \in Issued \cup {NoId}
        /\ Named(c.body) \subseteq Seeds \cup {s \in Requests : at[s] = "done"}
        /\ call' = [call EXCEPT ![r] = c]
        /\ IF c.route \in Guarded
           THEN at' = [at EXCEPT ![r] = "auth"] /\ answer' = answer
           ELSE Enter(r, c)
    /\ before' = [before EXCEPT ![r] = {s \in Requests : at[s] = "done"}]
    /\ failed' = failed

\* Both have arrived, and were in progress at some moment.
Overlap(r, s) ==
    r # s /\ at[r] # "new" /\ at[s] # "new" /\ r \notin before[s] /\ s \notin before[r]

=============================================================================
