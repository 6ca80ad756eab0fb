----------------------------- MODULE AppSession -----------------------------
(***************************************************************************)
(* The session of the app: StorageService (lib/services), the guard of     *)
(* AppRouter (lib/config/router.dart), the login and registration screens  *)
(* (lib/screens/auth) and sign-out (lib/screens/profile), with WsService   *)
(* beside them, which reads the token and which nothing here calls.        *)
(*                                                                         *)
(* shared_preferences changes its cache when it is called and answers      *)
(* later, so a write takes effect in the step that makes it, and whatever  *)
(* follows its await is a step of its own.  A screen that is left is       *)
(* unmounted, and its requests go on.                                      *)
(***************************************************************************)
EXTENDS WsService

CONSTANTS
    Attempts,       \* the sign-ins and registrations of a behaviour
    SignOuts        \* bound: the sign-outs at once; a second tap starts another

VARIABLES
    userId,         \* whose id StorageService holds
    location,       \* the screen; "swipe" stands for every tab but the profile
    attempt,        \* each sign-in: its step, its user, whether its screen is there
    signOut,        \* each sign-out: where it is in clearAll, whether its screen is there
    mixed           \* history: a sign-in wrote at the same time as another or as a
                    \* sign-out, the app ended while one wrote, or an answer had no id

sessionVars == <<userId, location, attempt, signOut, mixed>>

AuthRoutes == {"login", "register"}
Locations == AuthRoutes \cup {"swipe", "profile"}

SessionTypeOK ==
    /\ WsTypeOK
    /\ userId \in Users \cup {NoUser}
    /\ location \in Locations
    /\ attempt \in [Attempts -> [step : {"new", "waiting", "saved", "named", "done"},
                                 user : Users \cup {NoUser}, mounted : BOOLEAN]]
    /\ signOut \in [SignOuts -> [step : {"no", "id", "leave"}, mounted : BOOLEAN]]
    /\ mixed \in BOOLEAN

\* Mutant: whoever has no token is let through.
GuardAuthOnly(there) ==
    IF token # NoUser /\ there \in AuthRoutes THEN "swipe" ELSE there

\* Mutant: whoever is signed in is sent to a route that is not there.
GuardToRoot(there) ==
    IF token = NoUser /\ there \notin AuthRoutes THEN "login"
    ELSE IF token # NoUser /\ there \in AuthRoutes THEN "root"
    ELSE there

\* _guard: where a navigation ends.
Guard(there) ==
    IF token = NoUser /\ there \notin AuthRoutes THEN "login"
    ELSE IF token # NoUser /\ there \in AuthRoutes THEN "swipe"
    ELSE there

AppInit ==
    /\ token = NoUser /\ Fresh
    /\ userId = NoUser
    /\ location = Guard("swipe")
    /\ attempt = [a \in Attempts |-> [step |-> "new", user |-> NoUser, mounted |-> FALSE]]
    /\ signOut = [o \in SignOuts |-> [step |-> "no", mounted |-> FALSE]]
    /\ mixed = FALSE

-----------------------------------------------------------------------------
(* Helpers.                                                                 *)

Writing(a) == attempt[a].step = "saved"

NoneClears == \A o \in SignOuts : signOut[o].step # "id"

\* Some other sign-in, or a sign-out, is between its writes.
OthersWrite(a) ==
    ~ NoneClears \/ \E b \in Attempts \ {a} : Writing(b)

\* The sign-ins, or the sign-outs, after the screen has changed to `there'.
Left(processes, there) ==
    [p \in DOMAIN processes |->
        IF there = location THEN processes[p]
        ELSE [processes[p] EXCEPT !.mounted = FALSE]]

-----------------------------------------------------------------------------
(* Navigation.                                                              *)

Go(there) ==
    LET arrived == Guard(there)
    IN  /\ location' = arrived
        /\ attempt' = Left(attempt, arrived)
        /\ signOut' = Left(signOut, arrived)
        /\ UNCHANGED <<token, userId, mixed>>

-----------------------------------------------------------------------------
(* _login and _register.                                                    *)

\* The button is disabled while its screen waits.
Submit(a, u) ==
    /\ attempt[a].step = "new"
    /\ location \in AuthRoutes
    /\ \A b \in Attempts : attempt[b].step \in {"waiting", "saved", "named"} => ~ attempt[b].mounted
    /\ attempt' = [attempt EXCEPT ![a] = [step |-> "waiting", user |-> u, mounted |-> TRUE]]
    /\ UNCHANGED <<token, userId, location, signOut, mixed>>

\* The answer carries a token, which is stored whether or not the screen is there.
SaveToken(a) ==
    /\ attempt[a].step = "waiting"
    /\ token' = attempt[a].user
    /\ attempt' = [attempt EXCEPT ![a].step = "saved"]
    /\ mixed' = (mixed \/ OthersWrite(a))
    /\ UNCHANGED <<userId, location, signOut>>

\* An error, or an answer without a token: the screen, if it is there, may be used
\* again.
NoTokenFor(a) ==
    /\ attempt[a].step = "waiting"
    /\ attempt' = [attempt EXCEPT ![a].step = "done"]
    /\ UNCHANGED <<token, userId, location, signOut, mixed>>

\* Mutant: the id is not stored when the screen is gone.
SaveIdIfMounted(a) ==
    /\ attempt[a].step = "saved"
    /\ userId' = IF attempt[a].mounted THEN attempt[a].user ELSE userId
    /\ attempt' = [attempt EXCEPT ![a].step = "named"]
    /\ UNCHANGED <<token, location, signOut, mixed>>

\* The id of the answer is stored.
SaveId(a) ==
    /\ attempt[a].step = "saved"
    /\ userId' = attempt[a].user
    /\ attempt' = [attempt EXCEPT ![a].step = "named"]
    /\ UNCHANGED <<token, location, signOut, mixed>>

\* When that is done, or at once if the answer has no id, the screen, if it is
\* still there, is left.
Enter(a) ==
    /\ attempt[a].step \in {"saved", "named"}
    /\ LET there == IF attempt[a].mounted THEN Guard("swipe") ELSE location
       IN  /\ location' = there
           /\ attempt' = [Left(attempt, there) EXCEPT ![a].step = "done"]
           /\ signOut' = Left(signOut, there)
    /\ mixed' = (mixed \/ Writing(a))
    /\ UNCHANGED <<token, userId>>

-----------------------------------------------------------------------------
(* Sign-out.                                                                *)

\* clearAll begins with the token.  Nothing disables the tile meanwhile.
SignOut(o) ==
    /\ location = "profile" /\ signOut[o].step = "no"
    /\ token' = NoUser
    /\ signOut' = [signOut EXCEPT ![o] = [step |-> "id", mounted |-> TRUE]]
    /\ mixed' = (mixed \/ \E a \in Attempts : Writing(a))
    /\ UNCHANGED <<userId, location, attempt>>

\* It goes on with the user id, and the user data, which nothing stores.
ClearId(o) ==
    /\ signOut[o].step = "id"
    /\ userId' = NoUser
    /\ signOut' = [signOut EXCEPT ![o].step = "leave"]
    /\ UNCHANGED <<token, location, attempt, mixed>>

\* if (context.mounted) context.go('/login').
LeaveProfile(o) ==
    /\ signOut[o].step = "leave"
    /\ LET there == IF signOut[o].mounted THEN Guard("login") ELSE location
       IN  /\ location' = there /\ attempt' = Left(attempt, there)
           /\ signOut' = [Left(signOut, there) EXCEPT ![o] = [step |-> "no", mounted |-> FALSE]]
    /\ UNCHANGED <<token, userId, mixed>>

-----------------------------------------------------------------------------
\* The app ends and is started again.  What was written is kept: a write is taken to
\* last from the call on, though the disk may be behind the cache of shared_preferences.
StartAgain ==
    /\ Restart
    /\ location' = Guard("swipe")
    /\ attempt' = [a \in Attempts |->
                    IF attempt[a].step = "new" THEN attempt[a]
                    ELSE [attempt[a] EXCEPT !.step = "done", !.mounted = FALSE]]
    /\ signOut' = [o \in SignOuts |-> [step |-> "no", mounted |-> FALSE]]
    /\ mixed' = (mixed \/ ~ NoneClears \/ \E a \in Attempts : Writing(a))
    /\ userId' = userId

SignIn(a) == SaveToken(a) \/ NoTokenFor(a) \/ SaveId(a) \/ Enter(a)

Session ==
    \/ \E there \in Locations : Go(there)
    \/ \E a \in Attempts, u \in Users : Submit(a, u)
    \/ \E a \in Attempts : SignIn(a)
    \/ \E o \in SignOuts : SignOut(o) \/ ClearId(o) \/ LeaveProfile(o)

AppNext ==
    \/ Session /\ UNCHANGED wsVars
    \/ WsStep /\ token' = token /\ UNCHANGED sessionVars
    \/ StartAgain

AppSpec == AppInit /\ [][AppNext]_<<token, wsVars, sessionVars>>

\* The timer fires and does not throw for ever; a stream that is done says so.
FairApp ==
    /\ AppSpec
    /\ WF_<<token, wsVars, sessionVars>>(TimerConnects /\ token' = token
                                            /\ UNCHANGED sessionVars)
    /\ \A c \in Channels :
        WF_<<token, wsVars, sessionVars>>(Lost(c) /\ token' = token
                                            /\ UNCHANGED sessionVars)

-----------------------------------------------------------------------------
(* Properties.                                                              *)

\* Nobody is on a screen behind the guard without a token, except while a sign-out
\* that was begun there has yet to leave it: not after an answer that came late,
\* nor after navigating while clearAll runs, nor after a restart in the middle.
HomeNeedsToken ==
    location \notin AuthRoutes /\ token = NoUser => \E o \in SignOuts : signOut[o].step # "no"

\* The stored token and the stored id are of the same user, or both are absent,
\* whenever nobody is between two writes, unless a sign-in wrote at the same time as
\* another or as a sign-out, or an answer had no id: an answer may come after its screen was left, after
\* a sign-out, or after another sign-in has been answered.
StoredTogether ==
    ~ mixed /\ NoneClears /\ (\A a \in Attempts : ~ Writing(a)) => token = userId

\* A lost connection that is wanted comes back if somebody stays signed in, unless
\* it was given up before while nobody was.
Reconnects ==
    (begun /\ wanted /\ ~ connected)
        ~> (connected \/ ~ wanted \/ ~ begun \/ token = NoUser \/ gaveUp)

=============================================================================
