------------------------------ MODULE AppProofs ------------------------------
(***************************************************************************)
(* Proofs about the app's session and its WebSocket client, for every set  *)
(* of users, of sign-ins and of channels.                                  *)
(*                                                                         *)
(* The invariants of WsService are inductive as they stand.  AppSession    *)
(* implements WsService, which reads the token and nothing else of it, so  *)
(* they hold there.  HomeNeedsToken needs that a sign-out that is under    *)
(* way still has its screen, or the guard has been passed since            *)
(* (GuardedOrLeaving); StoredTogether, that of those who write at most one *)
(* is between two writes as long as `mixed' is not set (WritesApart).      *)
(***************************************************************************)
EXTENDS AppSession, TLAPS

wsAll == <<token, wsVars>>
appVars == <<token, wsVars, sessionVars>>

-----------------------------------------------------------------------------
(* WsService.                                                               *)

LEMMA WsStepType == WsTypeOK /\ WsStep /\ token' = token => WsTypeOK'
BY DEF WsTypeOK, WsStep, Connect, Disconnect, TimerFires, TimerConnects, TimerGivesUp,
       Ends, Lost, DoConnect, ScheduleReconnect, Busy

LEMMA WsType == WsTypeOK /\ [WsNext]_wsAll => WsTypeOK'
<1> SUFFICES ASSUME WsTypeOK, [WsNext]_wsAll PROVE WsTypeOK'
  OBVIOUS
<1>1. CASE WsStep /\ token' = token
  BY <1>1, WsStepType
<1>2. CASE \E u \in Users \cup {NoUser} : SetToken(u)
  BY <1>2 DEF SetToken, WsTypeOK, wsVars
<1>3. CASE Restart
  BY <1>3 DEF Restart, WsTypeOK
<1>4. CASE UNCHANGED wsAll
  BY <1>4 DEF wsAll, wsVars, WsTypeOK
<1> QED
  BY <1>1, <1>2, <1>3, <1>4 DEF WsNext

WsInv == WsTypeOK /\ RetryArmed /\ FlagsAgree /\ OneChannel

LEMMA WsInitInv == WsInit => WsInv
BY NoneAssumption DEF WsInit, Fresh, WsInv, WsTypeOK, RetryArmed, FlagsAgree, OneChannel

LEMMA WsNextInv == WsInv /\ [WsNext]_wsAll => WsInv'
<1> SUFFICES ASSUME WsInv, [WsNext]_wsAll PROVE WsInv'
  OBVIOUS
<1>1. WsTypeOK /\ WsTypeOK'
  BY WsType DEF WsInv
<1>2. RetryArmed' /\ FlagsAgree'
  <2>1. CASE Connect
    BY <1>1, <2>1, NoneAssumption
       DEF Connect, DoConnect, WsInv, WsTypeOK, RetryArmed, FlagsAgree
  <2>2. CASE Disconnect
    BY <2>2 DEF Disconnect, WsInv, RetryArmed, FlagsAgree
  <2>3. CASE TimerFires
    BY <1>1, <2>3, NoneAssumption
       DEF TimerFires, TimerConnects, TimerGivesUp, DoConnect, WsInv, WsTypeOK,
           RetryArmed, FlagsAgree
  <2>4. ASSUME NEW c \in Channels, Ends(c) \/ Lost(c) PROVE RetryArmed' /\ FlagsAgree'
    BY <1>1, <2>4
       DEF Ends, Lost, ScheduleReconnect, WsInv, WsTypeOK, RetryArmed, FlagsAgree
  <2>5. CASE Restart
    BY <2>5 DEF Restart, RetryArmed, FlagsAgree
  <2>6. CASE UNCHANGED wsVars
    BY <2>6 DEF wsVars, WsInv, RetryArmed, FlagsAgree
  <2> QED
    BY <2>1, <2>2, <2>3, <2>4, <2>5, <2>6 DEF WsNext, WsStep, SetToken, wsAll
<1>3. OneChannel'
  <2> SUFFICES ASSUME ~ hasty' PROVE OneChannel'
    BY DEF OneChannel
  <2>1. CASE Connect
    <3>1. ~ timer /\ \A c \in Channels : stream[c] = "free"
      BY <2>1 DEF Connect, Busy
    <3> QED
      BY <1>1, <2>1, <3>1, NoneAssumption
         DEF Connect, DoConnect, WsInv, WsTypeOK, OneChannel
  <2>2. CASE Disconnect
    BY <1>1, <2>2 DEF Disconnect, WsInv, WsTypeOK, OneChannel
  <2>3. CASE TimerFires
    BY <1>1, <2>3, NoneAssumption
       DEF TimerFires, TimerConnects, TimerGivesUp, DoConnect, WsInv, WsTypeOK, OneChannel
  <2>4. ASSUME NEW c \in Channels, Ends(c) PROVE OneChannel'
    BY <1>1, <2>4 DEF Ends, WsInv, WsTypeOK, OneChannel
  <2>5. ASSUME NEW c \in Channels, Lost(c) PROVE OneChannel'
    <3>1. \A d \in Channels : stream'[d] = "free"
      BY <1>1, <2>5 DEF Lost, WsInv, WsTypeOK, OneChannel
    <3> QED
      BY <1>1, <2>5, <3>1 DEF Lost, WsTypeOK, OneChannel
  <2>6. CASE Restart
    BY <2>6 DEF Restart, OneChannel
  <2>7. CASE UNCHANGED wsVars
    BY <2>7 DEF wsVars, WsInv, OneChannel
  <2> QED
    BY <2>1, <2>2, <2>3, <2>4, <2>5, <2>6, <2>7 DEF WsNext, WsStep, SetToken, wsAll
<1> QED
  BY <1>1, <1>2, <1>3 DEF WsInv

LEMMA WsInvHolds == WsSpec => []WsInv
<1> QED
  BY WsInitInv, WsNextInv, PTL DEF WsSpec, wsAll

-----------------------------------------------------------------------------
(* Types of AppSession, and that whoever has asked to sign in is a user.    *)

Asked == \A a \in Attempts : attempt[a].step # "new" => attempt[a].user \in Users

AppTyped == SessionTypeOK /\ Asked

Attempt == [step : {"new", "waiting", "saved", "named", "done"},
            user : Users \cup {NoUser}, mounted : BOOLEAN]
Out == [step : {"no", "id", "leave"}, mounted : BOOLEAN]

LEMMA GuardIn == \A l \in Locations : Guard(l) \in Locations
BY DEF Guard, Locations, AuthRoutes

\* What happens to the attempts when the screen changes.
LEMMA LeftKeeps ==
    ASSUME attempt \in [Attempts -> Attempt], NEW there
    PROVE  /\ Left(attempt, there) \in [Attempts -> Attempt]
           /\ \A a \in Attempts : /\ Left(attempt, there)[a].step = attempt[a].step
                                  /\ Left(attempt, there)[a].user = attempt[a].user
BY DEF Left, Attempt

\* And to the sign-outs: each keeps its place, and its screen is there as long as the
\* screen is the same.
LEMMA LeftKeepsOut ==
    ASSUME signOut \in [SignOuts -> Out], NEW there
    PROVE  /\ Left(signOut, there) \in [SignOuts -> Out]
           /\ \A o \in SignOuts : Left(signOut, there)[o].step = signOut[o].step
           /\ there = location => Left(signOut, there) = signOut
BY DEF Left, Out

LEMMA SessionType ==
    AppTyped /\ Session => /\ (userId \in Users \cup {NoUser})'
                           /\ (location \in Locations)'
                           /\ (attempt \in [Attempts -> Attempt])'
                           /\ (signOut \in [SignOuts -> Out])'
                           /\ (mixed \in BOOLEAN)'
                           /\ token' \in Users \cup {NoUser}
                           /\ Asked'
<1> SUFFICES ASSUME AppTyped, Session
             PROVE  /\ (userId \in Users \cup {NoUser})'
                    /\ (location \in Locations)'
                    /\ (attempt \in [Attempts -> Attempt])'
                    /\ (signOut \in [SignOuts -> Out])'
                    /\ (mixed \in BOOLEAN)'
                    /\ token' \in Users \cup {NoUser}
                    /\ Asked'
  OBVIOUS
<1>1. /\ attempt \in [Attempts -> Attempt] /\ Asked /\ token \in Users \cup {NoUser}
      /\ userId \in Users \cup {NoUser} /\ location \in Locations
      /\ signOut \in [SignOuts -> Out] /\ mixed \in BOOLEAN
  BY DEF AppTyped, SessionTypeOK, Attempt, Out, WsTypeOK
<1>2. "swipe" \in Locations /\ "login" \in Locations
  BY DEF Locations, AuthRoutes
<1>3. ASSUME NEW there \in Locations, Go(there)
      PROVE  /\ location' \in Locations
             /\ attempt' \in [Attempts -> Attempt] /\ Asked'
             /\ signOut' \in [SignOuts -> Out]
  BY <1>1, <1>3, GuardIn, LeftKeeps, LeftKeepsOut DEF Go, Asked
<1>4. ASSUME NEW a \in Attempts, NEW u \in Users, Submit(a, u)
      PROVE  attempt' \in [Attempts -> Attempt] /\ Asked'
  BY <1>1, <1>4 DEF Submit, Asked, Attempt
<1>5. ASSUME NEW a \in Attempts, SaveToken(a) \/ NoTokenFor(a) \/ SaveId(a)
      PROVE  /\ attempt' \in [Attempts -> Attempt] /\ Asked'
             /\ token' \in Users \cup {NoUser} /\ userId' \in Users \cup {NoUser}
  BY <1>1, <1>5 DEF SaveToken, NoTokenFor, SaveId, Asked, Attempt
<1>6. ASSUME NEW a \in Attempts, Enter(a)
      PROVE  /\ location' \in Locations
             /\ attempt' \in [Attempts -> Attempt] /\ Asked'
             /\ signOut' \in [SignOuts -> Out]
  <2> DEFINE there == IF attempt[a].mounted THEN Guard("swipe") ELSE location
  <2>1. there \in Locations
    BY <1>1, <1>2, GuardIn
  <2>2. /\ location' = there /\ attempt' = [Left(attempt, there) EXCEPT ![a].step = "done"]
        /\ signOut' = Left(signOut, there)
    BY <1>6 DEF Enter
  <2>3. attempt[a].step \in {"saved", "named"}
    BY <1>6 DEF Enter
  <2> HIDE DEF there
  <2> QED
    BY <1>1, <2>1, <2>2, <2>3, LeftKeeps, LeftKeepsOut DEF Asked, Attempt
<1>7. ASSUME NEW o \in SignOuts, LeaveProfile(o)
      PROVE  /\ location' \in Locations
             /\ attempt' \in [Attempts -> Attempt] /\ Asked'
             /\ signOut' \in [SignOuts -> Out]
  <2> DEFINE there == IF signOut[o].mounted THEN Guard("login") ELSE location
  <2>1. there \in Locations
    BY <1>1, <1>2, GuardIn
  <2>2. /\ location' = there /\ attempt' = Left(attempt, there)
        /\ signOut' = [Left(signOut, there) EXCEPT ![o] = [step |-> "no", mounted |-> FALSE]]
    BY <1>7 DEF LeaveProfile
  <2> HIDE DEF there
  <2> QED
    BY <1>1, <2>1, <2>2, LeftKeeps, LeftKeepsOut DEF Asked, Out
<1>8. ASSUME NEW o \in SignOuts, SignOut(o) \/ ClearId(o)
      PROVE  /\ token' \in Users \cup {NoUser} /\ userId' \in Users \cup {NoUser}
             /\ signOut' \in [SignOuts -> Out] /\ mixed' \in BOOLEAN
             /\ UNCHANGED <<location, attempt>>
  <2>1. CASE SignOut(o)
    BY <1>1, <2>1 DEF SignOut, Writing, Out
  <2>2. CASE ClearId(o)
    BY <1>1, <2>2 DEF ClearId, Out
  <2> QED
    BY <1>8, <2>1, <2>2
<1>9. CASE \E there \in Locations : Go(there)
  BY <1>1, <1>3, <1>9 DEF Go
<1>10. CASE \E a \in Attempts, u \in Users : Submit(a, u)
  BY <1>1, <1>4, <1>10 DEF Submit
<1>11. CASE \E a \in Attempts : SignIn(a)
  <2>1. ASSUME NEW a \in Attempts, SaveToken(a) \/ NoTokenFor(a) \/ SaveId(a)
        PROVE  /\ signOut' = signOut
               /\ location' = location /\ mixed' \in BOOLEAN
    BY <1>1, <2>1 DEF SaveToken, NoTokenFor, SaveId, OthersWrite, Writing, NoneClears
  <2>2. ASSUME NEW a \in Attempts, Enter(a)
        PROVE  /\ mixed' \in BOOLEAN /\ userId' = userId /\ token' = token
    BY <1>1, <2>2 DEF Enter, Writing
  <2> QED
    BY <1>1, <1>5, <1>6, <1>11, <2>1, <2>2 DEF SignIn
<1>12. CASE \E o \in SignOuts : SignOut(o) \/ ClearId(o)
  BY <1>1, <1>8, <1>12 DEF Asked
<1>13. CASE \E o \in SignOuts : LeaveProfile(o)
  BY <1>1, <1>7, <1>13 DEF LeaveProfile
<1> QED
  BY <1>9, <1>10, <1>11, <1>12, <1>13 DEF Session

LEMMA AppType == AppTyped /\ [AppNext]_appVars => AppTyped'
<1> SUFFICES ASSUME AppTyped, [AppNext]_appVars PROVE AppTyped'
  OBVIOUS
<1>1. CASE Session /\ UNCHANGED wsVars
  <2>1. WsTypeOK'
    BY <1>1, SessionType DEF AppTyped, SessionTypeOK, WsTypeOK, wsVars
  <2> QED
    BY <1>1, <2>1, SessionType DEF AppTyped, SessionTypeOK, Attempt, Out
<1>2. CASE WsStep /\ token' = token /\ UNCHANGED sessionVars
  BY <1>2, WsStepType DEF AppTyped, SessionTypeOK, Asked, sessionVars
<1>3. CASE StartAgain
  <2>1. WsTypeOK'
    BY <1>3, WsType DEF StartAgain, AppTyped, SessionTypeOK, WsNext
  <2>2. location' \in Locations
    BY <1>3, GuardIn DEF StartAgain, Locations
  <2>3. attempt' \in [Attempts -> Attempt] /\ Asked'
    <3>1. attempt \in [Attempts -> Attempt] /\ Asked
      BY DEF AppTyped, SessionTypeOK, Attempt
    <3>2. attempt' = [a \in Attempts |->
                        IF attempt[a].step = "new" THEN attempt[a]
                        ELSE [attempt[a] EXCEPT !.step = "done", !.mounted = FALSE]]
      BY <1>3 DEF StartAgain
    <3> QED
      BY <3>1, <3>2 DEF Asked, Attempt
  <2>4. signOut' \in [SignOuts -> Out]
    BY <1>3 DEF StartAgain, Out
  <2> QED
    BY <1>3, <2>1, <2>2, <2>3, <2>4
       DEF StartAgain, AppTyped, SessionTypeOK, Attempt, Out, Writing, NoneClears
<1>4. CASE UNCHANGED appVars
  BY <1>4 DEF appVars, wsVars, sessionVars, AppTyped, SessionTypeOK, WsTypeOK, Asked
<1> QED
  BY <1>1, <1>2, <1>3, <1>4 DEF AppNext

LEMMA AppInitType == AppInit => AppTyped
<1> SUFFICES ASSUME AppInit PROVE AppTyped
  OBVIOUS
<1>1. WsTypeOK
  BY DEF AppInit, Fresh, WsTypeOK
<1>2. attempt \in [Attempts -> Attempt] /\ Asked
  BY DEF AppInit, Attempt, Asked
<1>3. location \in Locations
  BY GuardIn DEF AppInit, Locations
<1> QED
  BY <1>1, <1>2, <1>3 DEF AppInit, AppTyped, SessionTypeOK, Attempt

LEMMA AppTypedHolds == AppSpec => []AppTyped
<1> QED
  BY AppInitType, AppType, PTL DEF AppSpec, appVars

\* Nothing the session or the WebSocket client does is out of its type.
THEOREM SessionTypeCorrect == AppSpec => []SessionTypeOK
<1>1. AppTyped => SessionTypeOK
  BY DEF AppTyped
<1> QED
  BY <1>1, AppTypedHolds, PTL

-----------------------------------------------------------------------------
(* AppSession implements WsService.                                         *)

LEMMA AppStepWs == AppTyped /\ [AppNext]_appVars => [WsNext]_wsAll
<1> SUFFICES ASSUME AppTyped, [AppNext]_appVars PROVE [WsNext]_wsAll
  OBVIOUS
<1>1. CASE Session /\ UNCHANGED wsVars
  <2>1. token' \in Users \cup {NoUser}
    BY <1>1, SessionType
  <2> QED
    BY <1>1, <2>1 DEF WsNext, SetToken
<1>2. CASE WsStep /\ token' = token /\ UNCHANGED sessionVars
  BY <1>2 DEF WsNext
<1>3. CASE StartAgain
  BY <1>3 DEF StartAgain, WsNext
<1>4. CASE UNCHANGED appVars
  BY <1>4 DEF appVars, wsAll
<1> QED
  BY <1>1, <1>2, <1>3, <1>4 DEF AppNext

\* The app implements the WebSocket client beside an arbitrary holder of the token.
THEOREM AppImplementsWs == AppSpec => WsSpec
<1>1. AppInit => WsInit
  BY DEF AppInit, WsInit
<1> QED
  BY <1>1, AppStepWs, AppTypedHolds, PTL DEF AppSpec, WsSpec, appVars, wsAll

LEMMA AppWsInv == AppSpec => []WsInv
<1> QED
  BY AppImplementsWs, WsInvHolds, PTL

\* A lost connection that is wanted is on its way back: RetryArmed.
THEOREM RetryArmedHolds == AppSpec => []RetryArmed
<1>1. WsInv => RetryArmed
  BY DEF WsInv
<1> QED
  BY <1>1, AppWsInv, PTL

\* Pings, the flags and the timer agree, whichever old callbacks arrive: FlagsAgree.
THEOREM FlagsAgreeHolds == AppSpec => []FlagsAgree
<1>1. WsInv => FlagsAgree
  BY DEF WsInv
<1> QED
  BY <1>1, AppWsInv, PTL

\* A client that is not connected in haste has one channel at most: OneChannel.
THEOREM OneChannelHolds == AppSpec => []OneChannel
<1>1. WsInv => OneChannel
  BY DEF WsInv
<1> QED
  BY <1>1, AppWsInv, PTL

-----------------------------------------------------------------------------
(* The guard and sign-out.                                                  *)

\* Whoever is behind the guard without a token is there because a sign-out that
\* began on this screen has yet to leave it.
GuardedOrLeaving ==
    location \notin AuthRoutes /\ token = NoUser =>
        \E o \in SignOuts : signOut[o].step # "no" /\ signOut[o].mounted

LEMMA GuardLands == \A l \in Locations : Guard(l) \in AuthRoutes \/ token # NoUser
BY DEF Guard, AuthRoutes

LEMMA GuardedStep == AppTyped /\ GuardedOrLeaving /\ [AppNext]_appVars => GuardedOrLeaving'
<1> SUFFICES ASSUME AppTyped, GuardedOrLeaving, [AppNext]_appVars PROVE GuardedOrLeaving'
  OBVIOUS
<1>0. signOut \in [SignOuts -> Out]
  BY DEF AppTyped, SessionTypeOK, Out
<1>1. "swipe" \in Locations /\ "login" \in Locations
  BY DEF Locations, AuthRoutes
<1>2. ASSUME NEW there \in Locations, Go(there) PROVE GuardedOrLeaving'
  <2>1. CASE Guard(there) = location
    <3>1. location' = location /\ token' = token /\ signOut' = signOut
      BY <1>0, <1>2, <2>1, LeftKeepsOut DEF Go
    <3> QED
      BY <3>1 DEF GuardedOrLeaving
  <2>2. CASE Guard(there) \in AuthRoutes \/ token # NoUser
    BY <1>2, <2>2 DEF Go, GuardedOrLeaving
  <2> QED
    BY <2>1, <2>2, GuardLands
<1>3. ASSUME NEW a \in Attempts, SaveToken(a) PROVE GuardedOrLeaving'
  <2>1. token' # NoUser
    BY <1>3, NoneAssumption DEF SaveToken, AppTyped, Asked
  <2> QED
    BY <2>1 DEF GuardedOrLeaving
<1>4. ASSUME NEW a \in Attempts, Enter(a) PROVE GuardedOrLeaving'
  <2>1. CASE attempt[a].mounted
    BY <1>1, <1>4, <2>1, GuardLands DEF Enter, GuardedOrLeaving
  <2>2. CASE ~ attempt[a].mounted
    <3>1. location' = location /\ token' = token /\ signOut' = signOut
      BY <1>0, <1>4, <2>2, LeftKeepsOut DEF Enter
    <3> QED
      BY <3>1 DEF GuardedOrLeaving
  <2> QED
    BY <2>1, <2>2
<1>5. ASSUME NEW a \in Attempts, NoTokenFor(a) \/ SaveId(a) PROVE GuardedOrLeaving'
  BY <1>5 DEF NoTokenFor, SaveId, GuardedOrLeaving
<1>6. ASSUME NEW a \in Attempts, NEW u \in Users, Submit(a, u) PROVE GuardedOrLeaving'
  BY <1>6 DEF Submit, GuardedOrLeaving
<1>7. ASSUME NEW o \in SignOuts, SignOut(o) PROVE GuardedOrLeaving'
  BY <1>0, <1>7 DEF SignOut, GuardedOrLeaving, Out
<1>12. ASSUME NEW o \in SignOuts, ClearId(o) PROVE GuardedOrLeaving'
  BY <1>0, <1>12 DEF ClearId, GuardedOrLeaving, Out
<1>8. ASSUME NEW o \in SignOuts, LeaveProfile(o) PROVE GuardedOrLeaving'
  <2>1. CASE signOut[o].mounted
    BY <1>1, <1>8, <2>1, GuardLands DEF LeaveProfile, GuardedOrLeaving
  <2>2. CASE ~ signOut[o].mounted
    <3>1. /\ location' = location /\ token' = token
          /\ signOut' = [signOut EXCEPT ![o] = [step |-> "no", mounted |-> FALSE]]
      BY <1>0, <1>8, <2>2, LeftKeepsOut DEF LeaveProfile
    <3> QED
      BY <1>0, <2>2, <3>1 DEF GuardedOrLeaving, Out
  <2> QED
    BY <2>1, <2>2
<1>9. CASE WsStep /\ token' = token /\ UNCHANGED sessionVars
  BY <1>9 DEF sessionVars, GuardedOrLeaving
<1>10. CASE StartAgain
  BY <1>1, <1>10, GuardLands DEF StartAgain, Restart, GuardedOrLeaving
<1>11. CASE UNCHANGED appVars
  BY <1>11 DEF appVars, sessionVars, GuardedOrLeaving
<1> QED
  BY <1>2, <1>3, <1>4, <1>5, <1>6, <1>7, <1>8, <1>9, <1>10, <1>11, <1>12
     DEF AppNext, Session, SignIn

\* Nobody stays behind the guard without a token: HomeNeedsToken.
THEOREM HomeNeedsTokenHolds == AppSpec => []HomeNeedsToken
<1>1. AppInit => GuardedOrLeaving
  BY DEF AppInit, Guard, GuardedOrLeaving, AuthRoutes
<1>2. GuardedOrLeaving => HomeNeedsToken
  BY DEF GuardedOrLeaving, HomeNeedsToken
<1> QED
  BY <1>1, <1>2, GuardedStep, AppTypedHolds, PTL DEF AppSpec, appVars

-----------------------------------------------------------------------------
(* What is stored.                                                          *)

\* As long as `mixed' is not set, one sign-in at most is between two writes and no
\* sign-out is then, and what they have written so far is stored.
WritesApart ==
    ~ mixed =>
        /\ \A a, b \in Attempts : Writing(a) /\ Writing(b) => a = b
        /\ \A a \in Attempts :
            Writing(a) => NoneClears /\ token = attempt[a].user
        /\ ~ NoneClears => token = NoUser

StoredInv == WritesApart /\ StoredTogether

LEMMA StoredSession == AppTyped /\ StoredInv /\ Session => StoredInv'
<1> SUFFICES ASSUME AppTyped, StoredInv, Session, ~ mixed' PROVE StoredInv'
  BY DEF StoredInv, WritesApart, StoredTogether
<1>0. signOut \in [SignOuts -> Out]
  BY DEF AppTyped, SessionTypeOK, Out
<1>1. attempt \in [Attempts -> Attempt]
  BY DEF AppTyped, SessionTypeOK, Attempt
<1>2. ASSUME UNCHANGED <<token, userId, mixed>>, NoneClears' = NoneClears,
             \A a \in Attempts : (Writing(a))' = Writing(a)
                                 /\ attempt'[a].user = attempt[a].user
      PROVE  StoredInv'
  BY <1>2 DEF StoredInv, WritesApart, StoredTogether
<1>3. ASSUME NEW there \in Locations, Go(there) PROVE StoredInv'
  BY <1>0, <1>1, <1>2, <1>3, LeftKeeps, LeftKeepsOut DEF Go, Writing, NoneClears
<1>4. ASSUME NEW a \in Attempts, NEW u \in Users, Submit(a, u) PROVE StoredInv'
  <2>1. \A b \in Attempts : (Writing(b))' = Writing(b)
    BY <1>1, <1>4 DEF Submit, Writing, Attempt
  <2>2. \A b \in Attempts : Writing(b) => attempt'[b].user = attempt[b].user
    BY <1>1, <1>4 DEF Submit, Writing, Attempt
  <2> QED
    BY <1>4, <2>1, <2>2 DEF Submit, StoredInv, WritesApart, StoredTogether, NoneClears
<1>5. ASSUME NEW a \in Attempts, SaveToken(a) PROVE StoredInv'
  <2>1. ~ mixed /\ NoneClears /\ \A b \in Attempts \ {a} : ~ Writing(b)
    BY <1>5 DEF SaveToken, OthersWrite, AppTyped, SessionTypeOK
  <2>2. \A b \in Attempts : (Writing(b))' => b = a
    BY <1>1, <1>5, <2>1 DEF SaveToken, Writing, Attempt
  <2>3. (Writing(a))' /\ attempt'[a].user = attempt[a].user
    BY <1>1, <1>5 DEF SaveToken, Writing, Attempt
  <2> QED
    BY <1>5, <2>1, <2>2, <2>3 DEF SaveToken, StoredInv, WritesApart, StoredTogether, NoneClears
<1>6. ASSUME NEW a \in Attempts, SaveId(a) PROVE StoredInv'
  <2>1. ~ mixed /\ Writing(a)
    BY <1>6 DEF SaveId, Writing
  <2>2. /\ \A b \in Attempts : Writing(b) => b = a
        /\ NoneClears /\ token = attempt[a].user
    BY <2>1 DEF StoredInv, WritesApart
  <2>3. \A b \in Attempts : ~ (Writing(b))'
    BY <1>1, <1>6, <2>2 DEF SaveId, Writing, Attempt
  <2> QED
    BY <1>6, <2>1, <2>2, <2>3 DEF SaveId, StoredInv, WritesApart, StoredTogether, NoneClears
<1>7. ASSUME NEW a \in Attempts, Enter(a) PROVE StoredInv'
  <2> DEFINE there == IF attempt[a].mounted THEN Guard("swipe") ELSE location
  <2>1. /\ attempt' = [Left(attempt, there) EXCEPT ![a].step = "done"]
        /\ UNCHANGED <<token, userId>> /\ mixed' = (mixed \/ Writing(a))
        /\ signOut' = Left(signOut, there)
    BY <1>7 DEF Enter
  <2> HIDE DEF there
  <2>2. ~ mixed /\ ~ Writing(a)
    BY <2>1
  <2>3. mixed' = mixed
    BY <2>1, <2>2 DEF AppTyped, SessionTypeOK
  <2>4. \A b \in Attempts : (Writing(b))' = Writing(b)
                           /\ attempt'[b].user = attempt[b].user
    BY <1>1, <2>1, <2>2, LeftKeeps DEF Writing, Attempt
  <2>5. NoneClears' = NoneClears
    BY <1>0, <2>1, LeftKeepsOut DEF NoneClears
  <2> QED
    BY <1>2, <2>1, <2>3, <2>4, <2>5
<1>8. ASSUME NEW a \in Attempts, NoTokenFor(a) PROVE StoredInv'
  BY <1>1, <1>2, <1>8 DEF NoTokenFor, Writing, Attempt, NoneClears
<1>9. ASSUME NEW o \in SignOuts, SignOut(o) PROVE StoredInv'
  <2>1. \A a \in Attempts : ~ (Writing(a))'
    BY <1>9 DEF SignOut, Writing
  <2>2. ~ NoneClears' /\ token' = NoUser
    BY <1>0, <1>9 DEF SignOut, NoneClears, Out
  <2> QED
    BY <2>1, <2>2 DEF StoredInv, WritesApart, StoredTogether
<1>10. ASSUME NEW o \in SignOuts, ClearId(o) PROVE StoredInv'
  <2>1. ~ NoneClears /\ token' = token /\ userId' = NoUser /\ ~ mixed
        /\ attempt' = attempt
    BY <1>10 DEF ClearId, NoneClears
  <2>2. token = NoUser /\ \A a \in Attempts : ~ Writing(a)
    BY <2>1 DEF StoredInv, WritesApart
  <2>3. \A a \in Attempts : ~ (Writing(a))'
    BY <2>1, <2>2 DEF Writing
  <2> QED
    BY <2>1, <2>2, <2>3 DEF StoredInv, WritesApart, StoredTogether
<1>11. ASSUME NEW o \in SignOuts, LeaveProfile(o) PROVE StoredInv'
  <2> DEFINE there == IF signOut[o].mounted THEN Guard("login") ELSE location
  <2>1. /\ attempt' = Left(attempt, there) /\ UNCHANGED <<token, userId, mixed>>
        /\ signOut' = [Left(signOut, there) EXCEPT ![o] = [step |-> "no", mounted |-> FALSE]]
        /\ signOut[o].step = "leave"
    BY <1>11 DEF LeaveProfile
  <2> HIDE DEF there
  <2>2. \A a \in Attempts : (Writing(a))' = Writing(a)
                           /\ attempt'[a].user = attempt[a].user
    BY <1>1, <2>1, LeftKeeps DEF Writing
  <2>3. NoneClears' = NoneClears
    BY <1>0, <2>1, LeftKeepsOut DEF NoneClears, Out
  <2> QED
    BY <1>2, <2>1, <2>2, <2>3
<1> QED
  BY <1>3, <1>4, <1>5, <1>6, <1>7, <1>8, <1>9, <1>10, <1>11 DEF Session, SignIn

LEMMA StoredStep == AppTyped /\ StoredInv /\ [AppNext]_appVars => StoredInv'
<1> SUFFICES ASSUME AppTyped, StoredInv, [AppNext]_appVars PROVE StoredInv'
  OBVIOUS
<1>1. CASE Session
  BY <1>1, StoredSession
<1>2. CASE token' = token /\ UNCHANGED sessionVars
  BY <1>2 DEF sessionVars, StoredInv, WritesApart, StoredTogether, Writing, NoneClears
<1>3. CASE StartAgain
  <2> SUFFICES ASSUME ~ mixed' PROVE StoredInv'
    BY DEF StoredInv, WritesApart, StoredTogether
  <2>1. /\ ~ mixed /\ NoneClears /\ NoneClears'
        /\ \A a \in Attempts : ~ Writing(a)
        /\ token' = token /\ userId' = userId
    BY <1>3 DEF StartAgain, Restart, NoneClears
  <2>2. \A a \in Attempts : ~ (Writing(a))'
    BY <1>3 DEF StartAgain, Writing, AppTyped, SessionTypeOK
  <2> QED
    BY <2>1, <2>2 DEF StoredInv, WritesApart, StoredTogether
<1> QED
  BY <1>1, <1>2, <1>3 DEF AppNext, appVars

\* The stored token and id belong together when nobody writes: StoredTogether.
THEOREM StoredTogetherHolds == AppSpec => []StoredTogether
<1>1. AppInit => StoredInv
  BY DEF AppInit, StoredInv, WritesApart, StoredTogether, Writing, NoneClears
<1>2. StoredInv => StoredTogether
  BY DEF StoredInv
<1> QED
  BY <1>1, <1>2, StoredStep, AppTypedHolds, PTL DEF AppSpec, appVars

=============================================================================
