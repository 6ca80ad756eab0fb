------------------------------ MODULE WsService ------------------------------
(***************************************************************************)
(* The app's WebSocket client: lib/services/ws_service.dart.  Dart runs    *)
(* one callback at a time, so every callback and every call is one step;   *)
(* what is concurrent is the channels.  A channel that was replaced stays  *)
(* open, and its callbacks stay registered, until its stream is done.      *)
(*                                                                         *)
(* A stream that fails reports an error and is done at once: onError and   *)
(* onDone do the same, and are one step.  The names of channels are used   *)
(* again when their stream is done.                                        *)
(***************************************************************************)
EXTENDS Integers, FiniteSets

CONSTANTS
    Users,
    NoUser,
    Channels,       \* bound: the channels open at once
    NoChannel

ASSUME NoneAssumption == NoUser \notin Users /\ NoChannel \notin Channels

VARIABLES
    token,          \* whose token StorageService holds
    stream,         \* the state of each channel's stream
    channel,        \* _channel
    connected,      \* _isConnected
    wanted,         \* _shouldReconnect
    heartbeat,      \* whether _heartbeatTimer runs
    timer,          \* whether _reconnectTimer is pending
    begun,          \* history: connect has opened a channel since the start
    gaveUp,         \* history: the last timer found no token, and none was set since
    hasty           \* history: connect was called with a channel still there or
                    \* a reconnect pending

wsVars == <<stream, channel, connected, wanted, heartbeat, timer, begun, gaveUp, hasty>>

WsTypeOK ==
    /\ token \in Users \cup {NoUser}
    /\ stream \in [Channels -> {"free", "open", "ending"}]
    /\ channel \in Channels \cup {NoChannel}
    /\ connected \in BOOLEAN /\ wanted \in BOOLEAN /\ heartbeat \in BOOLEAN
    /\ timer \in BOOLEAN /\ begun \in BOOLEAN /\ gaveUp \in BOOLEAN
    /\ hasty \in BOOLEAN

\* A new WsService.
Fresh ==
    /\ stream = [c \in Channels |-> "free"]
    /\ channel = NoChannel
    /\ connected = FALSE /\ wanted = TRUE /\ heartbeat = FALSE /\ timer = FALSE
    /\ begun = FALSE /\ gaveUp = FALSE /\ hasty = FALSE

WsInit == token \in Users \cup {NoUser} /\ Fresh

-----------------------------------------------------------------------------
\* Mutants: a reconnect is scheduled though nobody wants one; and only while
\* somebody is signed in.
ScheduleAlways == timer' = TRUE
ScheduleIfSignedIn == timer' = (timer \/ (wanted /\ token # NoUser))

\* _scheduleReconnect cancels the pending timer and sets a new one.
ScheduleReconnect == timer' = (timer \/ wanted)

\* _doConnect, with the token of the moment: the channel before it is neither closed
\* nor forgotten.
DoConnect ==
    \E c \in Channels :
        /\ stream[c] = "free"
        /\ stream' = [stream EXCEPT ![c] = "open"]
        /\ channel' = c
        /\ connected' = TRUE /\ heartbeat' = TRUE

Busy == timer \/ \E c \in Channels : stream[c] # "free"

\* connect(), which does nothing without a token, and leaves a pending timer.  What
\* _doConnect throws, it catches, and it schedules a reconnect.
Connect ==
    /\ token # NoUser
    /\ wanted' = TRUE /\ begun' = TRUE /\ gaveUp' = FALSE
    /\ hasty' = (hasty \/ Busy)
    /\ \/ DoConnect /\ timer' = timer
       \/ timer' = TRUE /\ UNCHANGED <<stream, channel, connected, heartbeat>>

\* disconnect(): the stream of the channel will be done.  (dispose() calls it as
\* well, and ends the service.)
Disconnect ==
    /\ stream' = [c \in Channels |->
                    IF c = channel /\ stream[c] = "open" THEN "ending" ELSE stream[c]]
    /\ wanted' = FALSE /\ connected' = FALSE /\ channel' = NoChannel
    /\ heartbeat' = FALSE /\ timer' = FALSE
    /\ UNCHANGED <<begun, gaveUp, hasty>>

\* The server, or the network, ends a channel.
Ends(c) ==
    /\ stream[c] = "open"
    /\ stream' = [stream EXCEPT ![c] = "ending"]
    /\ UNCHANGED <<channel, connected, wanted, heartbeat, timer, begun, gaveUp, hasty>>

\* _onError and _onDone, of whichever channel: what they mark as lost is the
\* connection of the service.
Lost(c) ==
    /\ stream[c] = "ending"
    /\ stream' = [stream EXCEPT ![c] = "free"]
    /\ connected' = FALSE /\ heartbeat' = FALSE
    /\ ScheduleReconnect
    /\ gaveUp' = (gaveUp /\ ~ wanted)
    /\ UNCHANGED <<channel, wanted, begun, hasty>>

\* Mutant: the timer is periodic.
TimerRepeats ==
    /\ timer /\ token # NoUser /\ wanted
    /\ DoConnect
    /\ gaveUp' = FALSE
    /\ UNCHANGED <<wanted, timer, begun, hasty>>

\* The callback of the reconnect timer connects; when _doConnect throws, the timer
\* is set again, and nothing has changed.
TimerConnects ==
    /\ timer /\ token # NoUser /\ wanted
    /\ DoConnect
    /\ timer' = FALSE /\ gaveUp' = FALSE
    /\ UNCHANGED <<wanted, begun, hasty>>

\* Or it finds that it need not.
TimerGivesUp ==
    /\ timer /\ ~ (token # NoUser /\ wanted)
    /\ timer' = FALSE /\ gaveUp' = TRUE
    /\ UNCHANGED <<stream, channel, connected, wanted, heartbeat, begun, hasty>>

TimerFires == TimerConnects \/ TimerGivesUp

WsStep ==
    \/ Connect \/ Disconnect \/ TimerFires
    \/ \E c \in Channels : Ends(c) \/ Lost(c)

\* Whatever the rest of the app does with the token.
SetToken(u) == token' = u /\ UNCHANGED wsVars

\* The app is started anew.
Restart ==
    /\ stream' = [c \in Channels |-> "free"]
    /\ channel' = NoChannel
    /\ connected' = FALSE /\ wanted' = TRUE /\ heartbeat' = FALSE /\ timer' = FALSE
    /\ begun' = FALSE /\ gaveUp' = FALSE /\ hasty' = FALSE
    /\ token' = token

WsNext ==
    \/ WsStep /\ token' = token
    \/ \E u \in Users \cup {NoUser} : SetToken(u)
    \/ Restart

WsSpec == WsInit /\ [][WsNext]_<<token, wsVars>>

-----------------------------------------------------------------------------
(* Properties.                                                              *)

\* A connection that is wanted and was lost is on its way back: a timer is set,
\* unless the last one found nobody signed in.  No callback of an old channel and
\* no call in between leaves the service down and idle.
RetryArmed == begun /\ wanted /\ ~ connected => timer \/ gaveUp

\* The flags agree: pings are sent exactly while the service calls itself
\* connected, it does so only with a channel, and after a disconnect neither a
\* ping nor a reconnect is left, whichever old callbacks still arrive.
FlagsAgree ==
    /\ heartbeat = connected
    /\ connected => wanted /\ channel # NoChannel
    /\ ~ wanted => ~ timer /\ channel = NoChannel

\* As long as connect is only called when nothing is left of the connection before,
\* there is one channel at most, it is the service's own, and the service calls
\* itself connected exactly until that channel's onDone.  (After a hasty connect
\* a late onDone marks the new channel as lost: two channels replace each other.)
OneChannel ==
    ~ hasty =>
        /\ \A c, d \in Channels : stream[c] # "free" /\ stream[d] # "free" => c = d
        /\ connected <=> channel # NoChannel /\ stream[channel] # "free"
        /\ timer => \A c \in Channels : stream[c] = "free"

=============================================================================
