-------------------------------- MODULE Hub --------------------------------
(***************************************************************************)
(* The connection hub of im-server: internal/ws/hub.go, the two pump       *)
(* goroutines of internal/ws/client.go that every connection runs, and the *)
(* part of the "/ws" handler of cmd/server/main.go that starts them.       *)
(*                                                                         *)
(* The processes are                                                       *)
(*   - the event loop Run, the only writer of the map `clients' and the    *)
(*     only goroutine that closes a send channel;                          *)
(*   - for every connection its ReadPump and its WritePump;                *)
(*   - Callers, the goroutines that call SendToUser.  The ReadPump of the  *)
(*     connection c calls it through its message handler, and is the       *)
(*     caller c; the other callers are the pub/sub forwarder and           *)
(*     deliverOfflineMessages.                                             *)
(* SendToUser releases the lock between its lookup and its channel send,   *)
(* so it is two steps: Lookup and Push.  A send on a closed channel and a  *)
(* second close of a channel panic, and the panic of a goroutine ends the  *)
(* whole process: `crash' says which of the two happened.                  *)
(***************************************************************************)
EXTENDS Integers, SequencesExt

CONSTANTS
    Users,          \* user ids, the keys of the map
    Conns,          \* the connections accepted in a behaviour (*Client values)
    UserOf,         \* the user a connection authenticated as
    NoConn,         \* no entry in the map, no lookup result in hand
    Callers,        \* the goroutines that may call SendToUser
    Msgs,           \* encoded messages
    ErrorMsg,       \* the encoded system message of sendError
    SendCap,        \* capacity of a send channel (sendBufferSize, 256)
    QueueCap,       \* capacity of register and of unregister (64)
    BroadcastCap    \* capacity of broadcast (256)

ASSUME UserOfAssumption == UserOf \in [Conns -> Users]
ASSUME NoConnAssumption == NoConn \notin Conns
ASSUME CallersAssumption == Conns \subseteq Callers
ASSUME CapAssumption ==
    SendCap \in Nat \ {0} /\ QueueCap \in Nat \ {0} /\ BroadcastCap \in Nat

VARIABLES
    clients,        \* Hub.clients: the connection registered for each user
    register,       \* Hub.register: clients requesting to join
    unregister,     \* Hub.unregister: clients requesting to leave
    broadcast,      \* Hub.broadcast: <<user, message>> pairs
    send,           \* Client.send: the buffer of each send channel
    closed,         \* whether the send channel has been closed
    frame,          \* the messages a WritePump holds in an unfinished frame
    left,           \* how many queued messages it has yet to add to that frame
    readPump,       \* where the ReadPump of each connection is
    writePump,      \* where the WritePump of each connection is
    sock,           \* the WebSocket connection under the two pumps
    target,         \* the client a caller looked up and has yet to send to
    crash           \* the panic that ended the process, if any

hubVars == <<clients, register, unregister, broadcast, send, closed, frame,
             left, readPump, writePump, sock, target, crash>>

TypeOK ==
    /\ clients \in [Users -> Conns \cup {NoConn}]
    /\ register \in Seq(Conns) /\ Len(register) <= QueueCap
    /\ unregister \in Seq(Conns) /\ Len(unregister) <= QueueCap
    /\ broadcast \in Seq(Users \X Msgs) /\ Len(broadcast) <= BroadcastCap
    /\ send \in [Conns -> Seq(Msgs \cup {ErrorMsg})]
    /\ \A c \in Conns : Len(send[c]) <= SendCap
    /\ closed \in [Conns -> BOOLEAN]
    /\ frame \in [Conns -> Seq(Msgs \cup {ErrorMsg})]
    /\ left \in [Conns -> Nat]
    /\ readPump \in [Conns -> {"none", "reading", "leaving", "closing", "done"}]
    /\ writePump \in [Conns -> {"none", "running", "received", "done"}]
    /\ sock \in [Conns -> {"none", "open", "broken", "closed"}]
    /\ target \in [Callers -> Conns \cup {NoConn}]
    /\ crash \in {"none", "send", "close"}

Init ==
    /\ clients = [u \in Users |-> NoConn]
    /\ register = <<>> /\ unregister = <<>> /\ broadcast = <<>>
    /\ send = [c \in Conns |-> <<>>]
    /\ closed = [c \in Conns |-> FALSE]
    /\ frame = [c \in Conns |-> <<>>]
    /\ left = [c \in Conns |-> 0]
    /\ readPump = [c \in Conns |-> "none"]
    /\ writePump = [c \in Conns |-> "none"]
    /\ sock = [c \in Conns |-> "none"]
    /\ target = [g \in Callers |-> NoConn]
    /\ crash = "none"

-----------------------------------------------------------------------------
(* Helpers.                                                                 *)

Up == crash = "none"

Mapped(c) == clients[UserOf[c]] = c

InQueue(c) == \E i \in 1 .. Len(register) : register[i] = c

\* Mutant: whoever leaves, the user's entry is removed.
HoldsEntry(c) == clients[UserOf[c]] # NoConn

\* existing, ok := h.clients[client.UserID]; ok && existing == client
Holds(c) == Mapped(c)

\* Mutants: one message too many; the oldest message makes room.
TrySendOver(buffer, m) == IF Len(buffer) <= SendCap THEN Append(buffer, m) ELSE buffer
TrySendEvicting(buffer, m) ==
    IF Len(buffer) < SendCap THEN Append(buffer, m) ELSE Append(Tail(buffer), m)

\* select { case ch <- m: default: }: the buffer after a non-blocking send.
TrySend(buffer, m) == IF Len(buffer) < SendCap THEN Append(buffer, m) ELSE buffer

\* A channel send to client c by any goroutine: panics when the channel is
\* closed, drops the message when the buffer is full.
Offer(c, m) ==
    IF closed[c]
    THEN crash' = "send" /\ send' = send
    ELSE crash' = crash /\ send' = [send EXCEPT ![c] = TrySend(@, m)]

\* Mutant: the channel is left open.
CloseNothing(C) == UNCHANGED <<crash, closed>>

\* close(c.send), c \in C: panics when one is closed already.
CloseSend(C) ==
    IF \E c \in C : closed[c]
    THEN crash' = "close" /\ closed' = closed
    ELSE crash' = crash /\ closed' = [c \in Conns |-> closed[c] \/ c \in C]

-----------------------------------------------------------------------------
(* The "/ws" handler: NewClient, hub.Register, go WritePump, go ReadPump.   *)

ServeWS(c) ==
    /\ Up
    /\ readPump[c] = "none"
    /\ Len(register) < QueueCap
    /\ register' = Append(register, c)
    /\ readPump' = [readPump EXCEPT ![c] = "reading"]
    /\ writePump' = [writePump EXCEPT ![c] = "running"]
    /\ sock' = [sock EXCEPT ![c] = "open"]
    /\ UNCHANGED <<clients, unregister, broadcast, send, closed, frame, left,
                   target, crash>>

-----------------------------------------------------------------------------
(* The event loop: one action per case of the select in Run.                *)

\* The old connection of the same user, if any, is closed and replaced.
RunRegister ==
    /\ Up
    /\ register # <<>>
    /\ LET c == Head(register)
           u == UserOf[c]
       IN  /\ CloseSend({clients[u]} \ {NoConn})
           /\ clients' = [clients EXCEPT ![u] = c]
    /\ register' = Tail(register)
    /\ UNCHANGED <<unregister, broadcast, send, frame, left, readPump,
                   writePump, sock, target>>

\* Only the connection that is still the registered one is removed.
RunUnregister ==
    /\ Up
    /\ unregister # <<>>
    /\ LET c == Head(unregister)
       IN  IF Holds(c)
           THEN /\ CloseSend({c})
                /\ clients' = [clients EXCEPT ![UserOf[c]] = NoConn]
           ELSE UNCHANGED <<clients, closed, crash>>
    /\ unregister' = Tail(unregister)
    /\ UNCHANGED <<register, broadcast, send, frame, left, readPump,
                   writePump, sock, target>>

\* Only Run closes channels, so its lookup and its send see the same state.
RunBroadcast ==
    /\ Up
    /\ broadcast # <<>>
    /\ LET u == Head(broadcast)[1]
           m == Head(broadcast)[2]
       IN  IF clients[u] = NoConn
           THEN UNCHANGED <<send, crash>>
           ELSE Offer(clients[u], m)
    /\ broadcast' = Tail(broadcast)
    /\ UNCHANGED <<clients, register, unregister, closed, frame, left,
                   readPump, writePump, sock, target>>

-----------------------------------------------------------------------------
(* The operations other goroutines call on the hub.                         *)

\* Hub.Broadcast, exported and without a caller in this repository.
Broadcast(u, m) ==
    /\ Up
    /\ Len(broadcast) < BroadcastCap
    /\ broadcast' = Append(broadcast, <<u, m>>)
    /\ UNCHANGED <<clients, register, unregister, send, closed, frame, left,
                   readPump, writePump, sock, target, crash>>

\* A ReadPump calls the hub from its handler, while it is in its loop.
MayCall(g) == target[g] = NoConn /\ (g \in Conns => readPump[g] = "reading")

\* SendToUser, under the read lock.  An absent user ends the call here.
Lookup(g, u) ==
    /\ Up
    /\ MayCall(g)
    /\ target' = [target EXCEPT ![g] = clients[u]]
    /\ UNCHANGED <<clients, register, unregister, broadcast, send, closed,
                   frame, left, readPump, writePump, sock, crash>>

\* SendToUser, after the lock is released.
Push(g, m) ==
    /\ Up
    /\ target[g] # NoConn
    /\ Offer(target[g], m)
    /\ target' = [target EXCEPT ![g] = NoConn]
    /\ UNCHANGED <<clients, register, unregister, broadcast, closed, frame,
                   left, readPump, writePump, sock>>

\* MessageHandler.sendError: a send by the ReadPump of c to its own client.
SendError(c) ==
    /\ Up
    /\ MayCall(c)
    /\ Offer(c, ErrorMsg)
    /\ UNCHANGED <<clients, register, unregister, broadcast, closed, frame,
                   left, readPump, writePump, sock, target>>

-----------------------------------------------------------------------------
(* ReadPump.                                                                *)

\* ReadMessage fails: the peer is gone, or the other pump closed the socket.
ReadError(c) ==
    /\ Up
    /\ MayCall(c)
    /\ sock[c] \in {"broken", "closed"}
    /\ readPump' = [readPump EXCEPT ![c] = "leaving"]
    /\ UNCHANGED <<clients, register, unregister, broadcast, send, closed,
                   frame, left, writePump, sock, target, crash>>

\* The first deferred call: hub.Unregister(c), which blocks on a full channel.
Unregister(c) ==
    /\ Up
    /\ readPump[c] = "leaving"
    /\ Len(unregister) < QueueCap
    /\ unregister' = Append(unregister, c)
    /\ readPump' = [readPump EXCEPT ![c] = "closing"]
    /\ UNCHANGED <<clients, register, broadcast, send, closed, frame, left,
                   writePump, sock, target, crash>>

\* The second deferred call: conn.Close().
CloseConn(c) ==
    /\ Up
    /\ readPump[c] = "closing"
    /\ readPump' = [readPump EXCEPT ![c] = "done"]
    /\ sock' = [sock EXCEPT ![c] = "closed"]
    /\ UNCHANGED <<clients, register, unregister, broadcast, send, closed,
                   frame, left, writePump, target, crash>>

-----------------------------------------------------------------------------
(* WritePump.                                                               *)

\* Mutant: the connection is not closed.
PumpEnds(c) ==
    /\ writePump' = [writePump EXCEPT ![c] = "done"]
    /\ frame' = [frame EXCEPT ![c] = <<>>]
    /\ sock' = sock

\* It returns: the deferred conn.Close() runs, what it held is lost.
PumpReturns(c) ==
    /\ writePump' = [writePump EXCEPT ![c] = "done"]
    /\ sock' = [sock EXCEPT ![c] = "closed"]
    /\ frame' = [frame EXCEPT ![c] = <<>>]

\* It is at its select, with no frame in hand.
AtSelect(c) == writePump[c] = "running" /\ frame[c] = <<>>

\* A message is received from the channel.
TakeMessage(c) ==
    /\ Up
    /\ AtSelect(c)
    /\ send[c] # <<>>
    /\ frame' = [frame EXCEPT ![c] = <<Head(send[c])>>]
    /\ send' = [send EXCEPT ![c] = Tail(@)]
    /\ writePump' = [writePump EXCEPT ![c] = "received"]
    /\ UNCHANGED <<clients, register, unregister, broadcast, closed, left,
                   readPump, sock, target, crash>>

\* NextWriter succeeds, and n := len(c.send).
OpenFrame(c) ==
    /\ Up
    /\ writePump[c] = "received"
    /\ left' = [left EXCEPT ![c] = Len(send[c])]
    /\ writePump' = [writePump EXCEPT ![c] = "running"]
    /\ UNCHANGED <<clients, register, unregister, broadcast, send, closed,
                   frame, readPump, sock, target, crash>>

\* NextWriter fails: the message received is lost.
NextWriterFails(c) ==
    /\ Up
    /\ writePump[c] = "received"
    /\ sock[c] # "open"
    /\ PumpReturns(c)
    /\ UNCHANGED <<clients, register, unregister, broadcast, send, closed,
                   left, readPump, target, crash>>

\* One of the n queued messages is added to the frame.
DrainOne(c) ==
    /\ Up
    /\ left[c] > 0
    /\ send[c] # <<>>
    /\ frame' = [frame EXCEPT ![c] = Append(@, Head(send[c]))]
    /\ send' = [send EXCEPT ![c] = Tail(@)]
    /\ left' = [left EXCEPT ![c] = @ - 1]
    /\ UNCHANGED <<clients, register, unregister, broadcast, closed,
                   readPump, writePump, sock, target, crash>>

\* The frame is complete.
FrameReady(c) == writePump[c] = "running" /\ frame[c] # <<>> /\ left[c] = 0

\* The frame is written: w.Close() succeeds.  On a broken connection it may
\* still succeed, the bytes going no further than a socket buffer.
WriteFrame(c) ==
    /\ Up
    /\ FrameReady(c)
    /\ sock[c] # "closed"
    /\ frame' = [frame EXCEPT ![c] = <<>>]
    /\ UNCHANGED <<clients, register, unregister, broadcast, send, closed,
                   left, readPump, writePump, sock, target, crash>>

\* w.Close() fails.
WriteFails(c) ==
    /\ Up
    /\ FrameReady(c)
    /\ sock[c] # "open"
    /\ PumpReturns(c)
    /\ UNCHANGED <<clients, register, unregister, broadcast, send, closed,
                   left, readPump, target, crash>>

\* Mutant: a closed channel is noticed before its buffer is drained.
CloseAtOnce(c) ==
    /\ Up
    /\ AtSelect(c)
    /\ closed[c]
    /\ PumpReturns(c)
    /\ UNCHANGED <<clients, register, unregister, broadcast, send, closed,
                   left, readPump, target, crash>>

\* The hub closed the channel and the buffer is drained: the close frame is
\* sent, successfully or not, and the pump returns.
WriteClose(c) ==
    /\ Up
    /\ AtSelect(c)
    /\ closed[c] /\ send[c] = <<>>
    /\ PumpReturns(c)
    /\ UNCHANGED <<clients, register, unregister, broadcast, send, closed,
                   left, readPump, target, crash>>

\* Mutant: there is no ticker.
NoPing(c) == FALSE

\* The ticker fires and the ping cannot be written.
PingFails(c) ==
    /\ Up
    /\ AtSelect(c)
    /\ sock[c] # "open"
    /\ PumpReturns(c)
    /\ UNCHANGED <<clients, register, unregister, broadcast, send, closed,
                   left, readPump, target, crash>>

-----------------------------------------------------------------------------
\* The peer closes, the network fails, a read or a write deadline expires.
PeerGone(c) ==
    /\ Up
    /\ sock[c] = "open"
    /\ sock' = [sock EXCEPT ![c] = "broken"]
    /\ UNCHANGED <<clients, register, unregister, broadcast, send, closed,
                   frame, left, readPump, writePump, target, crash>>

Run == RunRegister \/ RunUnregister \/ RunBroadcast

ReadPump(c) == ReadError(c) \/ Unregister(c) \/ CloseConn(c) \/ SendError(c)

WritePump(c) ==
    \/ TakeMessage(c) \/ OpenFrame(c) \/ NextWriterFails(c) \/ DrainOne(c)
    \/ WriteFrame(c) \/ WriteFails(c) \/ WriteClose(c) \/ PingFails(c)

Next ==
    \/ Run
    \/ \E c \in Conns : ServeWS(c) \/ ReadPump(c) \/ WritePump(c) \/ PeerGone(c)
    \/ \E g \in Callers, u \in Users : Lookup(g, u)
    \/ \E g \in Callers, m \in Msgs : Push(g, m)
    \/ \E u \in Users, m \in Msgs : Broadcast(u, m)

Spec == Init /\ [][Next]_hubVars

(***************************************************************************)
(* Fairness.  The Go scheduler runs every runnable goroutine, and a select *)
(* chooses at random among its ready cases, so a case that stays ready is  *)
(* taken; the ticker of a WritePump keeps firing and a write returns       *)
(* within writeWait.  A ReadPump whose connection is down has finitely     *)
(* many messages left to read before ReadMessage fails: strong fairness.   *)
(* A blocked Unregister waits for room that other leavers may take first,  *)
(* and Go serves blocked senders in order: strong fairness again.  Nothing *)
(* is assumed of peers, of ServeWS or of the callers' next calls.          *)
(***************************************************************************)
Fairness ==
    /\ WF_hubVars(RunRegister)
    /\ WF_hubVars(RunUnregister)
    /\ WF_hubVars(RunBroadcast)
    /\ \A g \in Callers : WF_hubVars(\E m \in Msgs : Push(g, m))
    /\ \A c \in Conns :
        /\ SF_hubVars(ReadError(c))
        /\ SF_hubVars(Unregister(c))
        /\ WF_hubVars(CloseConn(c))
        /\ WF_hubVars(WritePump(c))

FairSpec == Spec /\ Fairness

-----------------------------------------------------------------------------
(* Safety.                                                                  *)

\* No send channel is closed twice: RunRegister closes the connection it
\* replaces, RunUnregister the one that leaves, and a connection that is
\* replaced and then leaves is closed by the first of them only.
NoDoubleClose == crash # "close"

\* Every accepted connection is in exactly one place: waiting in the register
\* channel (once), in the map under its own user, or with its channel closed.
\* None is forgotten with an open channel, whose WritePump would never end,
\* and none that is closed can be found by SendToUser's lookup.
Accounted ==
    /\ \A u \in Users : clients[u] # NoConn => UserOf[clients[u]] = u
    /\ \A i, j \in 1 .. Len(register) : register[i] = register[j] => i = j
    /\ \A c \in Conns :
        IF readPump[c] = "none"
        THEN ~InQueue(c) /\ ~Mapped(c) /\ ~closed[c]
        ELSE /\ InQueue(c) \/ Mapped(c) \/ closed[c]
             /\ ~(InQueue(c) /\ Mapped(c))
             /\ ~(InQueue(c) /\ closed[c])
             /\ ~(Mapped(c) /\ closed[c])

\* What the comment of SendToUser says: "Returns true if the message was
\* queued for delivery, false if the user is offline."  It returns.
SendReturns == crash # "send"

\* What the comments of Hub say: it "maintains the set of active clients".  A
\* connection whose ReadPump is over is in the map no longer than its
\* unregister request is in the channel.
OnlyActiveMapped ==
    \A c \in Conns :
        Mapped(c) /\ readPump[c] = "done" => c \in ToSet(unregister)

\* A connection leaves the map only with its channel closed, and only because
\* its own ReadPump is over or because its user has a newer connection: the
\* late unregister of a replaced connection never removes its successor.
NoEviction ==
    [][\A c \in Conns : Mapped(c) /\ ~Mapped(c)' =>
        /\ closed'[c]
        /\ \/ readPump[c] \in {"closing", "done"}
           \/ InQueue(clients'[UserOf[c]])]_hubVars

\* The hub implements Presence: whatever the order in which it takes its two
\* queues, a user is reached through one connection at a time and never again
\* through one that was replaced or removed.
P == INSTANCE Presence
        WITH online <- clients, retired <- {c \in Conns : closed[c]}

ImplementsPresence == P!Spec

-----------------------------------------------------------------------------
(* Liveness.                                                                *)

\* A connection the hub closes is wound up: both pumps end.
ClosedEnds ==
    \A c \in Conns :
        closed[c] ~> \/ readPump[c] = "done" /\ writePump[c] = "done"
                     \/ ~Up

\* No WritePump outlives the ReadPump of its connection for ever, whether or
\* not the hub has closed its channel.
WritePumpEnds ==
    \A c \in Conns : readPump[c] = "done" ~> writePump[c] = "done" \/ ~Up

=============================================================================
