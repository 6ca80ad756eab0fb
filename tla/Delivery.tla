------------------------------ MODULE Delivery ------------------------------
(***************************************************************************)
(* How im-server carries a message from the connection that sends it to    *)
(* its recipient: Hub composed with the message handler of                 *)
(* internal/ws/handler.go that runs inside every ReadPump, with            *)
(* deliverOfflineMessages of cmd/server/main.go that runs once for every   *)
(* connection, and with the two stores they use: the messages table of     *)
(* internal/store/postgres.go and the offline lists of                     *)
(* internal/store/redis.go.                                                *)
(*                                                                         *)
(* Every call to a store is one step and may fail where Faulty allows it;  *)
(* a call that fails may have taken effect all the same (the answer was    *)
(* lost, the context expired).  Between any two of its calls a handler is  *)
(* interleaved with everything else.                                       *)
(***************************************************************************)
EXTENDS Hub

CONSTANTS
    Texts,          \* message ids of texts (and images, handled alike)
    Author,         \* the user who sends a text
    Addressee,      \* its "to"
    Worker,         \* the goroutine of deliverOfflineMessages for a connection
    Faulty,         \* bound: the store calls that may fail
    Fragile,        \* bound: the connections whose peer may go away
    Garbled,        \* bound: the connections whose peer sends what the server
                    \* cannot decode (the Flutter client's heartbeat is such)
    MaxReceived     \* bound: the messages a peer sends over each connection

ASSUME TextsAssumption ==
    /\ Author \in [Texts -> Users] /\ Addressee \in [Texts -> Users]
    /\ Msgs = {"text", "receipt"} \X Texts
    /\ ErrorMsg \notin Msgs
ASSUME WorkerAssumption ==
    /\ Worker \in [Conns -> Callers \ Conns]
    /\ \A c, d \in Conns : Worker[c] = Worker[d] => c = d
ASSUME BoundsAssumption ==
    /\ Faulty \subseteq {"save", "update", "store", "load", "clear", "expire"}
    /\ Fragile \subseteq Conns /\ Garbled \subseteq Conns
    /\ MaxReceived \in [Conns -> Nat]

VARIABLES
    job,            \* what the handler of each connection is doing
    worker,         \* what deliverOfflineMessages of each connection is doing
    rows,           \* the messages table: absent, sent or read
    offline,        \* the list offline:<user> of each user
    received,       \* how many messages came in over each connection
    posted,         \* history: the messages handlers were given
    failed,         \* history: the messages whose call to PostgreSQL failed
    unstored,       \* history: the messages whose push on an offline list failed
    stored,         \* history: the messages pushed on an offline list
    queued,         \* history: the messages a send channel accepted
    wire            \* history: the frames written to each open connection

deliveryVars == <<job, worker, rows, offline, received, posted, failed, unstored,
                  stored, queued, wire>>
vars == <<hubVars, deliveryVars>>

Idle == [step |-> "idle"]
Jobs == {Idle} \cup [step : {"persist", "route", "send", "store"}, msg : Msgs]

DeliveryTypeOK ==
    /\ job \in [Conns -> Jobs]
    /\ worker \in [Conns -> [step : {"none", "load", "loop", "done"},
                             messages : Seq(Msgs), next : Nat \ {0}]]
    /\ rows \in [Texts -> {"absent", "sent", "read"}]
    /\ offline \in [Users -> Seq(Msgs)]
    /\ received \in [Conns -> Nat]
    /\ \A c \in Conns : received[c] <= MaxReceived[c]
    /\ posted \subseteq Msgs /\ failed \subseteq Msgs
    /\ unstored \subseteq Msgs /\ stored \subseteq Msgs
    /\ queued \in [Conns -> Seq(Msgs \cup {ErrorMsg})]
    /\ wire \in [Conns -> Seq(Seq(Msgs \cup {ErrorMsg}))]
    /\ \A c \in Conns : job[c].step = "send" <=> target[c] # NoConn

DeliveryInit ==
    /\ Init
    /\ job = [c \in Conns |-> Idle]
    /\ worker = [c \in Conns |-> [step |-> "none", messages |-> <<>>, next |-> 1]]
    /\ rows = [t \in Texts |-> "absent"]
    /\ offline = [u \in Users |-> <<>>]
    /\ received = [c \in Conns |-> 0]
    /\ posted = {} /\ failed = {} /\ unstored = {} /\ stored = {}
    /\ queued = [c \in Conns |-> <<>>]
    /\ wire = [c \in Conns |-> <<>>]

-----------------------------------------------------------------------------
(* Helpers.                                                                 *)

IsText(m) == m[1] = "text"

\* Mutant: from and to are swapped.
ReturnToSender(m) == IF IsText(m) THEN Author[m[2]] ELSE Addressee[m[2]]

\* msg.To: a text goes to its addressee, a receipt to the author of its text.
Recipient(m) == IF IsText(m) THEN Addressee[m[2]] ELSE Author[m[2]]

\* msg.From, set by HandleMessage to the user of the connection.
Sender(m) == IF IsText(m) THEN Author[m[2]] ELSE Addressee[m[2]]

OnWire(m, c) == \E i \in 1 .. Len(wire[c]) : Contains(wire[c][i], m)

\* The messages user u has been shown.
Shown(u) == {m \in Msgs : \E c \in Conns : UserOf[c] = u /\ OnWire(m, c)}

\* Mutants: ON CONFLICT (id) DO UPDATE; only what must be kept is inserted.
Upsert(t) == [rows EXCEPT ![t] = "sent"]
InsertIfOffline(t) == IF clients[Addressee[t]] = NoConn THEN Upsert(t) ELSE rows

\* INSERT ... ON CONFLICT (id) DO NOTHING.  The status is the one the message has;
\* here texts come as sent.
Insert(t) == IF rows[t] = "absent" THEN [rows EXCEPT ![t] = "sent"] ELSE rows

\* UPDATE messages SET status = 2 WHERE id = t.
SetRead(t) == IF rows[t] = "absent" THEN rows ELSE [rows EXCEPT ![t] = "read"]

\* SaveMessage for a text, UpdateMessageStatus for a receipt.
Persisted(m) == IF IsText(m) THEN Insert(m[2]) ELSE SetRead(m[2])
PersistCall(m) == IF IsText(m) THEN "save" ELSE "update"

\* Whether a non-blocking send to c puts its message in the buffer.
Accepts(c) == ~closed[c] /\ Len(send[c]) < SendCap

RecordQueued(c, m) ==
    queued' = IF Accepts(c) THEN [queued EXCEPT ![c] = Append(@, m)] ELSE queued

-----------------------------------------------------------------------------
(* The message handler.                                                     *)

\* ReadPump reads a message and HandleMessage decodes it.  Peers are clients
\* of their own user, and acknowledge what they have been shown.
Receive(c, m) ==
    /\ Up
    /\ readPump[c] = "reading" /\ job[c] = Idle
    /\ received[c] < MaxReceived[c]
    /\ Sender(m) = UserOf[c]
    /\ ~IsText(m) => <<"text", m[2]>> \in Shown(UserOf[c])
    /\ job' = [job EXCEPT ![c] = [step |-> "persist", msg |-> m]]
    /\ received' = [received EXCEPT ![c] = @ + 1]
    /\ posted' = posted \cup {m}
    /\ UNCHANGED <<hubVars, worker, rows, offline, failed, unstored, stored,
                   queued, wire>>

\* HandleMessage cannot decode the message or does not know its type.
ReceiveBad(c) ==
    /\ c \in Garbled
    /\ job[c] = Idle
    /\ received[c] < MaxReceived[c]
    /\ SendError(c)
    /\ RecordQueued(c, ErrorMsg)
    /\ received' = [received EXCEPT ![c] = @ + 1]
    /\ UNCHANGED <<job, worker, rows, offline, posted, failed, unstored, stored,
                   wire>>

\* The call to PostgreSQL, whose error is logged and otherwise ignored.
Persist(c) ==
    LET m == job[c].msg
    IN  /\ Up
        /\ job[c].step = "persist"
        /\ \/ rows' = Persisted(m) /\ failed' = failed
           \/ /\ PersistCall(m) \in Faulty
              /\ rows' \in {rows, Persisted(m)}
              /\ failed' = failed \cup {m}
        /\ job' = [job EXCEPT ![c].step = "route"]
        /\ UNCHANGED <<hubVars, worker, offline, received, posted, unstored, stored,
                       queued, wire>>

\* Mutants: a text is dropped as well; the client found before is tried again.
MissDropped(m) == Idle
MissRetried(m) == [step |-> "send", msg |-> m]

\* SendToUser returned false: a text is stored, a receipt is dropped.
AfterMiss(m) == IF IsText(m) THEN [step |-> "store", msg |-> m] ELSE Idle

\* The lookup of SendToUser.
Route(c) ==
    LET m == job[c].msg
    IN  /\ job[c].step = "route"
        /\ Lookup(c, Recipient(m))
        /\ job' = [job EXCEPT ![c] =
                    IF clients[Recipient(m)] = NoConn
                    THEN AfterMiss(m)
                    ELSE [step |-> "send", msg |-> m]]
        /\ UNCHANGED <<worker, rows, offline, received, posted, failed, unstored,
                       stored, queued, wire>>

\* The channel send of SendToUser.
Send(c) ==
    LET m == job[c].msg
    IN  /\ job[c].step = "send"
        /\ Push(c, m)
        /\ RecordQueued(target[c], m)
        /\ job' = [job EXCEPT ![c] = IF Accepts(target[c]) THEN Idle ELSE AfterMiss(m)]
        /\ UNCHANGED <<worker, rows, offline, received, posted, failed, unstored,
                       stored, wire>>

\* StoreOfflineMessage.
Store(c) ==
    LET m == job[c].msg
        pushed == [offline EXCEPT ![Recipient(m)] = Append(@, m)]
    IN  /\ Up
        /\ job[c].step = "store"
        /\ \/ offline' = pushed /\ stored' = stored \cup {m} /\ unstored' = unstored
           \/ /\ "store" \in Faulty
              /\ offline' \in {offline, pushed}
              /\ unstored' = unstored \cup {m} /\ stored' = stored
        /\ job' = [job EXCEPT ![c] = Idle]
        /\ UNCHANGED <<hubVars, worker, rows, received, posted, failed, queued, wire>>

-----------------------------------------------------------------------------
(* deliverOfflineMessages: `messages' is its slice, `next' its loop index.  *)

\* LRANGE: an error or an empty list ends the goroutine.
Load(c) ==
    LET list == offline[UserOf[c]]
    IN  /\ Up
        /\ worker[c].step = "load"
        /\ \/ worker' = [worker EXCEPT
                            ![c].step = IF list = <<>> THEN "done" ELSE "loop",
                            ![c].messages = list]
           \/ /\ "load" \in Faulty
              /\ worker' = [worker EXCEPT ![c].step = "done"]
        /\ UNCHANGED <<hubVars, job, rows, offline, received, posted, failed,
                       unstored, stored, queued, wire>>

InLoop(c) == worker[c].step = "loop" /\ worker[c].next <= Len(worker[c].messages)

\* hub.SendToUser for the next message, its result ignored: a user who is not
\* in the map yet, or not any more, is not sent the message.
DeliverLookup(c) ==
    /\ InLoop(c)
    /\ Lookup(Worker[c], UserOf[c])
    /\ worker' = IF clients[UserOf[c]] = NoConn
                 THEN [worker EXCEPT ![c].next = @ + 1]
                 ELSE worker
    /\ UNCHANGED <<job, rows, offline, received, posted, failed, unstored, stored,
                   queued, wire>>

DeliverPush(c) ==
    LET m == worker[c].messages[worker[c].next]
    IN  /\ InLoop(c)
        /\ Push(Worker[c], m)
        /\ RecordQueued(target[Worker[c]], m)
        /\ worker' = [worker EXCEPT ![c].next = @ + 1]
        /\ UNCHANGED <<job, rows, offline, received, posted, failed, unstored,
                       stored, wire>>

\* DEL.
Clear(c) ==
    /\ Up
    /\ worker[c].step = "loop" /\ ~InLoop(c)
    /\ \/ offline' = [offline EXCEPT ![UserOf[c]] = <<>>]
       \/ "clear" \in Faulty /\ offline' = offline
    /\ worker' = [worker EXCEPT ![c].step = "done"]
    /\ UNCHANGED <<hubVars, job, rows, received, posted, failed, unstored, stored,
                   queued, wire>>

\* The list expires, offlineMsgTTL after the last push.
Expire(u) ==
    /\ "expire" \in Faulty
    /\ offline[u] # <<>>
    /\ offline' = [offline EXCEPT ![u] = <<>>]
    /\ UNCHANGED <<hubVars, job, worker, rows, received, posted, failed, unstored,
                   stored, queued, wire>>

-----------------------------------------------------------------------------
(* The steps of Hub, with what they do to the state added here.             *)

\* The "/ws" handler also starts deliverOfflineMessages.
Serve(c) ==
    /\ ServeWS(c)
    /\ worker' = [worker EXCEPT ![c].step = "load"]
    /\ UNCHANGED <<job, rows, offline, received, posted, failed, unstored, stored,
                   queued, wire>>

\* The frame reaches the peer unless the connection is down.
Write(c) ==
    /\ WriteFrame(c)
    /\ wire' = IF sock[c] = "open" THEN [wire EXCEPT ![c] = Append(@, frame[c])]
               ELSE wire
    /\ UNCHANGED <<job, worker, rows, offline, received, posted, failed, unstored,
                   stored, queued>>

\* ReadPump leaves its loop only between two messages.
LeaveLoop(c) == job[c] = Idle /\ ReadError(c)

HubStep ==
    \/ RunRegister \/ RunUnregister
    \/ \E c \in Conns :
        \/ LeaveLoop(c) \/ Unregister(c) \/ CloseConn(c)
        \/ TakeMessage(c) \/ OpenFrame(c) \/ NextWriterFails(c) \/ DrainOne(c)
        \/ WriteFails(c) \/ WriteClose(c) \/ PingFails(c)
    \/ \E c \in Fragile : PeerGone(c)

Handler(c) == Persist(c) \/ Route(c) \/ Send(c) \/ Store(c)

DeliverOffline(c) ==
    Load(c) \/ DeliverLookup(c) \/ DeliverPush(c) \/ Clear(c)

DeliveryNext ==
    \/ HubStep /\ UNCHANGED deliveryVars
    \/ \E c \in Conns :
        \/ Serve(c) \/ Write(c) \/ ReceiveBad(c)
        \/ Handler(c) \/ DeliverOffline(c)
    \/ \E c \in Conns, m \in Msgs : Receive(c, m)
    \/ \E u \in Users : Expire(u)

DeliverySpec == DeliveryInit /\ [][DeliveryNext]_vars

(***************************************************************************)
(* Fairness: that of Hub for its goroutines, and weak fairness of every    *)
(* handler and of every deliverOfflineMessages (their contexts bound the   *)
(* store calls by 5 and by 10 seconds).  Nothing is assumed of the peers.  *)
(***************************************************************************)
DeliveryFairness ==
    /\ WF_vars(RunRegister /\ UNCHANGED deliveryVars)
    /\ WF_vars(RunUnregister /\ UNCHANGED deliveryVars)
    /\ \A c \in Conns :
        /\ SF_vars(LeaveLoop(c) /\ UNCHANGED deliveryVars)
        /\ SF_vars(Unregister(c) /\ UNCHANGED deliveryVars)
        /\ WF_vars(CloseConn(c) /\ UNCHANGED deliveryVars)
        /\ WF_vars(\/ Write(c)
                   \/ /\ \/ TakeMessage(c) \/ OpenFrame(c) \/ NextWriterFails(c)
                         \/ DrainOne(c) \/ WriteFails(c) \/ WriteClose(c)
                         \/ PingFails(c)
                      /\ UNCHANGED deliveryVars)
        /\ WF_vars(Handler(c))
        /\ WF_vars(DeliverOffline(c))

FairDelivery == DeliverySpec /\ DeliveryFairness

-----------------------------------------------------------------------------
(* Safety.                                                                  *)

\* PostgreSQL failed for the text t or for its receipt.
Excused(t) == <<"text", t>> \in failed \/ <<"receipt", t>> \in failed

\* A text is in a send channel or in an offline list only once its row exists,
\* and a receipt only once its text is marked read, unless PostgreSQL failed:
\* the handler persists before it routes, and no one acknowledges a text that
\* was not routed to them.
PersistedFirst ==
    \A t \in Texts : \/ Excused(t)
                     \/ /\ \A c \in Conns :
                             /\ Contains(queued[c], <<"text", t>>) => rows[t] # "absent"
                             /\ Contains(queued[c], <<"receipt", t>>) => rows[t] = "read"
                        /\ \A u \in Users :
                             Contains(offline[u], <<"text", t>>) => rows[t] # "absent"

\* The connection is up, or nothing but the hub ever takes it down.
Unbroken(c) == sock[c] = "open" \/ c \notin Fragile

\* m was accepted by the channel of c and is not lost unless c breaks: it has been
\* written, or a WritePump that still runs will come to it.
SafeWith(m, c) ==
    /\ Contains(queued[c], m)
    /\ \/ OnWire(m, c)
       \/ writePump[c] # "done" /\ Contains(frame[c] \o send[c], m)
       \/ ~Unbroken(c)

\* Every text a handler was given is still in its hands, or has been stored, or the
\* call to store it failed, or is safe with a connection of its addressee unless that
\* connection broke: no early return of the handler drops a text, not even when its
\* save failed, and neither does a full buffer, a batch, or the hub closing a channel
\* when the user is back.  (What deliverOfflineMessages makes of a stored text is the
\* subject of OfflineSentThenCleared.)
LostOnlyWithConnection ==
    \A m \in posted :
        IsText(m) =>
            \/ m \in unstored \cup stored
            \/ \E c \in Conns : job[c] # Idle /\ job[c].msg = m
            \/ \E c \in Conns : UserOf[c] = Recipient(m) /\ SafeWith(m, c)

\* Unless a connection breaks, what was written to it, what its WritePump holds
\* and what is in its buffer are together exactly the messages its channel
\* accepted, in that order, even after the hub has closed the channel; on a
\* connection that broke, what was written is a prefix of them.  Batching loses
\* and reorders nothing.
InOrder ==
    \A c \in Conns :
        IF Unbroken(c)
        THEN FlattenSeq(wire[c]) \o frame[c] \o send[c] = queued[c]
        ELSE IsPrefix(FlattenSeq(wire[c]), queued[c])

\* A message that was read is never unread again, whichever save of a repeated
\* text and whichever update come late.
ReadStays == [][\A t \in Texts : rows[t] = "read" => rows'[t] = "read"]_vars

\* The server implements Conversation: nobody is shown a message that is not
\* for them or that was not sent.
C == INSTANCE Conversation WITH shown <- [u \in Users |-> Shown(u)]

ImplementsConversation == C!Spec

-----------------------------------------------------------------------------
(* Liveness.                                                                *)

\* A text a send channel accepted is written to its connection if the connection
\* stays up, even when the hub closes the channel in the meantime because the
\* user connected again.
QueuedArrives ==
    \A c \in Conns \ Fragile, t \in Texts :
        Contains(queued[c], <<"text", t>>) ~> OnWire(<<"text", t>>, c) \/ ~Up

\* Handlers and deliverOfflineMessages come to an end, whatever the store and
\* the hub answer.
HandlersReturn ==
    \A c \in Conns :
        /\ job[c] # Idle ~> job[c] = Idle \/ ~Up
        /\ worker[c].step = "load" ~> worker[c].step = "done" \/ ~Up

-----------------------------------------------------------------------------
(* What the repository's comments and documents say, and the code does not. *)

\* deliverOfflineMessages "sends any stored offline messages to a user who just
\* connected, then clears the offline queue": a message stored for a user is in
\* their list until a connection of theirs has accepted it.
OfflineSentThenCleared ==
    \A m \in stored :
        \/ Contains(offline[Recipient(m)], m)
        \/ \E c \in Conns : UserOf[c] = Recipient(m) /\ Contains(queued[c], m)

\* docs/api.md: what travels over the WebSocket is a message, one JSON object.
OneMessagePerFrame ==
    \A c \in Conns : \A i \in 1 .. Len(wire[c]) : Len(wire[c][i]) = 1

\* handleTextMessage "persists it, then delivers it to the target user (directly
\* if online, or via offline storage)": a text that was routed has been shown,
\* or a WritePump will still see it, or it is stored.
DeliveredOrKept ==
    \A m \in posted :
        IsText(m) =>
            \/ m \in stored
            \/ \E c \in Conns : job[c] # Idle /\ job[c].msg = m
            \/ m \in Shown(Recipient(m))
            \/ \E c \in Conns :
                /\ UserOf[c] = Recipient(m) /\ writePump[c] # "done"
                /\ Contains(frame[c] \o send[c], m)

=============================================================================
