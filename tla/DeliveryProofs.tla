--------------------------- MODULE DeliveryProofs ---------------------------
(***************************************************************************)
(* Proofs about Delivery, for every number of users, connections and texts *)
(* and with any of the store calls failing.                                *)
(*                                                                         *)
(* First, every step of Delivery is a step of Hub or a stutter, so what    *)
(* HubProofs shows of the hub holds with the message handler on top of it. *)
(* Then PersistedFirst: the inductive invariant says that all the places a *)
(* message travels through hold messages of a set S (Carried), first with  *)
(* S all messages, which is type correctness, then with S the messages     *)
(* whose row justifies them (Backed).                                      *)
(*                                                                         *)
(* Then HandledSomewhere, for which a handler between the halves of        *)
(* SendToUser must be known to hold a connection of its recipient (Aimed), *)
(* and the refinement of Conversation, for which the same must be known of *)
(* deliverOfflineMessages and of all that is on its way (Directed).        *)
(*                                                                         *)
(* Last, InOrder, whose invariant (OrderInv) follows each connection from  *)
(* the register channel to its end, and what it gives with the others:     *)
(* when a text may be lost, how long a frame is, where a panic comes from. *)
(***************************************************************************)
EXTENDS Delivery, HubProofs, WellFoundedInduction

\* The set of what the handlers have persisted, and the offline lists, the
\* snapshots of them, the buffers, the frames and the wires hold, is within S.
Carried(S) ==
    /\ \A c \in Conns : job[c].step \in {"route", "send", "store"} => job[c].msg \in S
    /\ offline \in [Users -> Seq(S)]
    /\ worker \in [Conns -> [step : {"none", "load", "loop", "done"},
                             messages : Seq(S), next : Nat \ {0}]]
    /\ send \in [Conns -> Seq(S \cup {ErrorMsg})]
    /\ frame \in [Conns -> Seq(S \cup {ErrorMsg})]
    /\ queued \in [Conns -> Seq(S \cup {ErrorMsg})]
    /\ wire \in [Conns -> Seq(Seq(S \cup {ErrorMsg}))]

TypeInv == TypeOK /\ DeliveryTypeOK

-----------------------------------------------------------------------------
(* The steps of Delivery as steps of Hub.                                   *)

\* A job that is past its start holds a message.
LEMMA JobMsg ==
    ASSUME DeliveryTypeOK, NEW c \in Conns, job[c] # Idle
    PROVE  job[c].msg \in Msgs
  BY DEF DeliveryTypeOK, Jobs

LEMMA RecipientType ==
    ASSUME NEW m \in Msgs
    PROVE  Recipient(m) \in Users /\ m[1] \in {"text", "receipt"} /\ m[2] \in Texts
  BY TextsAssumption DEF Recipient

LEMMA HubStepOf == DeliveryTypeOK /\ [DeliveryNext]_vars => [Next]_hubVars
<1> SUFFICES ASSUME DeliveryTypeOK, [DeliveryNext]_vars PROVE Next \/ UNCHANGED hubVars
  OBVIOUS
<1> USE CallersAssumption
<1>1. CASE HubStep
  BY <1>1, BoundsAssumption DEF HubStep, LeaveLoop, Next, Run, ReadPump, WritePump
<1>2. ASSUME NEW c \in Conns, Serve(c) \/ Write(c) \/ ReceiveBad(c) PROVE Next
  BY <1>2 DEF Serve, Write, ReceiveBad, Next, ReadPump, WritePump
<1>3. ASSUME NEW c \in Conns, Handler(c) PROVE Next \/ UNCHANGED hubVars
  <2>1. CASE Persist(c) \/ Store(c)
    BY <2>1 DEF Persist, Store
  <2>2. CASE Route(c)
    <3>1. Recipient(job[c].msg) \in Users
      BY <2>2, JobMsg, RecipientType DEF Route, Idle
    <3>2. Lookup(c, Recipient(job[c].msg))
      BY <2>2 DEF Route
    <3> QED
      BY <3>1, <3>2 DEF Next
  <2>3. CASE Send(c)
    <3>1. job[c].msg \in Msgs
      BY <2>3, JobMsg DEF Send, Idle
    <3>2. Push(c, job[c].msg)
      BY <2>3 DEF Send
    <3> QED
      BY <3>1, <3>2 DEF Next
  <2> QED
    BY <1>3, <2>1, <2>2, <2>3 DEF Handler
<1>4. ASSUME NEW c \in Conns, DeliverOffline(c) PROVE Next \/ UNCHANGED hubVars
  <2>1. Worker[c] \in Callers /\ UserOf[c] \in Users
    BY WorkerAssumption, UserOfAssumption
  <2>2. CASE Load(c) \/ Clear(c)
    BY <2>2 DEF Load, Clear
  <2>3. CASE DeliverLookup(c)
    BY <2>1, <2>3 DEF DeliverLookup, Next
  <2>4. CASE DeliverPush(c)
    <3>1. worker[c].messages[worker[c].next] \in Msgs
      BY <2>4 DEF DeliverPush, InLoop, DeliveryTypeOK
    <3>2. Push(Worker[c], worker[c].messages[worker[c].next])
      BY <2>4 DEF DeliverPush
    <3> QED
      BY <2>1, <3>1, <3>2 DEF Next
  <2> QED
    BY <1>4, <2>2, <2>3, <2>4 DEF DeliverOffline
<1>5. CASE \/ \E c \in Conns, m \in Msgs : Receive(c, m)
           \/ \E u \in Users : Expire(u)
           \/ UNCHANGED vars
  BY <1>5 DEF Receive, Expire, vars
<1> QED
  BY <1>1, <1>2, <1>3, <1>4, <1>5 DEF DeliveryNext

-----------------------------------------------------------------------------
(* Carried is preserved by every step, if what a handler persists is in S.  *)

\* A sequence over a set is a sequence over a larger one.
LEMMA SeqMono ==
    ASSUME NEW S, NEW T, S \subseteq T
    PROVE  Seq(S) \subseteq Seq(T)
  OBVIOUS

LEMMA CarriedMono ==
    ASSUME NEW S, NEW T, S \subseteq T, Carried(S)
    PROVE  Carried(T)
<1>1. Seq(S) \subseteq Seq(T) /\ Seq(S \cup {ErrorMsg}) \subseteq Seq(T \cup {ErrorMsg})
  BY SeqMono
<1>2. Seq(Seq(S \cup {ErrorMsg})) \subseteq Seq(Seq(T \cup {ErrorMsg}))
  BY <1>1, SeqMono
<1> QED
  BY <1>1, <1>2 DEF Carried

\* A non-blocking send puts nothing but its message in the buffers.
LEMMA OfferCarried ==
    ASSUME NEW S, NEW c \in Conns, NEW m \in S, Offer(c, m), RecordQueued(c, m),
           send \in [Conns -> Seq(S)], queued \in [Conns -> Seq(S)]
    PROVE  send' \in [Conns -> Seq(S)] /\ queued' \in [Conns -> Seq(S)]
<1>1. Append(send[c], m) \in Seq(S) /\ Append(queued[c], m) \in Seq(S)
  BY AppendProperties
<1> QED
  BY <1>1 DEF Offer, TrySend, RecordQueued

\* The steps of the hub and of the pumps.
LEMMA CarriedHub ==
    ASSUME NEW S, DeliveryTypeOK, Carried(S), HubStep /\ UNCHANGED deliveryVars
    PROVE  Carried(S)'
<1>1. ASSUME send' = send, frame' = frame PROVE Carried(S)'
  BY <1>1 DEF Carried, deliveryVars
<1>2. CASE \/ RunRegister \/ RunUnregister
           \/ \E c \in Conns : LeaveLoop(c) \/ Unregister(c) \/ CloseConn(c)
           \/ \E c \in Fragile : PeerGone(c)
  BY <1>1, <1>2 DEF RunRegister, RunUnregister, LeaveLoop, ReadError, Unregister,
                    CloseConn, PeerGone
<1>3. ASSUME NEW c \in Conns,
             \/ TakeMessage(c) \/ OpenFrame(c) \/ NextWriterFails(c) \/ DrainOne(c)
             \/ WriteFails(c) \/ WriteClose(c) \/ PingFails(c)
      PROVE  Carried(S)'
  <2> DEFINE M == S \cup {ErrorMsg}
             T == Seq(M)
  <2>1. send \in [Conns -> T] /\ frame \in [Conns -> T] /\ <<>> \in T
    BY DEF Carried
  <2>2. send[c] # <<>> => Tail(send[c]) \in T /\ Head(send[c]) \in M
    BY <2>1, TailProperties
  <2>3. CASE TakeMessage(c) \/ DrainOne(c)
    <3>1. /\ send[c] # <<>> /\ send' = [send EXCEPT ![c] = Tail(send[c])]
          /\ frame' \in {[frame EXCEPT ![c] = <<Head(send[c])>>],
                         [frame EXCEPT ![c] = Append(frame[c], Head(send[c]))]}
      BY <2>3 DEF TakeMessage, DrainOne
    <3>2. <<Head(send[c])>> \in T /\ Append(frame[c], Head(send[c])) \in T
      BY <2>1, <2>2, <3>1, AppendProperties
    <3>3. send' \in [Conns -> T] /\ frame' \in [Conns -> T]
      <4> HIDE DEF T
      <4> QED
        BY <2>1, <2>2, <3>1, <3>2
    <3> QED
      BY <3>3 DEF Carried, deliveryVars
  <2>4. CASE OpenFrame(c)
    BY <1>1, <2>4 DEF OpenFrame
  <2>5. CASE WriteFails(c) \/ NextWriterFails(c) \/ WriteClose(c) \/ PingFails(c)
    <3>1. send' = send /\ frame' = [frame EXCEPT ![c] = <<>>]
      BY <2>5 DEF WriteFails, NextWriterFails, WriteClose, PingFails, PumpReturns
    <3> QED
      BY <2>1, <3>1 DEF Carried, deliveryVars
  <2> HIDE DEF T
  <2> QED
    BY <1>3, <2>3, <2>4, <2>5
<1> QED
  BY <1>2, <1>3 DEF HubStep

\* A job of c that holds a message of S, or has not persisted its message yet.
LEMMA JobCarried ==
    ASSUME NEW S, DeliveryTypeOK, Carried(S), NEW c \in Conns, NEW j,
           j.step \in {"route", "send", "store"} => j.msg \in S,
           job' = [job EXCEPT ![c] = j]
    PROVE  \A d \in Conns : job'[d].step \in {"route", "send", "store"} => job'[d].msg \in S
  BY DEF Carried, DeliveryTypeOK

LEMMA AfterMissCarried ==
    ASSUME NEW S, NEW m \in S
    PROVE  AfterMiss(m).step \in {"route", "send", "store"} => AfterMiss(m).msg \in S
<1>1. CASE IsText(m)
  BY <1>1 DEF AfterMiss
<1>2. CASE ~IsText(m)
  BY <1>2 DEF AfterMiss, Idle
<1> QED
  BY <1>1, <1>2

\* The steps of the message handler.
LEMMA CarriedHandler ==
    ASSUME NEW S, TypeOK, DeliveryTypeOK, Carried(S), NEW c \in Conns, Handler(c),
           Persist(c) => job[c].msg \in S
    PROVE  Carried(S)'
<1> DEFINE m == job[c].msg
<1>1. job \in [Conns -> Jobs] /\ target[c] \in Conns \cup {NoConn}
  BY CallersAssumption DEF TypeOK, DeliveryTypeOK
<1>2. Idle.step \notin {"route", "send", "store"}
  BY DEF Idle
<1>3. CASE Persist(c)
  <2>1. /\ job' = [job EXCEPT ![c].step = "route"] /\ job[c].msg \in S
        /\ UNCHANGED <<offline, worker, send, frame, queued, wire>>
    BY <1>3 DEF Persist, hubVars
  <2>2. \A d \in Conns : job'[d].step \in {"route", "send", "store"} => job'[d].msg \in S
    BY <1>1, <2>1 DEF Carried
  <2> QED
    BY <2>1, <2>2 DEF Carried
<1>4. CASE Route(c)
  <2>1. /\ job[c].step = "route"
        /\ \/ job' = [job EXCEPT ![c] = AfterMiss(m)]
           \/ job' = [job EXCEPT ![c] = [step |-> "send", msg |-> m]]
        /\ UNCHANGED <<offline, worker, send, frame, queued, wire>>
    BY <1>4 DEF Route, Lookup
  <2>2. m \in S
    BY <2>1 DEF Carried
  <2>3. \A d \in Conns : job'[d].step \in {"route", "send", "store"} => job'[d].msg \in S
    <3>1. CASE job' = [job EXCEPT ![c] = AfterMiss(m)]
      BY <2>2, <3>1, AfterMissCarried, JobCarried
    <3>2. CASE job' = [job EXCEPT ![c] = [step |-> "send", msg |-> m]]
      BY <2>2, <3>2, JobCarried
    <3> QED
      BY <2>1, <3>1, <3>2
  <2> QED
    BY <2>1, <2>3 DEF Carried
<1>5. CASE Send(c)
  <2>1. /\ job[c].step = "send"
        /\ \/ job' = [job EXCEPT ![c] = AfterMiss(m)]
           \/ job' = [job EXCEPT ![c] = Idle]
        /\ UNCHANGED <<offline, worker, frame, wire>>
        /\ Offer(target[c], m) /\ RecordQueued(target[c], m) /\ target[c] # NoConn
    BY <1>5 DEF Send, Push
  <2>2. m \in S
    BY <2>1 DEF Carried
  <2>3. \A d \in Conns : job'[d].step \in {"route", "send", "store"} => job'[d].msg \in S
    <3>1. CASE job' = [job EXCEPT ![c] = AfterMiss(m)]
      BY <2>2, <3>1, AfterMissCarried, JobCarried
    <3>2. CASE job' = [job EXCEPT ![c] = Idle]
      BY <1>2, <3>2, JobCarried
    <3> QED
      BY <2>1, <3>1, <3>2
  <2>4. /\ send' \in [Conns -> Seq(S \cup {ErrorMsg})]
        /\ queued' \in [Conns -> Seq(S \cup {ErrorMsg})]
    <3>1. /\ send \in [Conns -> Seq(S \cup {ErrorMsg})]
          /\ queued \in [Conns -> Seq(S \cup {ErrorMsg})]
          /\ target[c] \in Conns /\ m \in S \cup {ErrorMsg}
      BY <1>1, <2>1, <2>2 DEF Carried
    <3> QED
      BY <2>1, <3>1, OfferCarried
  <2> QED
    BY <2>1, <2>3, <2>4 DEF Carried
<1>6. CASE Store(c)
  <2> DEFINE u == Recipient(m)
  <2>1. /\ job[c].step = "store" /\ job' = [job EXCEPT ![c] = Idle]
        /\ offline' \in {offline, [offline EXCEPT ![u] = Append(@, m)]}
        /\ UNCHANGED <<worker, send, frame, queued, wire>>
    BY <1>6 DEF Store, hubVars
  <2>2. \A d \in Conns : job'[d].step \in {"route", "send", "store"} => job'[d].msg \in S
    BY <1>2, <2>1, JobCarried
  <2>3. m \in S /\ offline \in [Users -> Seq(S)]
    BY <2>1 DEF Carried
  <2>4. \A q \in Seq(S) : Append(q, m) \in Seq(S)
    BY <2>3, AppendProperties
  <2>5. offline' \in [Users -> Seq(S)]
    BY <2>1, <2>3, <2>4
  <2> QED
    BY <2>1, <2>2, <2>5 DEF Carried
<1> QED
  BY <1>3, <1>4, <1>5, <1>6 DEF Handler

\* The steps of deliverOfflineMessages.
LEMMA CarriedWorker ==
    ASSUME NEW S, TypeOK, DeliveryTypeOK, Carried(S), NEW c \in Conns, DeliverOffline(c)
    PROVE  Carried(S)'
<1> DEFINE W == [step : {"none", "load", "loop", "done"},
                 messages : Seq(S), next : Nat \ {0}]
           w == worker[c]
<1>1. /\ worker \in [Conns -> W] /\ w \in W
      /\ offline \in [Users -> Seq(S)] /\ UserOf[c] \in Users
  BY UserOfAssumption DEF Carried
<1>2. UNCHANGED <<job, frame, wire>>
  BY DEF DeliverOffline, Load, DeliverLookup, Lookup, DeliverPush, Push, Clear, hubVars
<1>8. ASSUME NEW x \in W, worker' = [worker EXCEPT ![c] = x]
      PROVE  worker' \in [Conns -> W]
  <2> HIDE DEF W, w
  <2> QED
    BY <1>1, <1>8
<1>3. CASE Load(c)
  <2>1. PICK l \in {"loop", "done"}, q \in {w.messages, offline[UserOf[c]]} :
          worker' = [worker EXCEPT ![c] = [w EXCEPT !.step = l, !.messages = q]]
    <3>1. CASE worker' = [worker EXCEPT ![c].step = "done"]
      <4>1. [w EXCEPT !.step = "done"] = [w EXCEPT !.step = "done", !.messages = w.messages]
        BY <1>1
      <4> QED
        BY <1>1, <3>1, <4>1
    <3> QED
      BY <1>3, <3>1 DEF Load
  <2>2. [w EXCEPT !.step = l, !.messages = q] \in W
    BY <1>1
  <2>3. UNCHANGED <<send, queued, offline>>
    BY <1>3 DEF Load, hubVars
  <2>4. worker' \in [Conns -> W]
    BY <1>8, <2>1, <2>2
  <2> QED
    BY <1>1, <1>2, <2>3, <2>4 DEF Carried
<1>4. CASE Clear(c)
  <2>1. /\ worker' = [worker EXCEPT ![c] = [w EXCEPT !.step = "done"]]
        /\ offline' \in {offline, [offline EXCEPT ![UserOf[c]] = <<>>]}
        /\ UNCHANGED <<send, queued>>
    BY <1>4 DEF Clear, hubVars
  <2>2. [w EXCEPT !.step = "done"] \in W
    BY <1>1
  <2>3. offline' \in [Users -> Seq(S)]
    <3>1. <<>> \in Seq(S)
      OBVIOUS
    <3> DEFINE T == Seq(S)
               u == UserOf[c]
    <3>2. /\ offline \in [Users -> T] /\ u \in Users /\ <<>> \in T
          /\ offline' = offline \/ offline' = [offline EXCEPT ![u] = <<>>]
      BY <1>1, <2>1, <3>1
    <3>3. SUFFICES offline' \in [Users -> T]
      OBVIOUS
    <3> HIDE DEF T, u
    <3> QED
      BY <3>2
  <2>4. worker' \in [Conns -> W]
    BY <1>8, <2>1, <2>2
  <2> QED
    BY <1>1, <1>2, <2>1, <2>3, <2>4 DEF Carried
<1>5. [w EXCEPT !.next = w.next + 1] \in W
  <2>1. w.next + 1 \in Nat \ {0}
    BY <1>1
  <2> HIDE DEF w
  <2> QED
    BY <1>1, <2>1
<1>6. CASE DeliverLookup(c)
  <2>1. /\ worker' \in {worker, [worker EXCEPT ![c] = [w EXCEPT !.next = w.next + 1]]}
        /\ UNCHANGED <<send, queued, offline>>
    BY <1>6 DEF DeliverLookup, Lookup
  <2>2. worker' \in [Conns -> W]
    BY <1>1, <1>5, <1>8, <2>1
  <2> QED
    BY <1>1, <1>2, <2>1, <2>2 DEF Carried
<1>7. CASE DeliverPush(c)
  <2> DEFINE g == Worker[c]
             m == w.messages[w.next]
  <2>1. /\ w.next <= Len(w.messages) /\ target[g] # NoConn
        /\ Offer(target[g], m) /\ RecordQueued(target[g], m)
        /\ worker' = [worker EXCEPT ![c] = [w EXCEPT !.next = w.next + 1]]
        /\ offline' = offline
    BY <1>7 DEF DeliverPush, InLoop, Push
  <2>2. target[g] \in Conns
    BY <2>1, WorkerAssumption DEF TypeOK
  <2>3. m \in S
    BY <1>1, <2>1
  <2>4. /\ send' \in [Conns -> Seq(S \cup {ErrorMsg})]
        /\ queued' \in [Conns -> Seq(S \cup {ErrorMsg})]
    <3> HIDE DEF g, m
    <3> QED
      BY <2>1, <2>2, <2>3, OfferCarried DEF Carried
  <2>5. worker' \in [Conns -> W]
    BY <1>5, <1>8, <2>1
  <2> QED
    BY <1>1, <1>2, <2>1, <2>4, <2>5 DEF Carried
<1> QED
  BY <1>3, <1>4, <1>6, <1>7 DEF DeliverOffline

\* Every step but Persist keeps what is carried within S; Persist does if the
\* message it persists is in S.
LEMMA CarriedStep ==
    ASSUME NEW S, TypeOK, DeliveryTypeOK, Carried(S), [DeliveryNext]_vars,
           \A c \in Conns : Persist(c) => job[c].msg \in S
    PROVE  Carried(S)'
<1>1. CASE HubStep /\ UNCHANGED deliveryVars
  BY <1>1, CarriedHub
<1>2. ASSUME NEW c \in Conns, Serve(c) PROVE Carried(S)'
  <2>1. /\ worker' = [worker EXCEPT ![c] = [worker[c] EXCEPT !.step = "load"]]
        /\ UNCHANGED <<job, offline, send, frame, queued, wire>>
    BY <1>2 DEF Serve, ServeWS
  <2>2. [worker[c] EXCEPT !.step = "load"] \in
            [step : {"none", "load", "loop", "done"}, messages : Seq(S), next : Nat \ {0}]
    BY DEF Carried
  <2> QED
    BY <2>1, <2>2 DEF Carried
<1>3. ASSUME NEW c \in Conns, Write(c) PROVE Carried(S)'
  <2> DEFINE T == Seq(S \cup {ErrorMsg})
  <2>1. frame \in [Conns -> T] /\ wire \in [Conns -> Seq(T)] /\ <<>> \in T
    BY DEF Carried
  <2>2. /\ frame' = [frame EXCEPT ![c] = <<>>]
        /\ wire' \in {wire, [wire EXCEPT ![c] = Append(@, frame[c])]}
        /\ UNCHANGED <<job, offline, worker, send, queued>>
    BY <1>3 DEF Write, WriteFrame
  <2>3. Append(wire[c], frame[c]) \in Seq(T)
    <3> HIDE DEF T
    <3> QED
      BY <2>1, AppendProperties
  <2>4. frame' \in [Conns -> T] /\ wire' \in [Conns -> Seq(T)]
    <3> HIDE DEF T
    <3> QED
      BY <2>1, <2>2, <2>3
  <2> QED
    BY <2>2, <2>4 DEF Carried
<1>4. ASSUME NEW c \in Conns, ReceiveBad(c) PROVE Carried(S)'
  <2>1. /\ Offer(c, ErrorMsg) /\ RecordQueued(c, ErrorMsg)
        /\ UNCHANGED <<job, offline, worker, frame, wire>>
    BY <1>4 DEF ReceiveBad, SendError
  <2>2. /\ send' \in [Conns -> Seq(S \cup {ErrorMsg})]
        /\ queued' \in [Conns -> Seq(S \cup {ErrorMsg})]
    BY <2>1, OfferCarried DEF Carried
  <2> QED
    BY <2>1, <2>2 DEF Carried
<1>5. ASSUME NEW c \in Conns, NEW m \in Msgs, Receive(c, m) PROVE Carried(S)'
  <2>1. /\ job' = [job EXCEPT ![c] = [step |-> "persist", msg |-> m]]
        /\ UNCHANGED <<offline, worker, send, frame, queued, wire>>
    BY <1>5 DEF Receive, hubVars
  <2>2. \A d \in Conns : job'[d].step \in {"route", "send", "store"} => job'[d].msg \in S
    BY <2>1, JobCarried
  <2> QED
    BY <2>1, <2>2 DEF Carried
<1>6. ASSUME NEW u \in Users, Expire(u) PROVE Carried(S)'
  <2>1. /\ offline' = [offline EXCEPT ![u] = <<>>]
        /\ UNCHANGED <<job, worker, send, frame, queued, wire>>
    BY <1>6 DEF Expire, hubVars
  <2> QED
    BY <2>1 DEF Carried
<1>7. CASE UNCHANGED vars
  BY <1>7 DEF Carried, vars, hubVars, deliveryVars
<1>8. ASSUME NEW c \in Conns, Handler(c) PROVE Carried(S)'
  BY <1>8, CarriedHandler
<1>9. ASSUME NEW c \in Conns, DeliverOffline(c) PROVE Carried(S)'
  BY <1>9, CarriedWorker
<1> QED
  BY <1>1, <1>2, <1>3, <1>4, <1>5, <1>6, <1>7, <1>8, <1>9 DEF DeliveryNext

-----------------------------------------------------------------------------
(* Type correctness.                                                        *)

LEMMA DeliveryInitType == DeliveryInit => TypeInv
<1> SUFFICES ASSUME DeliveryInit PROVE TypeInv
  OBVIOUS
<1>1. TypeOK
  BY InitType DEF DeliveryInit
<1>2. received \in [Conns -> Nat] /\ \A c \in Conns : received[c] <= MaxReceived[c]
  BY BoundsAssumption DEF DeliveryInit
<1>3. \A c \in Conns : job[c].step = "send" <=> target[c] # NoConn
  BY CallersAssumption DEF DeliveryInit, Init, Idle
<1> QED
  BY <1>1, <1>2, <1>3 DEF DeliveryInit, TypeInv, DeliveryTypeOK, Jobs

\* The conjuncts of DeliveryTypeOK that Carried does not speak of.
RestTypeOK ==
    /\ job \in [Conns -> Jobs]
    /\ rows \in [Texts -> {"absent", "sent", "read"}]
    /\ received \in [Conns -> Nat]
    /\ \A c \in Conns : received[c] <= MaxReceived[c]
    /\ posted \subseteq Msgs /\ failed \subseteq Msgs
    /\ unstored \subseteq Msgs /\ stored \subseteq Msgs
    /\ \A c \in Conns : job[c].step = "send" <=> target[c] # NoConn

LEMMA RestType == TypeInv /\ [DeliveryNext]_vars => RestTypeOK'
<1> SUFFICES ASSUME TypeInv, [DeliveryNext]_vars PROVE RestTypeOK'
  OBVIOUS
<1>1. RestTypeOK /\ target \in [Callers -> Conns \cup {NoConn}] /\ Conns \subseteq Callers
  BY CallersAssumption DEF TypeInv, TypeOK, DeliveryTypeOK, RestTypeOK
<1>2. ASSUME NEW m \in Msgs
      PROVE  /\ Idle \in Jobs /\ AfterMiss(m) \in Jobs
             /\ Idle.step # "send" /\ AfterMiss(m).step # "send"
             /\ \A s \in {"persist", "route", "send", "store"} :
                  [step |-> s, msg |-> m] \in Jobs
  BY DEF Jobs, AfterMiss, Idle
\* A step of the connection c alone, which keeps its job and its target together.
<1>3. ASSUME NEW c \in Conns, NEW j \in Jobs, NEW t \in Conns \cup {NoConn},
             job' = [job EXCEPT ![c] = j], target' = [target EXCEPT ![c] = t],
             j.step = "send" <=> t # NoConn
      PROVE  /\ job' \in [Conns -> Jobs]
             /\ \A d \in Conns : job'[d].step = "send" <=> target'[d] # NoConn
  BY <1>1, <1>3 DEF RestTypeOK
<1>4. ASSUME NEW c \in Conns, NEW j \in Jobs,
             job' = [job EXCEPT ![c] = j], target' = target,
             job[c].step # "send", j.step # "send"
      PROVE  /\ job' \in [Conns -> Jobs]
             /\ \A d \in Conns : job'[d].step = "send" <=> target'[d] # NoConn
  BY <1>1, <1>4 DEF RestTypeOK
<1>5. ASSUME NEW c \in Conns, received[c] < MaxReceived[c],
             received' = [received EXCEPT ![c] = @ + 1]
      PROVE  /\ received' \in [Conns -> Nat]
             /\ \A d \in Conns : received'[d] <= MaxReceived[d]
  <2>1. MaxReceived \in [Conns -> Nat]
    BY BoundsAssumption
  <2>2. /\ received \in [Conns -> Nat]
        /\ \A d \in Conns : received[d] <= MaxReceived[d]
    BY <1>1 DEF RestTypeOK
  <2>3. received'[c] = received[c] + 1 /\ \A d \in Conns \ {c} : received'[d] = received[d]
    BY <1>5, <2>2
  <2> QED
    BY <1>5, <2>1, <2>2, <2>3
<1>6. ASSUME UNCHANGED <<target, job, rows, received, posted, failed, unstored, stored>>
      PROVE  RestTypeOK'
  BY <1>1, <1>6 DEF RestTypeOK
<1>7. CASE HubStep /\ UNCHANGED deliveryVars
  <2>1. target' = target
    BY <1>7 DEF HubStep, RunRegister, RunUnregister, LeaveLoop, ReadError, Unregister,
                CloseConn, TakeMessage, OpenFrame, DrainOne, WriteFails,
                NextWriterFails, WriteClose, PingFails, PeerGone
  <2> QED
    BY <1>6, <1>7, <2>1 DEF deliveryVars
<1>8. ASSUME NEW c \in Conns, Serve(c) \/ Write(c) \/ Load(c) \/ Clear(c) PROVE RestTypeOK'
  BY <1>6, <1>8 DEF Serve, ServeWS, Write, WriteFrame, Load, Clear, hubVars
<1>9. ASSUME NEW u \in Users, Expire(u) PROVE RestTypeOK'
  BY <1>6, <1>9 DEF Expire, hubVars
<1>10. ASSUME NEW c \in Conns, ReceiveBad(c) PROVE RestTypeOK'
  <2>1. /\ UNCHANGED <<target, job, rows, posted, failed, unstored, stored>>
        /\ received[c] < MaxReceived[c] /\ received' = [received EXCEPT ![c] = @ + 1]
    BY <1>10 DEF ReceiveBad, SendError
  <2> QED
    BY <1>1, <1>5, <2>1 DEF RestTypeOK
<1>11. ASSUME NEW c \in Conns, NEW m \in Msgs, Receive(c, m) PROVE RestTypeOK'
  <2>1. /\ job[c] = Idle /\ job' = [job EXCEPT ![c] = [step |-> "persist", msg |-> m]]
        /\ received[c] < MaxReceived[c] /\ received' = [received EXCEPT ![c] = @ + 1]
        /\ posted' = posted \cup {m}
        /\ UNCHANGED <<target, rows, failed, unstored, stored>>
    BY <1>11 DEF Receive, hubVars
  <2>2. /\ job' \in [Conns -> Jobs]
        /\ \A d \in Conns : job'[d].step = "send" <=> target'[d] # NoConn
    BY <1>2, <1>4, <2>1
  <2> QED
    BY <1>1, <1>5, <2>1, <2>2 DEF RestTypeOK
<1>12. ASSUME NEW c \in Conns, Persist(c) PROVE RestTypeOK'
  <2> DEFINE m == job[c].msg
             j == [step |-> "route", msg |-> m]
  <2>1. job[c].step = "persist" /\ m \in Msgs /\ m[2] \in Texts
    BY <1>12, JobMsg, RecipientType DEF Persist, Idle, TypeInv
  <2>2. j \in Jobs /\ j.step # "send"
    BY <1>2, <2>1
  <2>3. job' = [job EXCEPT ![c] = j]
    <3>1. job[c] \in [step : {"persist", "route", "send", "store"}, msg : Msgs]
      BY <1>1, <2>1 DEF RestTypeOK, Jobs, Idle
    <3>2. [job[c] EXCEPT !.step = "route"] = j
      BY <3>1
    <3>3. job' = [job EXCEPT ![c] = [job[c] EXCEPT !.step = "route"]]
      BY <1>12 DEF Persist
    <3> QED
      BY <3>2, <3>3
  <2>4. /\ job' \in [Conns -> Jobs]
        /\ \A d \in Conns : job'[d].step = "send" <=> target'[d] # NoConn
    BY <1>4, <1>12, <2>1, <2>2, <2>3 DEF Persist, hubVars
  <2>5. rows' \in {rows, Persisted(m)} /\ failed' \in {failed, failed \cup {m}}
        /\ UNCHANGED <<received, posted, unstored, stored>>
    BY <1>12 DEF Persist
  <2>6. Persisted(m) \in [Texts -> {"absent", "sent", "read"}]
    BY <1>1, <2>1 DEF RestTypeOK, Persisted, Insert, SetRead
  <2> HIDE DEF m, j
  <2> QED
    BY <1>1, <2>1, <2>4, <2>5, <2>6 DEF RestTypeOK
<1>13. ASSUME NEW c \in Conns, Route(c) PROVE RestTypeOK'
  <2> DEFINE m == job[c].msg
             t == clients[Recipient(m)]
  <2>1. m \in Msgs /\ Recipient(m) \in Users
    BY <1>13, JobMsg, RecipientType DEF Route, Idle, TypeInv
  <2>2. t \in Conns \cup {NoConn} /\ target' = [target EXCEPT ![c] = t]
    BY <1>13, <2>1 DEF TypeInv, TypeOK, Route, Lookup
  <2>3. /\ job' \in [Conns -> Jobs]
        /\ \A d \in Conns : job'[d].step = "send" <=> target'[d] # NoConn
    <3>1. CASE t = NoConn
      <4>1. job' = [job EXCEPT ![c] = AfterMiss(m)]
        BY <1>13, <3>1 DEF Route
      <4> QED
        BY <1>2, <1>3, <2>1, <2>2, <3>1, <4>1
    <3>2. CASE t # NoConn
      <4> DEFINE j == [step |-> "send", msg |-> m]
      <4>1. job' = [job EXCEPT ![c] = j] /\ j \in Jobs /\ j.step = "send"
        BY <1>2, <1>13, <2>1, <3>2 DEF Route
      <4> QED
        BY <1>3, <2>2, <3>2, <4>1
    <3> QED
      BY <3>1, <3>2
  <2>4. UNCHANGED <<rows, received, posted, failed, unstored, stored>>
    BY <1>13 DEF Route
  <2> QED
    BY <1>1, <2>3, <2>4 DEF RestTypeOK
<1>14. ASSUME NEW c \in Conns, Send(c) PROVE RestTypeOK'
  <2> DEFINE m == job[c].msg
  <2>1. m \in Msgs
    BY <1>14, JobMsg DEF Send, Idle, TypeInv
  <2>2. /\ target' = [target EXCEPT ![c] = NoConn]
        /\ job' = [job EXCEPT ![c] = Idle] \/ job' = [job EXCEPT ![c] = AfterMiss(m)]
        /\ UNCHANGED <<rows, received, posted, failed, unstored, stored>>
    BY <1>14 DEF Send, Push
  <2>3. /\ job' \in [Conns -> Jobs]
        /\ \A d \in Conns : job'[d].step = "send" <=> target'[d] # NoConn
    BY <1>2, <1>3, <2>1, <2>2
  <2> QED
    BY <1>1, <2>2, <2>3 DEF RestTypeOK
<1>15. ASSUME NEW c \in Conns, Store(c) PROVE RestTypeOK'
  <2> DEFINE m == job[c].msg
  <2>1. m \in Msgs
    BY <1>15, JobMsg DEF Store, Idle, TypeInv
  <2>2. /\ job[c].step = "store" /\ job' = [job EXCEPT ![c] = Idle]
        /\ unstored' \in {unstored, unstored \cup {m}} /\ stored' \in {stored, stored \cup {m}}
        /\ UNCHANGED <<target, rows, received, posted, failed>>
    BY <1>15 DEF Store, hubVars
  <2>3. /\ job' \in [Conns -> Jobs]
        /\ \A d \in Conns : job'[d].step = "send" <=> target'[d] # NoConn
    BY <1>2, <1>4, <2>1, <2>2
  <2> QED
    BY <1>1, <2>1, <2>2, <2>3 DEF RestTypeOK
\* Worker[c] is not a connection, so its target is not that of a handler.
<1>16. ASSUME NEW c \in Conns, DeliverLookup(c) \/ DeliverPush(c) PROVE RestTypeOK'
  <2>1. Worker[c] \notin Conns
    BY WorkerAssumption
  <2>2. \A d \in Conns : target'[d] = target[d]
    BY <1>1, <1>16, <2>1 DEF DeliverLookup, DeliverPush, Lookup, Push
  <2>3. UNCHANGED <<job, rows, received, posted, failed, unstored, stored>>
    BY <1>16 DEF DeliverLookup, DeliverPush
  <2> QED
    BY <1>1, <2>2, <2>3 DEF RestTypeOK
<1>17. CASE UNCHANGED vars
  BY <1>6, <1>17 DEF vars, hubVars, deliveryVars
<1> QED
  BY <1>7, <1>8, <1>9, <1>10, <1>11, <1>12, <1>13, <1>14, <1>15, <1>16, <1>17
     DEF DeliveryNext, Handler, DeliverOffline

LEMMA StepTypeInv == TypeInv /\ [DeliveryNext]_vars => TypeInv'
<1> SUFFICES ASSUME TypeInv, [DeliveryNext]_vars PROVE TypeInv'
  OBVIOUS
<1>1. TypeOK'
  BY HubStepOf, StepType DEF TypeInv
<1>2. Carried(Msgs)
  <2>1. \A c \in Conns : job[c].step \in {"route", "send", "store"} => job[c].msg \in Msgs
    BY JobMsg DEF TypeInv, Idle
  <2> QED
    BY <2>1 DEF TypeInv, TypeOK, DeliveryTypeOK, Carried
<1>3. \A c \in Conns : Persist(c) => job[c].msg \in Msgs
  BY JobMsg DEF TypeInv, Persist, Idle
<1>4. Carried(Msgs)'
  BY <1>2, <1>3, CarriedStep DEF TypeInv
<1>5. RestTypeOK'
  BY RestType
<1>6. Carried(Msgs)' /\ RestTypeOK' => DeliveryTypeOK'
  BY DEF Carried, RestTypeOK, DeliveryTypeOK
<1> QED
  BY <1>1, <1>4, <1>5, <1>6 DEF TypeInv

LEMMA TypeInvHolds == DeliverySpec => []TypeInv
  BY DeliveryInitType, StepTypeInv, PTL DEF DeliverySpec

\* The state of the message handler, of deliverOfflineMessages and of the two
\* stores is always well typed; a handler holds a client exactly while it is
\* between the lookup and the channel send of SendToUser.
THEOREM DeliveryTypeCorrect == DeliverySpec => []DeliveryTypeOK
<1>1. TypeInv => DeliveryTypeOK
  BY DEF TypeInv
<1> QED
  BY <1>1, TypeInvHolds, PTL

\* The server with its handlers is an implementation of the hub: the handlers
\* and deliverOfflineMessages use it only through its operations.
THEOREM DeliveryRefinesHub == DeliverySpec => Spec
<1>1. DeliveryInit => Init
  BY DEF DeliveryInit
<1>2. TypeInv /\ [DeliveryNext]_vars => [Next]_hubVars
  BY HubStepOf DEF TypeInv
<1> QED
  BY <1>1, <1>2, TypeInvHolds, PTL DEF DeliverySpec, Spec

\* So no connection is lost or in two places while messages are handled.
THEOREM DeliveryAccounted == DeliverySpec => []Accounted
  BY DeliveryRefinesHub, AccountedHolds, PTL

-----------------------------------------------------------------------------
(* PersistedFirst.                                                          *)

\* The messages whose row justifies that they travel.
Backed ==
    {m \in Msgs : \/ Excused(m[2])
                  \/ IF IsText(m) THEN rows[m[2]] # "absent" ELSE rows[m[2]] = "read"}

\* A receipt about to be persisted answers a text that has travelled.
ReceiptBacked ==
    \A c \in Conns :
        job[c].step = "persist" /\ ~IsText(job[c].msg)
            => <<"text", job[c].msg[2]>> \in Backed

BackedInv == TypeInv /\ Carried(Backed) /\ ReceiptBacked

LEMMA BackedInit == DeliveryInit => BackedInv
<1> SUFFICES ASSUME DeliveryInit PROVE BackedInv
  OBVIOUS
<1>1. TypeInv
  BY DeliveryInitType
<1>2. \A c \in Conns : job[c].step = "idle"
  BY DEF DeliveryInit, Idle
<1>3. Carried(Backed)
  BY <1>2 DEF DeliveryInit, Init, Carried
<1>4. ReceiptBacked
  BY <1>2 DEF ReceiptBacked
<1> QED
  BY <1>1, <1>3, <1>4 DEF BackedInv

\* A row is never deleted and never unread, and a failure is never forgotten.
LEMMA RowsGrow ==
    ASSUME TypeInv, [DeliveryNext]_vars
    PROVE  /\ \A t \in Texts : /\ rows[t] # "absent" => rows'[t] # "absent"
                               /\ rows[t] = "read" => rows'[t] = "read"
           /\ failed \subseteq failed'
<1>1. rows \in [Texts -> {"absent", "sent", "read"}]
  BY DEF TypeInv, DeliveryTypeOK
<1>2. CASE UNCHANGED <<rows, failed>>
  BY <1>2
<1>3. ASSUME NEW c \in Conns, Persist(c)
      PROVE  /\ \A t \in Texts : /\ rows[t] # "absent" => rows'[t] # "absent"
                                 /\ rows[t] = "read" => rows'[t] = "read"
             /\ failed \subseteq failed'
  <2>1. job[c].msg[2] \in Texts
    BY <1>3, JobMsg, RecipientType DEF Persist, Idle, TypeInv
  <2>2. /\ rows' = rows \/ rows' = Persisted(job[c].msg)
        /\ failed \subseteq failed'
    BY <1>3 DEF Persist
  <2> QED
    BY <1>1, <2>1, <2>2 DEF Persisted, Insert, SetRead
<1>4. ASSUME NEW c \in Conns, Store(c) PROVE rows' = rows /\ failed \subseteq failed'
  BY <1>4 DEF Store
<1>5. ASSUME NEW c \in Conns, Route(c) \/ Send(c) \/ DeliverOffline(c)
      PROVE  UNCHANGED <<rows, failed>>
  BY <1>5 DEF Route, Send, DeliverOffline, Load, DeliverLookup, DeliverPush, Clear
<1>6. ASSUME NEW c \in Conns, Serve(c) \/ Write(c) \/ ReceiveBad(c)
      PROVE  UNCHANGED <<rows, failed>>
  BY <1>6 DEF Serve, Write, ReceiveBad
<1>7. CASE \/ HubStep /\ UNCHANGED deliveryVars
           \/ \E c \in Conns, m \in Msgs : Receive(c, m)
           \/ \E u \in Users : Expire(u)
           \/ UNCHANGED vars
  BY <1>2, <1>7 DEF Receive, Expire, vars, deliveryVars
<1> QED
  BY <1>2, <1>3, <1>4, <1>5, <1>6, <1>7 DEF DeliveryNext, Handler

LEMMA BackedGrows ==
    ASSUME TypeInv, [DeliveryNext]_vars
    PROVE  Backed \subseteq Backed'
<1>1. \A m \in Msgs : m[2] \in Texts
  BY RecipientType
<1> QED
  BY <1>1, RowsGrow DEF Backed, Excused, IsText

\* Once its call to the store has returned, a message is backed.
LEMMA PersistBacks ==
    ASSUME BackedInv, NEW c \in Conns, Persist(c), NEW m, m = job[c].msg
    PROVE  m \in Backed'
<1> DEFINE t == m[2]
<1>1. /\ job[c].step = "persist" /\ m \in Msgs /\ t \in Texts
      /\ m[1] \in {"text", "receipt"} /\ m = <<m[1], t>>
  BY JobMsg, RecipientType, TextsAssumption DEF Persist, Idle, BackedInv, TypeInv
<1>2. rows \in [Texts -> {"absent", "sent", "read"}]
  BY DEF BackedInv, TypeInv, DeliveryTypeOK
<1>3. CASE failed' = failed \cup {m}
  <2>1. m \in failed'
    BY <1>3
  <2> QED
    BY <1>1, <2>1 DEF Backed, Excused
<1>4. CASE rows' = Persisted(m) /\ failed' = failed
  <2>1. CASE IsText(m)
    <3>1. rows'[t] # "absent"
      BY <1>1, <1>2, <1>4, <2>1 DEF Persisted, Insert
    <3> QED
      BY <1>1, <2>1, <3>1 DEF Backed, IsText
  <2>2. CASE ~IsText(m)
    <3>1. <<"text", t>> \in Backed
      BY <1>1, <2>2 DEF BackedInv, ReceiptBacked
    <3>2. CASE Excused(t)
      <4>1. Excused(t)'
        BY <1>4, <3>2, <1>1 DEF Excused
      <4> QED
        BY <1>1, <4>1 DEF Backed, Excused
    <3>3. CASE rows[t] # "absent"
      <4>1. rows'[t] = "read"
        BY <1>1, <1>2, <1>4, <2>2, <3>3 DEF Persisted, SetRead
      <4> QED
        BY <1>1, <2>2, <4>1 DEF Backed, IsText
    <3> QED
      BY <3>1, <3>2, <3>3 DEF Backed, IsText
  <2> QED
    BY <2>1, <2>2
<1> QED
  BY <1>3, <1>4 DEF Persist

\* What a user has been shown is backed.
LEMMA ShownBacked ==
    ASSUME BackedInv, NEW u, NEW m \in Shown(u)
    PROVE  m \in Backed
<1>1. PICK c \in Conns : \E i \in 1 .. Len(wire[c]) : Contains(wire[c][i], m)
  BY DEF Shown, OnWire
<1>2. PICK i \in 1 .. Len(wire[c]) : Contains(wire[c][i], m)
  BY <1>1
<1>3. wire[c] \in Seq(Seq(Backed \cup {ErrorMsg})) /\ m \in Msgs
  BY DEF BackedInv, Carried, Shown
<1>4. wire[c][i] \in Seq(Backed \cup {ErrorMsg})
  BY <1>3
<1>5. m \in Backed \cup {ErrorMsg}
  BY <1>4, <1>2 DEF Contains
<1> QED
  BY <1>3, <1>5, TextsAssumption

LEMMA ReceiptBackedStep ==
    ASSUME BackedInv, [DeliveryNext]_vars
    PROVE  ReceiptBacked'
<1> DEFINE Safe(j) == j.step = "persist" /\ ~IsText(j.msg) => <<"text", j.msg[2]>> \in Backed
<1>1. /\ Backed \subseteq Backed' /\ job \in [Conns -> Jobs]
      /\ \A c \in Conns : Safe(job[c])
  BY BackedGrows DEF BackedInv, TypeInv, DeliveryTypeOK, ReceiptBacked
<1>2. ASSUME \A c \in Conns : Safe(job'[c]) PROVE ReceiptBacked'
  BY <1>1, <1>2 DEF ReceiptBacked
<1>3. ASSUME NEW c \in Conns, NEW m \in Msgs, Receive(c, m) PROVE \A d \in Conns : Safe(job'[d])
  <2>1. /\ job' = [job EXCEPT ![c] = [step |-> "persist", msg |-> m]]
        /\ ~IsText(m) => <<"text", m[2]>> \in Shown(UserOf[c])
    BY <1>3 DEF Receive
  <2>2. Safe([step |-> "persist", msg |-> m])
    BY <2>1, ShownBacked
  <2> QED
    BY <1>1, <2>1, <2>2
\* Every other step of a handler leaves a job that is not at "persist".
<1>4. ASSUME NEW c \in Conns, NEW j, job' = [job EXCEPT ![c] = j], j.step # "persist"
      PROVE  \A d \in Conns : Safe(job'[d])
  BY <1>1, <1>4
<1>5. ASSUME NEW c \in Conns, Handler(c) PROVE \A d \in Conns : Safe(job'[d])
  <2>1. Idle.step # "persist" /\ \A m : AfterMiss(m).step # "persist"
    BY DEF Idle, AfterMiss
  <2>2. CASE Persist(c)
    <3>1. [job[c] EXCEPT !.step = "route"].step # "persist"
      <4>1. job[c] \in [step : {"persist", "route", "send", "store"}, msg : Msgs]
        BY <1>1, <2>2 DEF Persist, Jobs, Idle
      <4> QED
        BY <4>1
    <3>2. job' = [job EXCEPT ![c] = [job[c] EXCEPT !.step = "route"]]
      BY <2>2 DEF Persist
    <3> HIDE DEF Safe
    <3> QED
      BY <1>4, <3>1, <3>2
  <2>3. CASE Route(c)
    <3>1. \/ job' = [job EXCEPT ![c] = AfterMiss(job[c].msg)]
          \/ job' = [job EXCEPT ![c] = [step |-> "send", msg |-> job[c].msg]]
      BY <2>3 DEF Route
    <3> HIDE DEF Safe
    <3> QED
      BY <1>4, <2>1, <3>1
  <2>4. CASE Send(c)
    <3>1. \/ job' = [job EXCEPT ![c] = AfterMiss(job[c].msg)]
          \/ job' = [job EXCEPT ![c] = Idle]
      BY <2>4 DEF Send
    <3> HIDE DEF Safe
    <3> QED
      BY <1>4, <2>1, <3>1
  <2>5. CASE Store(c)
    <3>1. job' = [job EXCEPT ![c] = Idle]
      BY <2>5 DEF Store
    <3> HIDE DEF Safe
    <3> QED
      BY <1>4, <2>1, <3>1
  <2> HIDE DEF Safe
  <2> QED
    BY <1>5, <2>2, <2>3, <2>4, <2>5 DEF Handler
<1>6. ASSUME job' = job PROVE \A d \in Conns : Safe(job'[d])
  BY <1>1, <1>6
<1>7. CASE \/ HubStep /\ UNCHANGED deliveryVars
           \/ \E c \in Conns : \/ Serve(c) \/ Write(c) \/ ReceiveBad(c)
                               \/ DeliverOffline(c)
           \/ \E u \in Users : Expire(u)
           \/ UNCHANGED vars
  <2>1. job' = job
    BY <1>7 DEF deliveryVars, vars, Serve, Write, ReceiveBad, DeliverOffline, Load,
                DeliverLookup, DeliverPush, Clear, Expire
  <2> HIDE DEF Safe
  <2> QED
    BY <1>2, <1>6, <2>1
<1> HIDE DEF Safe
<1> QED
  BY <1>2, <1>3, <1>5, <1>6, <1>7 DEF DeliveryNext

LEMMA BackedStep == BackedInv /\ [DeliveryNext]_vars => BackedInv'
<1> SUFFICES ASSUME BackedInv, [DeliveryNext]_vars PROVE BackedInv'
  OBVIOUS
<1>1. TypeInv'
  BY StepTypeInv DEF BackedInv
<1>2. PICK T : T = Backed'
  OBVIOUS
<1>3. Carried(T)
  BY <1>2, BackedGrows, CarriedMono DEF BackedInv
<1>4. \A c \in Conns : Persist(c) => job[c].msg \in T
  BY <1>2, PersistBacks
<1>5. Carried(T)'
  BY <1>3, <1>4, CarriedStep DEF BackedInv, TypeInv
<1>6. Carried(Backed)'
  BY <1>2, <1>5 DEF Carried
<1> QED
  BY <1>1, <1>6, ReceiptBackedStep DEF BackedInv

\* Whatever store calls fail and however handlers, pumps and reconnections are
\* interleaved, nothing is sent or stored before it is persisted, unless the
\* call that should have persisted it failed.
THEOREM PersistedFirstHolds == DeliverySpec => []PersistedFirst
<1>1. BackedInv => PersistedFirst
  <2> SUFFICES ASSUME BackedInv, NEW t \in Texts, ~Excused(t)
               PROVE  /\ \A c \in Conns :
                           /\ Contains(queued[c], <<"text", t>>) => rows[t] # "absent"
                           /\ Contains(queued[c], <<"receipt", t>>) => rows[t] = "read"
                      /\ \A u \in Users :
                           Contains(offline[u], <<"text", t>>) => rows[t] # "absent"
    BY DEF PersistedFirst
  <2>1. \A s \in {"text", "receipt"} : <<s, t>> \in Msgs /\ <<s, t>> # ErrorMsg
    BY TextsAssumption
  <2>2. \A c \in Conns : \A m : Contains(queued[c], m) => m \in Backed \cup {ErrorMsg}
    BY DEF BackedInv, Carried, Contains
  <2>3. \A u \in Users : \A m : Contains(offline[u], m) => m \in Backed
    BY DEF BackedInv, Carried, Contains
  <2>4. /\ <<"text", t>> \in Backed => rows[t] # "absent"
        /\ <<"receipt", t>> \in Backed => rows[t] = "read"
    BY DEF Backed, IsText
  <2> QED
    BY <2>1, <2>2, <2>3, <2>4
<1> QED
  BY <1>1, BackedInit, BackedStep, PTL DEF DeliverySpec

\* A message that was read is never unread again, however late a repeated text
\* is saved.
THEOREM ReadStaysHolds == DeliverySpec => ReadStays
<1>1. TypeInv /\ [DeliveryNext]_vars
        => [\A t \in Texts : rows[t] = "read" => rows'[t] = "read"]_vars
  BY RowsGrow
<1> QED
  BY <1>1, TypeInvHolds, PTL DEF DeliverySpec, ReadStays

-----------------------------------------------------------------------------
(* What handlers do with a text.                                            *)

\* Every text a handler was given is in its hands, accepted by a connection of its
\* addressee, or stored, or the call to store it failed.
HandledSomewhere ==
    \A m \in posted :
        IsText(m) =>
            \/ m \in unstored \cup stored
            \/ \E c \in Conns : job[c] # Idle /\ job[c].msg = m
            \/ \E c \in Conns : UserOf[c] = Recipient(m) /\ Contains(queued[c], m)

\* Between the two halves of SendToUser a handler holds a connection of the
\* recipient.
Aimed ==
    \A c \in Conns :
        job[c].step = "send" => target[c] \in Conns /\ UserOf[target[c]] = Recipient(job[c].msg)

\* What the channels have accepted only grows.
QueuedGrows == \A c \in Conns, m \in Msgs : Contains(queued[c], m) => Contains(queued'[c], m)

LEMMA RecordGrows ==
    ASSUME TypeInv, NEW d \in Conns, NEW m \in Msgs \cup {ErrorMsg}, RecordQueued(d, m)
    PROVE  QueuedGrows /\ (Accepts(d) => Contains(queued'[d], m))
<1> DEFINE M == Msgs \cup {ErrorMsg}
<1>1. queued \in [Conns -> Seq(M)] /\ queued[d] \in Seq(M)
  BY DEF TypeInv, DeliveryTypeOK
<1>2. CASE queued' = queued /\ ~Accepts(d)
  BY <1>2 DEF QueuedGrows
<1>3. CASE queued' = [queued EXCEPT ![d] = Append(queued[d], m)]
  <2>1. /\ Len(Append(queued[d], m)) = Len(queued[d]) + 1
        /\ \A i \in 1 .. Len(queued[d]) : Append(queued[d], m)[i] = queued[d][i]
        /\ Append(queued[d], m)[Len(queued[d]) + 1] = m
    BY <1>1
  <2>2. Len(queued[d]) \in Nat
    BY <1>1
  <2>3. \A c \in Conns : queued'[c] = IF c = d THEN Append(queued[d], m) ELSE queued[c]
    BY <1>1, <1>3
  <2>4. PICK n \in Nat : n = Len(queued[d]) /\ Len(queued'[d]) = n + 1
    BY <2>1, <2>2, <2>3
  <2>5. 1 .. n \subseteq 1 .. (n + 1) /\ n + 1 \in 1 .. (n + 1)
    BY <2>4
  <2>6. \A c \in Conns, x \in Msgs : Contains(queued[c], x) => Contains(queued'[c], x)
    <3> SUFFICES ASSUME NEW x \in Msgs, Contains(queued[d], x) PROVE Contains(queued'[d], x)
      BY <2>3
    <3>1. PICK i \in 1 .. Len(queued[d]) : queued[d][i] = x
      BY DEF Contains
    <3>2. i \in 1 .. Len(queued'[d]) /\ queued'[d][i] = x
      BY <2>1, <2>3, <2>4, <2>5, <3>1
    <3> QED
      BY <3>2 DEF Contains
  <2>7. Contains(queued'[d], m)
    <3>1. Len(queued[d]) + 1 \in 1 .. Len(queued'[d])
      BY <2>4, <2>5
    <3> QED
      BY <2>1, <2>3, <3>1 DEF Contains
  <2> QED
    BY <2>6, <2>7 DEF QueuedGrows
<1> QED
  BY <1>2, <1>3 DEF RecordQueued

\* A step that leaves the handlers alone.
LEMMA HandledElsewhere ==
    ASSUME Aimed, HandledSomewhere, posted \subseteq Msgs, QueuedGrows,
           UNCHANGED <<job, posted, unstored, stored>>,
           \A c \in Conns : target'[c] = target[c]
    PROVE  Aimed' /\ HandledSomewhere'
<1>1. Aimed'
  BY DEF Aimed
<1>2. HandledSomewhere'
  BY DEF HandledSomewhere, QueuedGrows
<1> QED
  BY <1>1, <1>2

\* A step of the handler of c that replaces its job by j.
LEMMA HandledJob ==
    ASSUME TypeInv, Aimed, HandledSomewhere, QueuedGrows, NEW c \in Conns, NEW j,
           job' = [job EXCEPT ![c] = j],
           \A d \in Conns \ {c} : target'[d] = target[d],
           posted' = posted, unstored \subseteq unstored', stored \subseteq stored',
           j.step = "send" => target'[c] \in Conns /\ UserOf[target'[c]] = Recipient(j.msg),
           job[c] # Idle /\ IsText(job[c].msg) =>
               \/ job[c].msg \in unstored' \cup stored'
               \/ j # Idle /\ j.msg = job[c].msg
               \/ \E d \in Conns : UserOf[d] = Recipient(job[c].msg)
                                   /\ Contains(queued'[d], job[c].msg)
    PROVE  Aimed' /\ HandledSomewhere'
<1>1. /\ posted \subseteq Msgs
      /\ \A d \in Conns : job'[d] = IF d = c THEN j ELSE job[d]
  BY DEF TypeInv, DeliveryTypeOK
<1>2. Aimed'
  BY <1>1 DEF Aimed
<1>3. HandledSomewhere'
  <2> SUFFICES ASSUME NEW m \in posted, IsText(m)
               PROVE  \/ m \in unstored' \cup stored'
                      \/ \E d \in Conns : job'[d] # Idle /\ job'[d].msg = m
                      \/ \E d \in Conns : UserOf[d] = Recipient(m) /\ Contains(queued'[d], m)
    BY DEF HandledSomewhere
  <2>1. CASE m \in unstored \cup stored
    BY <2>1
  <2>2. ASSUME NEW d \in Conns, job[d] # Idle, job[d].msg = m, d # c
        PROVE  job'[d] # Idle /\ job'[d].msg = m
    BY <1>1, <2>2
  <2>3. CASE job[c] # Idle /\ job[c].msg = m
    BY <1>1, <2>3
  <2>4. ASSUME NEW d \in Conns, UserOf[d] = Recipient(m), Contains(queued[d], m)
        PROVE  Contains(queued'[d], m)
    BY <1>1, <2>4 DEF QueuedGrows
  <2> QED
    BY <2>1, <2>2, <2>3, <2>4 DEF HandledSomewhere
<1> QED
  BY <1>2, <1>3

LEMMA HandledStep ==
    ASSUME TypeInv, Accounted, Aimed, HandledSomewhere, [DeliveryNext]_vars
    PROVE  Aimed' /\ HandledSomewhere'
<1>1. /\ target \in [Callers -> Conns \cup {NoConn}] /\ Conns \subseteq Callers
      /\ posted \subseteq Msgs /\ NoConn \notin Conns
      /\ job \in [Conns -> Jobs]
  BY CallersAssumption, NoConnAssumption DEF TypeInv, TypeOK, DeliveryTypeOK
<1>2. queued' = queued => QueuedGrows
  BY DEF QueuedGrows
<1>3. CASE HubStep /\ UNCHANGED deliveryVars
  <2>1. target' = target
    BY <1>3 DEF HubStep, RunRegister, RunUnregister, LeaveLoop, ReadError, Unregister,
                CloseConn, TakeMessage, OpenFrame, NextWriterFails, DrainOne, WriteFails,
                WriteClose, PingFails, PeerGone
  <2> QED
    BY <1>1, <1>2, <1>3, <2>1, HandledElsewhere DEF deliveryVars
<1>4. ASSUME NEW c \in Conns, Serve(c) \/ Write(c) PROVE Aimed' /\ HandledSomewhere'
  <2>1. UNCHANGED <<target, job, posted, unstored, stored, queued>>
    BY <1>4 DEF Serve, ServeWS, Write, WriteFrame
  <2> QED
    BY <1>1, <1>2, <2>1, HandledElsewhere
<1>5. ASSUME NEW c \in Conns, ReceiveBad(c) PROVE Aimed' /\ HandledSomewhere'
  <2>1. UNCHANGED <<target, job, posted, unstored, stored>> /\ RecordQueued(c, ErrorMsg)
    BY <1>5 DEF ReceiveBad, SendError
  <2> QED
    BY <1>1, <2>1, RecordGrows, HandledElsewhere
<1>6. ASSUME NEW c \in Conns, NEW m \in Msgs, Receive(c, m)
      PROVE  Aimed' /\ HandledSomewhere'
  <2>1. /\ job[c] = Idle /\ job' = [job EXCEPT ![c] = [step |-> "persist", msg |-> m]]
        /\ posted' = posted \cup {m}
        /\ UNCHANGED <<target, unstored, stored, queued>>
    BY <1>6 DEF Receive, hubVars
  <2>2. \A d \in Conns : job'[d] = IF d = c THEN [step |-> "persist", msg |-> m] ELSE job[d]
    BY <1>1, <2>1
  <2>3. [step |-> "persist", msg |-> m].step # Idle.step
    BY DEF Idle
  <2>4. Aimed'
    BY <2>1, <2>2 DEF Aimed
  <2>5. job'[c] # Idle /\ job'[c].msg = m
    BY <2>2, <2>3
  <2>6. HandledSomewhere'
    <3> SUFFICES ASSUME NEW x \in posted, IsText(x)
                 PROVE  \/ x \in unstored \cup stored
                        \/ \E d \in Conns : job'[d] # Idle /\ job'[d].msg = x
                        \/ \E d \in Conns : UserOf[d] = Recipient(x) /\ Contains(queued[d], x)
      BY <2>1, <2>5 DEF HandledSomewhere
    <3>1. \A d \in Conns : job[d] # Idle => job'[d] = job[d]
      BY <2>1, <2>2
    <3> QED
      BY <3>1 DEF HandledSomewhere
  <2> QED
    BY <2>4, <2>6
<1>7. ASSUME NEW c \in Conns, Handler(c) PROVE Aimed' /\ HandledSomewhere'
  <2> DEFINE m == job[c].msg
  <2>1. job[c] # Idle /\ m \in Msgs /\ Recipient(m) \in Users
    BY <1>7, JobMsg, RecipientType DEF TypeInv, Handler, Persist, Route, Send, Store, Idle
  <2>2. job[c] \in [step : {"persist", "route", "send", "store"}, msg : Msgs]
    BY <1>1, <2>1 DEF Jobs
  <2>3. AfterMiss(m).step # "send" /\ (IsText(m) => AfterMiss(m) # Idle /\ AfterMiss(m).msg = m)
    BY DEF AfterMiss, Idle
  <2>4. [step |-> "send", msg |-> m] # Idle
    <3>1. [step |-> "send", msg |-> m].step # Idle.step
      BY DEF Idle
    <3> QED
      BY <3>1
  <2>5. Idle.step # "send"
    BY DEF Idle
  <2>6. CASE Persist(c)
    <3> DEFINE j == [job[c] EXCEPT !.step = "route"]
    <3>1. /\ job' = [job EXCEPT ![c] = j]
          /\ UNCHANGED <<target, posted, unstored, stored, queued>>
      BY <2>6 DEF Persist, hubVars
    <3>2. j.step = "route" /\ j.msg = m
      BY <2>2
    <3>3. j # Idle
      BY <3>2 DEF Idle
    <3> HIDE DEF j
    <3> QED
      BY <1>2, <3>1, <3>2, <3>3, HandledJob
  <2>7. CASE Route(c)
    <3>1. /\ target' = [target EXCEPT ![c] = clients[Recipient(m)]]
          /\ UNCHANGED <<posted, unstored, stored, queued>>
      BY <2>7 DEF Route, Lookup
    <3>2. \A d \in Conns \ {c} : target'[d] = target[d]
      BY <1>1, <3>1
    <3>3. CASE job' = [job EXCEPT ![c] = AfterMiss(m)]
      BY <1>2, <2>3, <3>1, <3>2, <3>3, HandledJob
    <3>4. CASE /\ clients[Recipient(m)] # NoConn
               /\ job' = [job EXCEPT ![c] = [step |-> "send", msg |-> m]]
      <4>1. target'[c] \in Conns /\ UserOf[target'[c]] = Recipient(m)
        BY <1>1, <2>1, <3>1, <3>4 DEF TypeInv, TypeOK, Accounted
      <4> QED
        BY <1>2, <2>4, <3>1, <3>2, <3>4, <4>1, HandledJob
    <3> QED
      BY <2>7, <3>3, <3>4 DEF Route
  <2>8. CASE Send(c)
    <3>1. /\ job[c].step = "send" /\ target' = [target EXCEPT ![c] = NoConn]
          /\ RecordQueued(target[c], m)
          /\ UNCHANGED <<posted, unstored, stored>>
      BY <2>8 DEF Send, Push
    <3>2. \A d \in Conns \ {c} : target'[d] = target[d]
      BY <1>1, <3>1
    <3>3. target[c] \in Conns /\ UserOf[target[c]] = Recipient(m)
      BY <3>1 DEF Aimed
    <3>4. QueuedGrows /\ (Accepts(target[c]) => Contains(queued'[target[c]], m))
      BY <2>1, <3>1, <3>3, RecordGrows
    <3>5. CASE Accepts(target[c]) /\ job' = [job EXCEPT ![c] = Idle]
      BY <2>5, <3>1, <3>2, <3>3, <3>4, <3>5, HandledJob
    <3>6. CASE job' = [job EXCEPT ![c] = AfterMiss(m)]
      BY <2>3, <3>1, <3>2, <3>4, <3>6, HandledJob
    <3> QED
      BY <2>8, <3>5, <3>6 DEF Send
  <2>9. CASE Store(c)
    <3>1. /\ job' = [job EXCEPT ![c] = Idle]
          /\ unstored \subseteq unstored' /\ stored \subseteq stored' /\ m \in unstored' \cup stored'
          /\ UNCHANGED <<target, posted, queued>>
      BY <2>9 DEF Store, hubVars
    <3> QED
      BY <1>2, <2>5, <3>1, HandledJob
  <2> QED
    BY <1>7, <2>6, <2>7, <2>8, <2>9 DEF Handler
\* Worker[c] is not a connection, so its target is not that of a handler.
<1>8. ASSUME NEW c \in Conns, DeliverOffline(c) PROVE Aimed' /\ HandledSomewhere'
  <2>1. Worker[c] \notin Conns /\ Worker[c] \in Callers
    BY WorkerAssumption
  <2>2. UNCHANGED <<job, posted, unstored, stored>>
    BY <1>8 DEF DeliverOffline, Load, DeliverLookup, DeliverPush, Clear
  <2>3. \A d \in Conns : target'[d] = target[d]
    BY <1>1, <1>8, <2>1 DEF DeliverOffline, Load, DeliverLookup, DeliverPush, Clear,
                            Lookup, Push, hubVars
  <2>4. QueuedGrows
    <3>1. CASE Load(c) \/ DeliverLookup(c) \/ Clear(c)
      BY <1>2, <3>1 DEF Load, DeliverLookup, Clear
    <3>2. CASE DeliverPush(c)
      <4> DEFINE m == worker[c].messages[worker[c].next]
      <4>1. target[Worker[c]] \in Conns /\ RecordQueued(target[Worker[c]], m)
        BY <1>1, <2>1, <3>2 DEF DeliverPush, Push
      <4>2. m \in Msgs
        BY <3>2 DEF DeliverPush, InLoop, TypeInv, DeliveryTypeOK
      <4> HIDE DEF m
      <4> QED
        BY <4>1, <4>2, RecordGrows
    <3> QED
      BY <1>8, <3>1, <3>2 DEF DeliverOffline
  <2> QED
    BY <1>1, <2>2, <2>3, <2>4, HandledElsewhere
<1>9. CASE (\E u \in Users : Expire(u)) \/ UNCHANGED vars
  <2>1. UNCHANGED <<target, job, posted, unstored, stored, queued>>
    BY <1>9 DEF Expire, vars, hubVars, deliveryVars
  <2> QED
    BY <1>1, <1>2, <2>1, HandledElsewhere
<1> QED
  BY <1>3, <1>4, <1>5, <1>6, <1>7, <1>8, <1>9 DEF DeliveryNext

LEMMA HandledSomewhereHolds == DeliverySpec => []HandledSomewhere
<1>1. DeliveryInit => Aimed /\ HandledSomewhere
  BY DEF DeliveryInit, Aimed, HandledSomewhere, Idle
<1>2. TypeInv /\ Accounted /\ (Aimed /\ HandledSomewhere) /\ [DeliveryNext]_vars
        => (Aimed /\ HandledSomewhere)'
  BY HandledStep
<1> QED
  BY <1>1, <1>2, TypeInvHolds, DeliveryAccounted, PTL DEF DeliverySpec

-----------------------------------------------------------------------------
(* Conversation.                                                            *)

\* What has been posted for u, and the buffers that hold nothing else.
For(u) == {m \in posted : Recipient(m) = u}
Buffers(u) == Seq(For(u) \cup {ErrorMsg})

JobsPosted == \A c \in Conns : job[c] # Idle => job[c].msg \in posted
OfflineFor == \A u \in Users : offline[u] \in Seq(For(u))
WorkersFor == \A c \in Conns : worker[c].messages \in Seq(For(UserOf[c]))
BuffersFor == \A c \in Conns : send[c] \in Buffers(UserOf[c]) /\ frame[c] \in Buffers(UserOf[c])
WorkersAimed ==
    \A c \in Conns :
        target[Worker[c]] # NoConn => UserOf[target[Worker[c]]] = UserOf[c]

\* Whatever is on its way has been posted, and is on its way to its recipient.
Directed == JobsPosted /\ OfflineFor /\ WorkersFor /\ BuffersFor /\ WorkersAimed

LEMMA DirectedInit == DeliveryInit => Directed
<1> SUFFICES ASSUME DeliveryInit PROVE Directed
  OBVIOUS
<1>1. JobsPosted /\ OfflineFor /\ WorkersFor
  <2>1. /\ \A c \in Conns : job[c] = Idle /\ worker[c].messages = <<>>
        /\ \A u \in Users : offline[u] = <<>>
    BY DEF DeliveryInit
  <2>2. \A u : <<>> \in Seq(For(u))
    OBVIOUS
  <2> QED
    BY <2>1, <2>2 DEF JobsPosted, OfflineFor, WorkersFor
<1>2. BuffersFor /\ WorkersAimed
  BY WorkerAssumption DEF DeliveryInit, Init, BuffersFor, Buffers, WorkersAimed
<1> QED
  BY <1>1, <1>2 DEF Directed

\* A non-blocking send to c of a message for its user.
LEMMA OfferDirected ==
    ASSUME TypeInv, BuffersFor, posted' = posted, frame' = frame, NEW c \in Conns,
           NEW m \in For(UserOf[c]) \cup {ErrorMsg}, Offer(c, m)
    PROVE  BuffersFor'
<1>1. send \in [Conns -> Seq(Msgs \cup {ErrorMsg})]
  BY DEF TypeInv, TypeOK
<1>2. Append(send[c], m) \in Buffers(UserOf[c])
  BY AppendProperties DEF BuffersFor, Buffers
<1>3. send' = send \/ send' = [send EXCEPT ![c] = Append(send[c], m)]
  BY <1>1 DEF Offer, TrySend
<1>4. \A u : Buffers(u)' = Buffers(u)
  BY DEF Buffers, For
<1> QED
  BY <1>1, <1>2, <1>3, <1>4 DEF BuffersFor

\* The steps of the hub and of the pumps.
LEMMA BuffersHub ==
    ASSUME TypeInv, BuffersFor, posted' = posted,
           HubStep \/ \E c \in Conns : ServeWS(c) \/ WriteFrame(c)
    PROVE  BuffersFor'
<1>1. \A u : Buffers(u)' = Buffers(u)
  BY DEF Buffers, For
<1>2. /\ send \in [Conns -> Seq(Msgs \cup {ErrorMsg})]
      /\ frame \in [Conns -> Seq(Msgs \cup {ErrorMsg})]
  BY DEF TypeInv, TypeOK
<1>3. ASSUME send' = send, frame' = frame PROVE BuffersFor'
  BY <1>1, <1>3 DEF BuffersFor
<1>4. CASE \/ RunRegister \/ RunUnregister
           \/ \E c \in Conns : LeaveLoop(c) \/ Unregister(c) \/ CloseConn(c) \/ OpenFrame(c)
           \/ \E c \in Conns : ServeWS(c)
           \/ \E c \in Fragile : PeerGone(c)
  BY <1>3, <1>4 DEF RunRegister, RunUnregister, LeaveLoop, ReadError, Unregister,
                    CloseConn, OpenFrame, ServeWS, PeerGone
<1>5. ASSUME NEW c \in Conns,
             \/ WriteFrame(c) \/ NextWriterFails(c) \/ WriteFails(c) \/ WriteClose(c)
             \/ PingFails(c)
      PROVE  BuffersFor'
  <2>1. send' = send /\ frame' = [frame EXCEPT ![c] = <<>>]
    BY <1>5 DEF WriteFrame, NextWriterFails, WriteFails, WriteClose, PingFails, PumpReturns
  <2>2. <<>> \in Buffers(UserOf[c])
    BY DEF Buffers
  <2> QED
    BY <1>1, <1>2, <2>1, <2>2 DEF BuffersFor
<1>6. ASSUME NEW c \in Conns, TakeMessage(c) \/ DrainOne(c) PROVE BuffersFor'
  <2> DEFINE M == For(UserOf[c]) \cup {ErrorMsg}
             T == Buffers(UserOf[c])
  <2>1. /\ send[c] # <<>> /\ send' = [send EXCEPT ![c] = Tail(send[c])]
        /\ frame' \in {[frame EXCEPT ![c] = <<Head(send[c])>>],
                       [frame EXCEPT ![c] = Append(frame[c], Head(send[c]))]}
    BY <1>6 DEF TakeMessage, DrainOne
  <2>2. send[c] \in Seq(M) /\ frame[c] \in Seq(M)
    BY DEF BuffersFor, Buffers
  <2>3. Tail(send[c]) \in Seq(M) /\ Head(send[c]) \in M
    BY <2>1, <2>2, TailProperties
  <2>4. <<Head(send[c])>> \in Seq(M) /\ Append(frame[c], Head(send[c])) \in Seq(M)
    BY <2>2, <2>3, AppendProperties
  <2>5. T = Seq(M)
    BY DEF Buffers
  <2> HIDE DEF M, T
  <2>6. send'[c] \in T /\ frame'[c] \in T
    BY <1>2, <2>1, <2>3, <2>4, <2>5
  <2>7. \A d \in Conns \ {c} : send'[d] = send[d] /\ frame'[d] = frame[d]
    BY <1>2, <2>1
  <2> QED
    BY <1>1, <2>6, <2>7 DEF BuffersFor, T
<1> QED
  BY <1>4, <1>5, <1>6 DEF HubStep

\* The steps of the message handler after Receive.
LEMMA DirectedHandler ==
    ASSUME TypeInv, Aimed, Directed, NEW c \in Conns, Handler(c)
    PROVE  Directed'
<1> DEFINE m == job[c].msg
<1>1. /\ job \in [Conns -> Jobs] /\ offline \in [Users -> Seq(Msgs)]
      /\ target \in [Callers -> Conns \cup {NoConn}] /\ Conns \subseteq Callers
      /\ posted' = posted
  BY CallersAssumption
     DEF TypeInv, TypeOK, DeliveryTypeOK, Handler, Persist, Route, Send, Store
<1>2. /\ job[c] # Idle /\ m \in Msgs /\ Recipient(m) \in Users
      /\ job[c] \in [step : {"persist", "route", "send", "store"}, msg : Msgs]
  <2>1. job[c] # Idle
    BY DEF Handler, Persist, Route, Send, Store, Idle
  <2> QED
    BY <1>1, <2>1, JobMsg, RecipientType DEF TypeInv, Jobs
<1>3. m \in For(Recipient(m)) /\ m \in posted
  BY <1>2 DEF Directed, JobsPosted, For
<1>4. \A u : For(u)' = For(u) /\ Buffers(u)' = Buffers(u)
  BY <1>1 DEF For, Buffers
<1>5. \A d \in Conns : Worker[d] \notin Conns /\ Worker[d] \in Callers
  BY WorkerAssumption
<1>6. JobsPosted'
  <2>1. \E j : job' = [job EXCEPT ![c] = j] /\ (j # Idle => j.msg = m)
    <3>1. CASE Persist(c)
      <4> DEFINE j == [job[c] EXCEPT !.step = "route"]
      <4>1. job' = [job EXCEPT ![c] = j] /\ j.msg = m
        BY <1>2, <3>1 DEF Persist
      <4> QED
        BY <4>1
    <3>2. CASE job' = [job EXCEPT ![c] = AfterMiss(m)]
      <4>1. AfterMiss(m) # Idle => AfterMiss(m).msg = m
        BY DEF AfterMiss
      <4> QED
        BY <3>2, <4>1
    <3>3. CASE job' = [job EXCEPT ![c] = [step |-> "send", msg |-> m]]
      <4>1. [step |-> "send", msg |-> m].msg = m
        OBVIOUS
      <4> QED
        BY <3>3, <4>1
    <3>4. CASE job' = [job EXCEPT ![c] = Idle]
      BY <3>4
    <3> QED
      BY <3>1, <3>2, <3>3, <3>4 DEF Handler, Route, Send, Store
  <2>2. PICK j : job' = [job EXCEPT ![c] = j] /\ (j # Idle => j.msg = m)
    BY <2>1
  <2>3. \A d \in Conns : job'[d] = IF d = c THEN j ELSE job[d]
    BY <1>1, <2>2
  <2> HIDE DEF m
  <2> QED
    BY <1>1, <1>3, <2>2, <2>3 DEF Directed, JobsPosted
<1>7. OfflineFor'
  <2>1. CASE offline' = offline
    BY <1>4, <2>1 DEF Directed, OfflineFor
  <2>2. CASE offline' = [offline EXCEPT ![Recipient(m)] = Append(@, m)]
    <3>1. Append(offline[Recipient(m)], m) \in Seq(For(Recipient(m)))
      BY <1>2, <1>3, AppendProperties DEF Directed, OfflineFor
    <3> QED
      BY <1>1, <1>4, <2>2, <3>1 DEF Directed, OfflineFor
  <2> QED
    BY <2>1, <2>2 DEF Handler, Persist, Route, Send, Store
<1>8. WorkersFor'
  <2>1. worker' = worker
    BY DEF Handler, Persist, Route, Send, Store
  <2> QED
    BY <1>4, <2>1 DEF Directed, WorkersFor
<1>9. BuffersFor'
  <2>1. CASE Send(c)
    <3>1. /\ job[c].step = "send" /\ target[c] # NoConn
          /\ Offer(target[c], m) /\ frame' = frame
      BY <2>1 DEF Send, Push
    <3>2. target[c] \in Conns /\ UserOf[target[c]] = Recipient(m)
      BY <3>1 DEF Aimed
    <3> HIDE DEF m
    <3> QED
      BY <1>1, <1>3, <3>1, <3>2, OfferDirected DEF Directed
  <2>2. CASE Persist(c) \/ Route(c) \/ Store(c)
    <3>1. send' = send /\ frame' = frame
      BY <2>2 DEF Persist, Route, Lookup, Store, hubVars
    <3> QED
      BY <1>4, <3>1 DEF Directed, BuffersFor
  <2> QED
    BY <2>1, <2>2 DEF Handler
<1>10. WorkersAimed'
  <2>1. \A d \in Conns : target'[Worker[d]] = target[Worker[d]]
    BY <1>1, <1>5 DEF Handler, Persist, Route, Lookup, Send, Push, Store, hubVars
  <2> QED
    BY <2>1 DEF Directed, WorkersAimed
<1> QED
  BY <1>6, <1>7, <1>8, <1>9, <1>10 DEF Directed

\* The steps of deliverOfflineMessages.
LEMMA DirectedWorker ==
    ASSUME TypeInv, Accounted, Directed, NEW c \in Conns, DeliverOffline(c)
    PROVE  Directed'
<1> DEFINE g == Worker[c]
           w == worker[c]
           u == UserOf[c]
<1>1. /\ target \in [Callers -> Conns \cup {NoConn}] /\ g \in Callers /\ u \in Users
      /\ offline \in [Users -> Seq(Msgs)] /\ clients \in [Users -> Conns \cup {NoConn}]
      /\ UNCHANGED <<posted, job, frame>>
  BY WorkerAssumption, UserOfAssumption
     DEF TypeInv, TypeOK, DeliveryTypeOK, DeliverOffline, Load, DeliverLookup, Lookup,
         DeliverPush, Push, Clear, hubVars
<1>2. /\ \A d \in Conns : worker[d] \in [step : {"none", "load", "loop", "done"},
                                         messages : Seq(Msgs), next : Nat \ {0}]
      /\ worker \in [Conns -> [step : {"none", "load", "loop", "done"},
                               messages : Seq(Msgs), next : Nat \ {0}]]
  BY DEF TypeInv, DeliveryTypeOK
<1>3. \A v : For(v)' = For(v) /\ Buffers(v)' = Buffers(v)
  BY <1>1 DEF For, Buffers
<1>4. JobsPosted'
  BY <1>1 DEF Directed, JobsPosted
<1>5. OfflineFor'
  <2>1. offline' = offline \/ offline' = [offline EXCEPT ![u] = <<>>]
    BY DEF DeliverOffline, Load, DeliverLookup, DeliverPush, Clear
  <2>2. \A v \in Users : offline'[v] = offline[v] \/ offline'[v] = <<>>
    BY <1>1, <2>1
  <2>3. <<>> \in Seq(For(u)) /\ \A v : <<>> \in Seq(For(v))
    OBVIOUS
  <2> QED
    BY <1>3, <2>2, <2>3 DEF Directed, OfflineFor
<1>6. WorkersFor'
  <2>1. \A d \in Conns :
          worker'[d].messages = worker[d].messages
            \/ (d = c /\ worker'[d].messages = offline[u])
    <3>1. ASSUME NEW x, worker' = [worker EXCEPT ![c] = x],
                 x.messages \in {w.messages, offline[u]}
          PROVE  \A d \in Conns :
                   worker'[d].messages = worker[d].messages
                     \/ (d = c /\ worker'[d].messages = offline[u])
      <4>1. worker'[c] = x /\ \A d \in Conns \ {c} : worker'[d] = worker[d]
        BY <1>2, <3>1
      <4>2. worker'[c].messages = x.messages
        BY <4>1
      <4>3. \A d \in Conns \ {c} : worker'[d].messages = worker[d].messages
        BY <4>1
      <4>4. worker'[c].messages = worker[c].messages \/ worker'[c].messages = offline[u]
        BY <3>1, <4>2
      <4> QED
        BY <4>3, <4>4
    <3>2. CASE Load(c)
      <4>1. CASE worker' = [worker EXCEPT ![c].step = "done"]
        <5>1. [w EXCEPT !.step = "done"].messages = w.messages
          BY <1>2
        <5> QED
          BY <3>1, <4>1, <5>1
      <4>2. ASSUME NEW l, worker' = [worker EXCEPT ![c].step = l, ![c].messages = offline[u]]
            PROVE  worker' = [worker EXCEPT
                                ![c] = [w EXCEPT !.step = l, !.messages = offline[u]]]
        BY <1>2, <4>2
      <4>3. \A l : [w EXCEPT !.step = l, !.messages = offline[u]].messages = offline[u]
        BY <1>2
      <4>4. PICK l : \/ worker' = [worker EXCEPT ![c].step = l, ![c].messages = offline[u]]
                     \/ worker' = [worker EXCEPT ![c].step = "done"]
        BY <3>2 DEF Load
      <4> QED
        BY <3>1, <4>1, <4>2, <4>3, <4>4
    <3>3. CASE DeliverLookup(c) \/ DeliverPush(c) \/ Clear(c)
      <4>1. \/ worker' = worker
            \/ worker' = [worker EXCEPT ![c] = [w EXCEPT !.next = w.next + 1]]
            \/ worker' = [worker EXCEPT ![c] = [w EXCEPT !.step = "done"]]
        BY <3>3 DEF DeliverLookup, DeliverPush, Clear
      <4>2. /\ [w EXCEPT !.next = w.next + 1].messages = w.messages
            /\ [w EXCEPT !.step = "done"].messages = w.messages
        BY <1>2
      <4>3. CASE worker' = worker
        BY <4>3
      <4>4. CASE worker' = [worker EXCEPT ![c] = [w EXCEPT !.next = w.next + 1]]
        BY <3>1, <4>2, <4>4
      <4>5. CASE worker' = [worker EXCEPT ![c] = [w EXCEPT !.step = "done"]]
        BY <3>1, <4>2, <4>5
      <4> QED
        BY <4>1, <4>3, <4>4, <4>5
    <3> QED
      BY <3>2, <3>3 DEF DeliverOffline
  <2> QED
    BY <1>1, <1>3, <2>1 DEF Directed, WorkersFor, OfflineFor
<1>7. BuffersFor'
  <2>1. CASE DeliverPush(c)
    <3> DEFINE m == w.messages[w.next]
    <3>1. /\ w.next <= Len(w.messages) /\ target[g] # NoConn
          /\ Offer(target[g], m)
      BY <2>1 DEF DeliverPush, InLoop, Push
    <3>2. target[g] \in Conns /\ UserOf[target[g]] = u
      BY <1>1, <3>1 DEF Directed, WorkersAimed
    <3>3. m \in For(u)
      BY <1>2, <3>1 DEF Directed, WorkersFor
    <3> HIDE DEF m, g, u
    <3> QED
      BY <1>1, <3>1, <3>2, <3>3, OfferDirected DEF Directed
  <2>2. CASE Load(c) \/ DeliverLookup(c) \/ Clear(c)
    <3>1. send' = send
      BY <2>2 DEF Load, DeliverLookup, Lookup, Clear, hubVars
    <3> QED
      BY <1>1, <1>3, <3>1 DEF Directed, BuffersFor
  <2> QED
    BY <2>1, <2>2 DEF DeliverOffline
<1>8. WorkersAimed'
  <2>1. target' = target \/ target' = [target EXCEPT ![g] = NoConn]
          \/ target' = [target EXCEPT ![g] = clients[u]]
    BY DEF DeliverOffline, Load, DeliverLookup, Lookup, DeliverPush, Push, Clear, hubVars
  <2>2. \A d \in Conns \ {c} : Worker[d] # g
    BY WorkerAssumption
  <2>3. \A d \in Conns \ {c} : target'[Worker[d]] = target[Worker[d]]
    BY <1>1, <2>1, <2>2, WorkerAssumption
  <2>4. target'[g] \in {target[g], NoConn, clients[u]}
    BY <1>1, <2>1
  <2>5. clients[u] # NoConn => UserOf[clients[u]] = u
    BY <1>1 DEF Accounted
  <2> QED
    BY <2>3, <2>4, <2>5 DEF Directed, WorkersAimed
<1> QED
  BY <1>4, <1>5, <1>6, <1>7, <1>8 DEF Directed

LEMMA DirectedStep ==
    ASSUME TypeInv, Accounted, Aimed, Directed, [DeliveryNext]_vars
    PROVE  Directed'
<1>1. ASSUME UNCHANGED <<job, offline, posted>>,
             \A c \in Conns : worker'[c].messages = worker[c].messages,
             \A c \in Conns : target'[Worker[c]] = target[Worker[c]]
      PROVE  JobsPosted' /\ OfflineFor' /\ WorkersFor' /\ WorkersAimed'
  <2>1. \A u : For(u)' = For(u)
    BY <1>1 DEF For
  <2> QED
    BY <1>1, <2>1 DEF Directed, JobsPosted, OfflineFor, WorkersFor, WorkersAimed
<1>2. CASE HubStep /\ UNCHANGED deliveryVars
  <2>1. target' = target
    BY <1>2 DEF HubStep, RunRegister, RunUnregister, LeaveLoop, ReadError, Unregister,
                CloseConn, TakeMessage, OpenFrame, NextWriterFails, DrainOne, WriteFails,
                WriteClose, PingFails, PeerGone
  <2>2. BuffersFor'
    BY <1>2, BuffersHub DEF Directed, deliveryVars
  <2> QED
    BY <1>1, <1>2, <2>1, <2>2 DEF Directed, deliveryVars
<1>3. ASSUME NEW c \in Conns, Serve(c) \/ Write(c) PROVE Directed'
  <2>1. UNCHANGED <<target, job, offline, posted>> /\ (ServeWS(c) \/ WriteFrame(c))
    BY <1>3 DEF Serve, ServeWS, Write, WriteFrame
  <2>2. \A d \in Conns : worker'[d].messages = worker[d].messages
    <3>1. /\ \A d \in Conns : worker[d] \in [step : {"none", "load", "loop", "done"},
                                             messages : Seq(Msgs), next : Nat \ {0}]
          /\ DOMAIN worker = Conns
      BY DEF TypeInv, DeliveryTypeOK
    <3>2. \/ worker' = worker
          \/ worker' = [worker EXCEPT ![c] = [worker[c] EXCEPT !.step = "load"]]
      BY <1>3 DEF Serve, Write
    <3>3. [worker[c] EXCEPT !.step = "load"].messages = worker[c].messages
      BY <3>1
    <3> QED
      BY <3>1, <3>2, <3>3
  <2>3. BuffersFor'
    BY <2>1, BuffersHub DEF Directed
  <2> QED
    BY <1>1, <2>1, <2>2, <2>3 DEF Directed
<1>4. ASSUME NEW c \in Conns, ReceiveBad(c) PROVE Directed'
  <2>1. /\ UNCHANGED <<target, job, offline, posted, worker, frame>>
        /\ Offer(c, ErrorMsg)
    BY <1>4 DEF ReceiveBad, SendError
  <2>2. BuffersFor'
    BY <2>1, OfferDirected DEF Directed
  <2> QED
    BY <1>1, <2>1, <2>2 DEF Directed
<1>5. ASSUME NEW c \in Conns, NEW m \in Msgs, Receive(c, m) PROVE Directed'
  <2>1. /\ job' = [job EXCEPT ![c] = [step |-> "persist", msg |-> m]]
        /\ posted' = posted \cup {m}
        /\ UNCHANGED <<target, offline, worker, send, frame>>
    BY <1>5 DEF Receive, hubVars
  <2>2. /\ job \in [Conns -> Jobs] /\ [step |-> "persist", msg |-> m].msg = m
    BY DEF TypeInv, DeliveryTypeOK
  <2>3. \A u : For(u) \subseteq For(u)'
    BY <2>1 DEF For
  <2>4. \A u : Seq(For(u)) \subseteq Seq(For(u)') /\ Buffers(u) \subseteq Buffers(u)'
    <3> TAKE u
    <3>1. For(u) \cup {ErrorMsg} \subseteq For(u)' \cup {ErrorMsg}
      BY <2>3
    <3> QED
      BY <2>3, <3>1, SeqMono DEF Buffers
  <2>5. JobsPosted'
    BY <2>1, <2>2 DEF Directed, JobsPosted
  <2>6. OfflineFor'
    BY <2>1, <2>4 DEF Directed, OfflineFor
  <2>7. WorkersFor'
    BY <2>1, <2>4 DEF Directed, WorkersFor
  <2>8. BuffersFor' /\ WorkersAimed'
    BY <2>1, <2>4 DEF Directed, BuffersFor, WorkersAimed
  <2> QED
    BY <2>5, <2>6, <2>7, <2>8 DEF Directed
<1>6. ASSUME NEW u \in Users, Expire(u) PROVE Directed'
  <2>1. /\ UNCHANGED <<target, job, posted, worker, send, frame>>
        /\ offline' = [offline EXCEPT ![u] = <<>>] /\ offline \in [Users -> Seq(Msgs)]
    BY <1>6 DEF Expire, hubVars, TypeInv, DeliveryTypeOK
  <2>2. \A v : For(v)' = For(v) /\ Buffers(v)' = Buffers(v) /\ <<>> \in Seq(For(v))
    BY <2>1 DEF For, Buffers
  <2>3. OfflineFor'
    BY <2>1, <2>2 DEF Directed, OfflineFor
  <2>4. JobsPosted' /\ WorkersFor' /\ BuffersFor' /\ WorkersAimed'
    BY <2>1, <2>2 DEF Directed, JobsPosted, WorkersFor, BuffersFor, WorkersAimed
  <2> QED
    BY <2>3, <2>4 DEF Directed
<1>7. CASE UNCHANGED vars
  <2>1. UNCHANGED <<target, job, offline, posted, worker, send, frame>>
    BY <1>7 DEF vars, hubVars, deliveryVars
  <2>2. \A v : Buffers(v)' = Buffers(v)
    BY <2>1 DEF For, Buffers
  <2>3. BuffersFor'
    BY <2>1, <2>2 DEF Directed, BuffersFor
  <2> QED
    BY <1>1, <2>1, <2>3 DEF Directed
<1> QED
  BY <1>2, <1>3, <1>4, <1>5, <1>6, <1>7, DirectedHandler, DirectedWorker DEF DeliveryNext

\* What a user has been shown grows by what their connection is written.
LEMMA ShownSteps ==
    ASSUME TypeInv, [DeliveryNext]_vars
    PROVE  \/ \A u \in Users : Shown(u)' = Shown(u)
           \/ \E c \in Conns :
                /\ Write(c)
                /\ \A u \in Users :
                     Shown(u)' = IF u = UserOf[c]
                                 THEN Shown(u) \cup {m \in Msgs : Contains(frame[c], m)}
                                 ELSE Shown(u)
<1>1. CASE wire' = wire
  BY <1>1 DEF Shown, OnWire
<1>2. ASSUME NEW c \in Conns, Write(c), wire' # wire
      PROVE  \A u \in Users :
               Shown(u)' = IF u = UserOf[c]
                           THEN Shown(u) \cup {m \in Msgs : Contains(frame[c], m)}
                           ELSE Shown(u)
  <2>1. /\ wire \in [Conns -> Seq(Seq(Msgs \cup {ErrorMsg}))]
        /\ frame[c] \in Seq(Msgs \cup {ErrorMsg})
    BY DEF TypeInv, TypeOK, DeliveryTypeOK
  <2>2. wire' = [wire EXCEPT ![c] = Append(wire[c], frame[c])]
    BY <1>2 DEF Write
  <2>3. PICK n \in Nat : n = Len(wire[c]) /\ Len(Append(wire[c], frame[c])) = n + 1
    BY <2>1
  <2>4. /\ \A i \in 1 .. n : Append(wire[c], frame[c])[i] = wire[c][i]
        /\ Append(wire[c], frame[c])[n + 1] = frame[c]
        /\ 1 .. (n + 1) = (1 .. n) \cup {n + 1}
    BY <2>1, <2>3
  <2>5. \A d \in Conns : wire'[d] = IF d = c THEN Append(wire[c], frame[c]) ELSE wire[d]
    BY <2>1, <2>2
  <2>6. \A m : OnWire(m, c)' <=> OnWire(m, c) \/ Contains(frame[c], m)
    BY <2>3, <2>4, <2>5 DEF OnWire
  <2>7. \A m : \A d \in Conns \ {c} : OnWire(m, d)' <=> OnWire(m, d)
    BY <2>5 DEF OnWire
  <2> QED
    BY <2>6, <2>7 DEF Shown
<1>3. ASSUME ~ \E c \in Conns : Write(c) PROVE wire' = wire
  BY <1>3 DEF DeliveryNext, HubStep, deliveryVars, vars, Serve, ReceiveBad, Handler,
              Persist, Route, Send, Store, DeliverOffline, Load, DeliverLookup,
              DeliverPush, Clear, Receive, Expire
<1> QED
  BY <1>1, <1>2, <1>3

\* The server with its handlers implements Conversation: a user is shown only what
\* was posted and is for them, and receipts answer texts that were shown.
THEOREM ConversationHolds == DeliverySpec => ImplementsConversation
<1> DEFINE shown == [u \in Users |-> Shown(u)]
<1>1. DeliveryInit => C!Init
  BY DEF DeliveryInit, C!Init, Shown, OnWire
<1>2. TypeInv /\ Directed /\ [DeliveryNext]_vars => [C!Next]_<<posted, shown>>
  <2> SUFFICES ASSUME TypeInv, Directed, [DeliveryNext]_vars
               PROVE  C!Next \/ UNCHANGED <<posted, shown>>
    OBVIOUS
  <2>1. ASSUME NEW c \in Conns, Write(c),
               \A u \in Users :
                 Shown(u)' = IF u = UserOf[c]
                             THEN Shown(u) \cup {m \in Msgs : Contains(frame[c], m)}
                             ELSE Shown(u)
        PROVE  C!Next
    <3> DEFINE S == {m \in Msgs : Contains(frame[c], m)}
    <3>1. posted' = posted /\ UserOf[c] \in Users /\ S \in SUBSET Msgs
      BY <2>1, UserOfAssumption DEF Write
    <3>2. \A m \in S : m \in posted /\ Recipient(m) = UserOf[c]
      <4>1. frame[c] \in Seq(For(UserOf[c]) \cup {ErrorMsg})
        BY DEF Directed, BuffersFor, Buffers
      <4>2. \A m \in S : m \in For(UserOf[c]) \cup {ErrorMsg}
        BY <4>1 DEF Contains
      <4> QED
        BY <4>2, TextsAssumption DEF For
    <3>3. shown' = [shown EXCEPT ![UserOf[c]] = shown[UserOf[c]] \cup S]
      BY <2>1, <3>1
    <3>4. C!Show(UserOf[c], S)
      BY <3>1, <3>2, <3>3 DEF C!Show, C!Recipient, Recipient, IsText
    <3> QED
      BY <3>1, <3>4 DEF C!Next
  <2>2. CASE \A u \in Users : Shown(u)' = Shown(u)
    <3>1. shown' = shown
      BY <2>2
    <3>2. ASSUME NEW c \in Conns, NEW m \in Msgs, Receive(c, m) PROVE C!Post(m)
      <4>1. /\ posted' = posted \cup {m} /\ Sender(m) = UserOf[c]
            /\ ~IsText(m) => <<"text", m[2]>> \in Shown(UserOf[c])
        BY <3>2 DEF Receive
      <4>2. m[1] = "receipt" => <<"text", m[2]>> \in shown[Addressee[m[2]]]
        BY <4>1, UserOfAssumption DEF IsText, Sender
      <4> QED
        BY <3>1, <4>1, <4>2 DEF C!Post
    <3>3. CASE posted' = posted
      BY <3>1, <3>3
    <3>4. ASSUME ~ \E c \in Conns, m \in Msgs : Receive(c, m) PROVE posted' = posted
      BY <3>4 DEF DeliveryNext, HubStep, deliveryVars, vars, Serve, Write, ReceiveBad,
                  Handler, Persist, Route, Send, Store, DeliverOffline, Load,
                  DeliverLookup, DeliverPush, Clear, Expire
    <3> QED
      BY <3>2, <3>3, <3>4 DEF C!Next
  <2> QED
    BY <2>1, <2>2, ShownSteps
<1>3. TypeInv /\ Accounted /\ (Aimed /\ HandledSomewhere /\ Directed) /\ [DeliveryNext]_vars
        => (Aimed /\ HandledSomewhere /\ Directed)'
  BY HandledStep, DirectedStep
<1>4. DeliveryInit => Aimed /\ HandledSomewhere /\ Directed
  BY DirectedInit DEF DeliveryInit, Aimed, HandledSomewhere, Idle
<1> QED
  BY <1>1, <1>2, <1>3, <1>4, TypeInvHolds, DeliveryAccounted, PTL
     DEF DeliverySpec, ImplementsConversation, C!Spec

-----------------------------------------------------------------------------
(* FlattenSeq.  It is defined by recursion, and what it computes needs an   *)
(* induction over the number of parts.                                      *)

\* Induction over the naturals, as a fact about sets: a set without its least
\* counterexample has none.
LEMMA NatInduct ==
    ASSUME NEW S \in SUBSET Nat, 0 \in S, \A n \in S : n + 1 \in S
    PROVE  S = Nat
<1> DEFINE R == OpToRel(<, Nat)
           T == Nat \ S
<1>1. IsWellFoundedOn(R, Nat)
  BY NatLessThanWellFounded
<1>2. ASSUME NEW m \in Nat, NEW n \in Nat, m < n
      PROVE  <<m, n>> \in R
  BY <1>2 DEF OpToRel
<1> HIDE DEF R
<1>3. SUFFICES ASSUME T # {} PROVE FALSE
  OBVIOUS
<1>4. PICK n \in T : \A m \in T : ~ (<<m, n>> \in R)
  BY <1>1, <1>3, WFMin
<1>5. n \in Nat /\ n # 0
  OBVIOUS
<1>6. n - 1 \in Nat /\ n - 1 < n /\ (n - 1) + 1 = n
  BY <1>5
<1>7. n - 1 \notin T
  BY <1>2, <1>4, <1>5, <1>6
<1> QED
  BY <1>5, <1>6, <1>7

\* The function FlattenSeq is defined by, and the recursion it satisfies.
Flat(s) == CHOOSE f : f = [i \in 1 .. Len(s) |-> IF i = 1 THEN s[i] ELSE f[i - 1] \o s[i]]

\* FlattenSeq concatenates from the left, by a recursive function.
LEMMA FlatDef ==
    ASSUME NEW s PROVE FlattenSeq(s) = IF Len(s) = 0 THEN s ELSE Flat(s)[Len(s)]
  BY DEF FlattenSeq, Flat

FlatOf(f, s, n) == f = [i \in 1 .. n |-> IF i = 1 THEN s[i] ELSE f[i - 1] \o s[i]]

\* Two functions that satisfy the recursion agree where both are defined.
LEMMA FlatUnique ==
    ASSUME NEW s, NEW f, NEW g, NEW m \in Nat, NEW n \in Nat,
           FlatOf(f, s, m), FlatOf(g, s, n), m <= n
    PROVE  \A i \in 1 .. m : f[i] = g[i]
<1> DEFINE S == {i \in Nat : i \in 1 .. m => f[i] = g[i]}
<1>1. 0 \in S
  OBVIOUS
<1>2. ASSUME NEW i \in S PROVE i + 1 \in S
  <2>1. CASE i = 0
    BY <2>1 DEF FlatOf
  <2>2. CASE i # 0
    <3>1. SUFFICES ASSUME i + 1 \in 1 .. m PROVE f[i+1] = g[i+1]
      OBVIOUS
    <3>2. i \in 1 .. m /\ i+1 \in 1 .. n /\ i + 1 # 1 /\ (i + 1) - 1 = i
      BY <3>1, <2>2
    <3>3. f[i] = g[i]
      BY <3>2
    <3>4. f[i + 1] = f[i] \o s[i + 1]
      BY <3>1, <3>2 DEF FlatOf
    <3>5. g[i + 1] = g[i] \o s[i + 1]
      BY <3>1, <3>2 DEF FlatOf
    <3> QED
      BY <3>3, <3>4, <3>5
  <2> QED
    BY <2>1, <2>2
<1>3. S = Nat
  <2> HIDE DEF S
  <2>1. S \in SUBSET Nat
    BY DEF S
  <2> QED
    BY <1>1, <1>2, <2>1, NatInduct
<1> QED
  BY <1>3

\* The recursion has a solution for every length.
LEMMA FlatExists ==
    ASSUME NEW s, NEW m \in Nat
    PROVE  \E f : FlatOf(f, s, m)
<1> DEFINE S == {n \in Nat : \E f : FlatOf(f, s, n)}
<1>1. 0 \in S
  <2>1. FlatOf([i \in 1 .. 0 |-> 0], s, 0)
    BY DEF FlatOf
  <2> QED
    BY <2>1
<1>2. ASSUME NEW n \in S PROVE n + 1 \in S
  <2>1. PICK f : FlatOf(f, s, n)
    OBVIOUS
  <2> DEFINE g == [i \in 1 .. n + 1 |-> IF i \in 1 .. n THEN f[i]
                                        ELSE IF i = 1 THEN s[i] ELSE f[n] \o s[i]]
  <2>2. ASSUME NEW i \in 1 .. n + 1
        PROVE  g[i] = IF i = 1 THEN s[i] ELSE g[i - 1] \o s[i]
    <3>1. CASE i \in 1 .. n
      <4>1. f[i] = IF i = 1 THEN s[i] ELSE f[i - 1] \o s[i]
        BY <2>1, <3>1 DEF FlatOf
      <4>2. i # 1 => i - 1 \in 1 .. n /\ i - 1 \in 1 .. n + 1
        BY <3>1
      <4>3. g[i] = f[i] /\ (i # 1 => g[i - 1] = f[i - 1])
        BY <3>1, <4>2
      <4> HIDE DEF g
      <4> QED
        BY <4>1, <4>3
    <3>2. CASE i = n + 1
      <4>2. i # 1 => i - 1 = n /\ n \in 1 .. n /\ i - 1 \in 1 .. n + 1
        BY <3>2
      <4>3. g[i] = (IF i = 1 THEN s[i] ELSE f[n] \o s[i]) /\ (i # 1 => g[i - 1] = f[n])
        BY <3>2, <4>2
      <4> HIDE DEF g
      <4> QED
        BY <4>3
    <3> QED
      BY <3>1, <3>2
  <2>3. g = [i \in 1 .. n + 1 |-> IF i = 1 THEN s[i] ELSE g[i - 1] \o s[i]]
    <3>1. g = [i \in 1 .. n + 1 |-> g[i]]
      OBVIOUS
    <3> HIDE DEF g
    <3> QED
      BY <2>2, <3>1, Zenon
  <2> HIDE DEF g
  <2>4. FlatOf(g, s, n + 1)
    BY <2>3 DEF FlatOf
  <2>5. \E h : FlatOf(h, s, n + 1)
    BY <2>4
  <2> QED
    BY <2>5
<1>3. S = Nat
  <2> HIDE DEF S
  <2>1. S \in SUBSET Nat
    BY DEF S
  <2> QED
    BY <1>1, <1>2, <2>1, NatInduct
<1> QED
  BY <1>3

LEMMA FlatIs ==
    ASSUME NEW s, Len(s) \in Nat PROVE FlatOf(Flat(s), s, Len(s))
  BY FlatExists DEF Flat, FlatOf

\* What is in a concatenation is in one of its parts.
LEMMA ConcatContains ==
    ASSUME NEW A, NEW u \in Seq(A), NEW v \in Seq(A), NEW x
    PROVE  Contains(u \o v, x) <=> Contains(u, x) \/ Contains(v, x)
<1>1. /\ Len(u) \in Nat /\ Len(v) \in Nat /\ Len(u \o v) = Len(u) + Len(v)
      /\ \A i \in 1 .. Len(u) : (u \o v)[i] = u[i]
      /\ \A i \in 1 .. Len(v) : (u \o v)[Len(u) + i] = v[i]
  OBVIOUS
<1>2. \A i \in 1 .. Len(u) + Len(v) :
         i \in 1 .. Len(u) \/ \E j \in 1 .. Len(v) : i = Len(u) + j
  <2> SUFFICES ASSUME NEW i \in 1 .. Len(u) + Len(v), i \notin 1 .. Len(u)
               PROVE  \E j \in 1 .. Len(v) : i = Len(u) + j
    OBVIOUS
  <2>1. i - Len(u) \in 1 .. Len(v) /\ i = Len(u) + (i - Len(u))
    BY <1>1
  <2> QED
    BY <2>1
<1>3. ASSUME Contains(u, x) \/ Contains(v, x) PROVE Contains(u \o v, x)
  <2>1. CASE Contains(u, x)
    <3>1. PICK i \in 1 .. Len(u) : u[i] = x
      BY <2>1 DEF Contains
    <3>2. i \in 1 .. Len(u) + Len(v)
      BY <1>1
    <3> QED
      BY <1>1, <3>1, <3>2 DEF Contains
  <2>2. CASE Contains(v, x)
    <3>1. PICK i \in 1 .. Len(v) : v[i] = x
      BY <2>2 DEF Contains
    <3>2. Len(u) + i \in 1 .. Len(u) + Len(v)
      BY <1>1
    <3> QED
      BY <1>1, <3>1, <3>2 DEF Contains
  <2> QED
    BY <1>3, <2>1, <2>2
<1>4. ASSUME Contains(u \o v, x) PROVE Contains(u, x) \/ Contains(v, x)
  <2>1. PICK i \in 1 .. Len(u) + Len(v) : (u \o v)[i] = x
    BY <1>1, <1>4 DEF Contains
  <2> QED
    BY <1>1, <1>2, <2>1 DEF Contains
<1> QED
  BY <1>3, <1>4

\* What is in the flattened sequence is in one of the parts.
LEMMA FlattenType ==
    ASSUME NEW A, NEW s \in Seq(Seq(A))
    PROVE  /\ FlattenSeq(s) \in Seq(A)
           /\ \A x : Contains(FlattenSeq(s), x) => \E i \in 1 .. Len(s) : Contains(s[i], x)
<1> DEFINE f == Flat(s)
           Good(i) == /\ f[i] \in Seq(A)
                      /\ \A x : Contains(f[i], x) => \E j \in 1 .. Len(s) : Contains(s[j], x)
           S == {i \in Nat : i \in 1 .. Len(s) => Good(i)}
<1>1. Len(s) \in Nat /\ \A i \in 1 .. Len(s) : s[i] \in Seq(A)
  OBVIOUS
<1>2. FlatOf(f, s, Len(s))
  BY <1>1, FlatIs
<1>3. 0 \in S
  OBVIOUS
<1>4. ASSUME NEW i \in S PROVE i + 1 \in S
  <2>1. SUFFICES ASSUME i + 1 \in 1 .. Len(s) PROVE Good(i + 1)
    OBVIOUS
  <2> HIDE DEF f
  <2>2. CASE i = 0
    <3>1. f[i + 1] = s[i + 1]
      BY <1>2, <2>1, <2>2 DEF FlatOf
    <3> QED
      BY <1>1, <2>1, <3>1
  <2>3. CASE i # 0
    <3>1. i \in 1 .. Len(s) /\ i + 1 # 1 /\ (i + 1) - 1 = i
      BY <1>1, <2>1, <2>3
    <3>2. f[i + 1] = f[i] \o s[i + 1]
      BY <1>2, <2>1, <3>1 DEF FlatOf
    <3>3. Good(i)
      BY <3>1
    <3>4. f[i + 1] \in Seq(A)
      BY <1>1, <2>1, <3>2, <3>3
    <3>5. \A x : Contains(f[i + 1], x) => Contains(f[i], x) \/ Contains(s[i + 1], x)
      BY <1>1, <2>1, <3>2, <3>3, ConcatContains
    <3> QED
      BY <2>1, <3>3, <3>4, <3>5
  <2> QED
    BY <2>2, <2>3
<1>5. S = Nat
  <2> HIDE DEF S
  <2>1. S \in SUBSET Nat
    BY DEF S
  <2> QED
    BY <1>3, <1>4, <2>1, NatInduct
<1>6. ASSUME NEW i \in 1 .. Len(s) PROVE Good(i)
  <2> HIDE DEF Good
  <2> QED
    BY <1>5
<1>7. CASE Len(s) = 0
  <2>1. FlattenSeq(s) = <<>>
    BY <1>7, FlatDef
  <2> QED
    BY <2>1 DEF Contains
<1>8. CASE Len(s) # 0
  <2>1. FlattenSeq(s) = f[Len(s)] /\ Len(s) \in 1 .. Len(s)
    BY <1>1, <1>8, FlatDef
  <2> HIDE DEF f
  <2> QED
    BY <1>6, <2>1
<1> QED
  BY <1>7, <1>8

\* Another part at the end is concatenated behind the others.
LEMMA FlattenAppend ==
    ASSUME NEW A, NEW s \in Seq(Seq(A)), NEW e \in Seq(A)
    PROVE  FlattenSeq(Append(s, e)) = FlattenSeq(s) \o e
<1> DEFINE t == Append(s, e)
           n == Len(s)
           f == Flat(s)
           g == Flat(t)
<1>1. /\ n \in Nat /\ Len(t) = n + 1 /\ t[n + 1] = e
      /\ \A i \in 1 .. n : t[i] = s[i]
  OBVIOUS
<1> HIDE DEF t
<1>2. FlatOf(f, s, n)
  BY <1>1, FlatIs
<1>3. FlatOf(g, t, n + 1)
  BY <1>1, FlatIs
<1>4. FlattenSeq(t) = g[n + 1]
  BY <1>1, FlatDef
<1>5. CASE n = 0
  <2> HIDE DEF g
  <2>1. g[n + 1] = e
    BY <1>1, <1>3, <1>5 DEF FlatOf
  <2>2. FlattenSeq(s) = <<>>
    BY <1>5, FlatDef
  <2>3. <<>> \o e = e
    OBVIOUS
  <2> QED
    BY <1>4, <2>1, <2>2, <2>3 DEF t
<1>6. CASE n # 0
  <2> HIDE DEF f, g
  <2>1. n + 1 \in 1 .. n + 1 /\ n + 1 # 1 /\ (n + 1) - 1 = n /\ n \in 1 .. n
    BY <1>1, <1>6
  <2>2. g[n + 1] = g[n] \o e
    BY <1>1, <1>3, <2>1 DEF FlatOf
  <2>3. FlatOf(f, t, n)
    <3>1. \A i \in 1 .. n : (IF i = 1 THEN t[i] ELSE f[i - 1] \o t[i])
                              = (IF i = 1 THEN s[i] ELSE f[i - 1] \o s[i])
      BY <1>1
    <3>2. [i \in 1 .. n |-> IF i = 1 THEN t[i] ELSE f[i - 1] \o t[i]]
          = [i \in 1 .. n |-> IF i = 1 THEN s[i] ELSE f[i - 1] \o s[i]]
      BY <3>1, Zenon
    <3> QED
      BY <1>2, <3>2 DEF FlatOf
  <2>4. f[n] = g[n]
    BY <1>1, <1>3, <2>1, <2>3, FlatUnique
  <2>5. FlattenSeq(s) = f[n]
    BY <1>6, FlatDef DEF f
  <2> QED
    BY <1>4, <2>2, <2>4, <2>5 DEF t
<1> QED
  BY <1>5, <1>6

-----------------------------------------------------------------------------
(* InOrder.                                                                 *)

\* What was written, what the WritePump holds and what is in the buffer, in order.
Piped(w, f, s) == w \o f \o s

\* What was written comes first.
LEMMA PipedType ==
    ASSUME NEW M, NEW w \in Seq(M), NEW f \in Seq(M), NEW s \in Seq(M)
    PROVE  Piped(w, f, s) \in Seq(M) /\ IsPrefix(w, Piped(w, f, s))
  BY DEF Piped, IsPrefix

\* What is sent comes last.
LEMMA PipedSend ==
    ASSUME NEW M, NEW w \in Seq(M), NEW f \in Seq(M), NEW s \in Seq(M), NEW m \in M
    PROVE  Piped(w, f, Append(s, m)) = Append(Piped(w, f, s), m)
  BY DEF Piped

\* Moving the head of the buffer to the end of the frame changes nothing.
LEMMA PipedDrain ==
    ASSUME NEW M, NEW w \in Seq(M), NEW f \in Seq(M), NEW s \in Seq(M), s # <<>>
    PROVE  Piped(w, Append(f, Head(s)), Tail(s)) = Piped(w, f, s)
<1>1. w \o f \in Seq(M) /\ Head(s) \in M
  OBVIOUS
<1>2. \A u \in Seq(M) : Append(u, Head(s)) \o Tail(s) = u \o s
  OBVIOUS
<1>3. w \o Append(f, Head(s)) = Append(w \o f, Head(s))
  BY <1>1
<1> QED
  BY <1>1, <1>2, <1>3 DEF Piped

\* Nor does moving the frame to the end of what was written.
LEMMA PipedWrite ==
    ASSUME NEW M, NEW w \in Seq(M), NEW f \in Seq(M), NEW s \in Seq(M)
    PROVE  Piped(w \o f, <<>>, s) = Piped(w, f, s)
  BY DEF Piped

\* What is in it is in what was written or behind that.
LEMMA PipedContains ==
    ASSUME NEW M, NEW w \in Seq(M), NEW f \in Seq(M), NEW s \in Seq(M), NEW x,
           Contains(Piped(w, f, s), x)
    PROVE  Contains(w, x) \/ Contains(f \o s, x)
<1>1. w \o f \in Seq(M) /\ Contains((w \o f) \o s, x)
  BY DEF Piped
<1>2. Contains(w, x) \/ Contains(f, x) \/ Contains(s, x)
  BY <1>1, ConcatContains
<1> QED
  BY <1>2, ConcatContains

LEMMA AppendPrefix ==
    ASSUME NEW M, NEW u \in Seq(M), NEW v \in Seq(M), NEW m \in M, IsPrefix(u, v)
    PROVE  IsPrefix(u, Append(v, m))
  BY DEF IsPrefix

Contents == Msgs \cup {ErrorMsg}

\* Nothing was sent to a connection that has not been accepted, and nobody is about to.
Untouched ==
    \A c \in Conns : readPump[c] = "none" =>
        /\ sock[c] = "none" /\ writePump[c] = "none"
        /\ wire[c] = <<>> /\ frame[c] = <<>> /\ send[c] = <<>> /\ queued[c] = <<>>
        /\ \A g \in Callers : target[g] # c

\* A WritePump ends by closing its connection.
PumpsOpen == \A c \in Conns : writePump[c] = "done" => sock[c] # "open"

\* A ReadPump leaves a connection that is down.  A connection that nothing breaks goes
\* down when its WritePump has drained the channel that the hub closed.
Steady(c) ==
    /\ readPump[c] # "none" => sock[c] # "none"
    /\ readPump[c] \in {"leaving", "closing", "done"} => sock[c] # "open"
    /\ c \notin Fragile =>
        /\ sock[c] # "broken"
        /\ sock[c] = "closed" => writePump[c] = "done"
        /\ readPump[c] \in {"leaving", "closing", "done"} => sock[c] = "closed"
        /\ writePump[c] = "done" => closed[c] /\ frame[c] = <<>> /\ send[c] = <<>>

\* InOrder for one connection.
OrderAt(c) ==
    IF Unbroken(c)
    THEN Piped(FlattenSeq(wire[c]), frame[c], send[c]) = queued[c]
    ELSE IsPrefix(FlattenSeq(wire[c]), queued[c])

OrderInv == Untouched /\ PumpsOpen /\ \A c \in Conns : Steady(c) /\ OrderAt(c)

LEMMA ContentsType ==
    ASSUME TypeInv, NEW c \in Conns
    PROVE  /\ wire[c] \in Seq(Seq(Contents)) /\ frame[c] \in Seq(Contents)
           /\ send[c] \in Seq(Contents) /\ queued[c] \in Seq(Contents)
           /\ FlattenSeq(wire[c]) \in Seq(Contents)
<1>1. /\ wire[c] \in Seq(Seq(Contents)) /\ frame[c] \in Seq(Contents)
      /\ send[c] \in Seq(Contents) /\ queued[c] \in Seq(Contents)
  BY DEF TypeInv, TypeOK, DeliveryTypeOK, Contents
<1>2. FlattenSeq(wire[c]) \in Seq(Contents)
  BY <1>1, FlattenType
<1> QED
  BY <1>1, <1>2

\* What was written is a prefix of what was accepted, whatever the connection.
LEMMA OrderPrefix ==
    ASSUME TypeInv, NEW c \in Conns, OrderAt(c)
    PROVE  IsPrefix(FlattenSeq(wire[c]), queued[c])
  BY ContentsType, PipedType DEF OrderAt

\* A step that leaves c's messages alone, and opens no connection.
LEMMA OrderQuiet ==
    ASSUME TypeInv, NEW c \in Conns, OrderAt(c),
           wire'[c] = wire[c], queued'[c] = queued[c],
           Unbroken(c)' =>
               Unbroken(c) /\ frame'[c] = frame[c] /\ send'[c] = send[c]
    PROVE  OrderAt(c)'
<1>1. CASE Unbroken(c)'
  BY <1>1 DEF OrderAt
<1>2. CASE ~Unbroken(c)'
  BY <1>2, OrderPrefix DEF OrderAt
<1> QED
  BY <1>1, <1>2

\* A step that leaves the pumps and the socket of c alone, sends nothing to c once
\* its channel is closed, and opens no channel.
LEMMA SteadyQuiet ==
    ASSUME NEW c \in Conns, Steady(c),
           UNCHANGED <<readPump[c], writePump[c], sock[c], frame[c]>>,
           closed[c] => closed'[c] /\ send'[c] = send[c]
    PROVE  Steady(c)'
  BY DEF Steady

\* A non-blocking send to d, recorded in queued.
LEMMA OrderOffer ==
    ASSUME TypeInv, NEW d \in Conns, NEW m \in Contents, OrderAt(d),
           Offer(d, m), RecordQueued(d, m), UNCHANGED <<wire, frame, sock>>
    PROVE  OrderAt(d)'
<1>0. Unbroken(d)' = Unbroken(d)
  BY DEF Unbroken
<1>1. CASE ~Accepts(d)
  <2>1. queued' = queued
    BY <1>1 DEF RecordQueued
  <2>2. send'[d] = send[d]
    BY <1>1 DEF Accepts, Offer, TrySend, TypeInv, TypeOK
  <2> QED
    BY <1>0, <2>1, <2>2, OrderQuiet
<1>2. CASE Accepts(d)
  <2>1. queued'[d] = Append(queued[d], m) /\ send'[d] = Append(send[d], m)
    BY <1>2 DEF RecordQueued, Accepts, Offer, TrySend, TypeInv, TypeOK, DeliveryTypeOK
  <2>2. CASE Unbroken(d)
    <3>1. Piped(FlattenSeq(wire[d]), frame[d], Append(send[d], m))
            = Append(Piped(FlattenSeq(wire[d]), frame[d], send[d]), m)
      BY ContentsType, PipedSend
    <3>2. Piped(FlattenSeq(wire[d]), frame[d], send[d]) = queued[d]
      BY <2>2 DEF OrderAt
    <3> QED
      BY <1>0, <2>1, <2>2, <3>1, <3>2 DEF OrderAt
  <2>3. CASE ~Unbroken(d)
    <3>1. IsPrefix(FlattenSeq(wire[d]), Append(queued[d], m))
      BY <2>3, ContentsType, AppendPrefix DEF OrderAt
    <3> QED
      BY <1>0, <2>1, <2>3, <3>1 DEF OrderAt
  <2> QED
    BY <2>2, <2>3
<1> QED
  BY <1>1, <1>2

\* The head of the buffer becomes the end of the frame.
LEMMA OrderDrain ==
    ASSUME TypeInv, NEW c \in Conns, OrderAt(c), TakeMessage(c) \/ DrainOne(c),
           UNCHANGED <<wire, queued>>
    PROVE  OrderAt(c)'
<1>1. /\ send[c] # <<>> /\ send'[c] = Tail(send[c]) /\ sock' = sock
      /\ frame'[c] = Append(frame[c], Head(send[c]))
  <2>1. CASE TakeMessage(c)
    <3>1. frame[c] = <<>> /\ frame'[c] = <<Head(send[c])>>
      BY <2>1 DEF TakeMessage, AtSelect, TypeInv, TypeOK
    <3>2. Append(<<>>, Head(send[c])) = <<Head(send[c])>>
      OBVIOUS
    <3> QED
      BY <2>1, <3>1, <3>2 DEF TakeMessage, TypeInv, TypeOK
  <2>2. CASE DrainOne(c)
    BY <2>2 DEF DrainOne, TypeInv, TypeOK
  <2> QED
    BY <2>1, <2>2
<1>2. Piped(FlattenSeq(wire[c]), Append(frame[c], Head(send[c])), Tail(send[c]))
        = Piped(FlattenSeq(wire[c]), frame[c], send[c])
  BY <1>1, ContentsType, PipedDrain
<1>3. Unbroken(c)' = Unbroken(c)
  BY <1>1 DEF Unbroken
<1>4. CASE Unbroken(c)
  BY <1>1, <1>2, <1>3, <1>4 DEF OrderAt
<1>5. CASE ~Unbroken(c)
  BY <1>1, <1>3, <1>5, OrderQuiet
<1> QED
  BY <1>4, <1>5

\* The frame becomes the end of what was written; a connection that nothing breaks is
\* open while its WritePump has a frame.
LEMMA OrderWrite ==
    ASSUME TypeInv, Untouched, NEW c \in Conns, Steady(c), OrderAt(c), Write(c)
    PROVE  OrderAt(c)'
<1>1. UNCHANGED <<send, queued, sock>> /\ frame'[c] = <<>>
  BY DEF Write, WriteFrame, TypeInv, TypeOK
<1>2. Unbroken(c)' = Unbroken(c)
  BY <1>1 DEF Unbroken
<1>3. CASE sock[c] = "open"
  <2>1. wire'[c] = Append(wire[c], frame[c])
    BY <1>3 DEF Write, TypeInv, DeliveryTypeOK
  <2>2. FlattenSeq(Append(wire[c], frame[c])) = FlattenSeq(wire[c]) \o frame[c]
    BY ContentsType, FlattenAppend
  <2>3. Piped(FlattenSeq(wire[c]) \o frame[c], <<>>, send[c])
          = Piped(FlattenSeq(wire[c]), frame[c], send[c])
    BY ContentsType, PipedWrite
  <2>4. Unbroken(c)
    BY <1>3 DEF Unbroken
  <2> QED
    BY <1>1, <1>2, <2>1, <2>2, <2>3, <2>4 DEF OrderAt
<1>4. CASE sock[c] # "open"
  <2>1. writePump[c] = "running" /\ readPump[c] # "none" /\ sock[c] # "closed"
    BY DEF Write, WriteFrame, FrameReady, Untouched
  <2>2. sock[c] \in {"none", "broken"}
    BY <1>4, <2>1 DEF TypeInv, TypeOK
  <2>3. ~Unbroken(c)
    BY <2>1, <2>2 DEF Steady, Unbroken
  <2> QED
    BY <1>1, <1>2, <1>4, <2>3, OrderQuiet DEF Write
<1> QED
  BY <1>3, <1>4

\* The steps of the hub and of the pumps.
LEMMA OrderHub ==
    ASSUME TypeInv, OrderInv, HubStep, UNCHANGED deliveryVars
    PROVE  OrderInv'
<1>1. UNCHANGED <<wire, queued>>
  BY DEF deliveryVars
<1>2. CASE RunRegister \/ RunUnregister
  <2>1. UNCHANGED <<send, frame, readPump, writePump, sock, target>>
    BY <1>2 DEF RunRegister, RunUnregister
  <2>2. \A c \in Conns : closed[c] => closed'[c]
    BY <1>2 DEF RunRegister, RunUnregister, CloseSend, TypeInv, TypeOK
  <2>3. \A c \in Conns : Steady(c)'
    BY <2>1, <2>2, SteadyQuiet DEF OrderInv
  <2>4. \A c \in Conns : OrderAt(c)'
    BY <1>1, <2>1, OrderQuiet DEF OrderInv, Unbroken
  <2> QED
    BY <1>1, <2>1, <2>3, <2>4 DEF OrderInv, Untouched, PumpsOpen
<1>3. ASSUME NEW d \in Conns, LeaveLoop(d) \/ Unregister(d) \/ CloseConn(d) \/ OpenFrame(d)
                              \/ (d \in Fragile /\ PeerGone(d))
      PROVE  OrderInv'
  <2>1. /\ UNCHANGED <<send, closed, frame, target>>
        /\ \A c \in Conns : /\ readPump'[c] = "none" => readPump[c] = "none"
                            /\ c # d => UNCHANGED <<readPump[c], writePump[c], sock[c]>>
                            /\ sock'[c] = "open" => sock[c] = "open"
                            /\ writePump'[c] = "done" => writePump[c] = "done"
    BY <1>3 DEF LeaveLoop, ReadError, Unregister, CloseConn, OpenFrame, PeerGone, TypeInv,
                TypeOK
  <2>2. readPump[d] # "none"
    BY <1>3 DEF LeaveLoop, ReadError, MayCall, Unregister, CloseConn, OpenFrame, PeerGone,
                OrderInv, Untouched
  <2>3. readPump'[d] # "none"
    BY <1>3, <2>1, <2>2
  <2>4. Untouched'
    BY <1>1, <2>1, <2>3 DEF OrderInv, Untouched
  <2>5. PumpsOpen'
    BY <2>1 DEF OrderInv, PumpsOpen
  <2>6. \A c \in Conns : OrderAt(c)'
    BY <1>1, <2>1, OrderQuiet DEF OrderInv, Unbroken
  <2>7. \A c \in Conns \ {d} : Steady(c)'
    BY <2>1, SteadyQuiet DEF OrderInv
  <2>8. Steady(d)'
    <3>1. Steady(d)
      BY DEF OrderInv
    <3>2. CASE LeaveLoop(d)
      BY <2>1, <3>1, <3>2 DEF LeaveLoop, ReadError, Steady, TypeInv, TypeOK
    <3>3. CASE Unregister(d)
      BY <2>1, <3>1, <3>3 DEF Unregister, Steady, TypeInv, TypeOK
    <3>4. CASE CloseConn(d)
      BY <2>1, <3>1, <3>4 DEF CloseConn, Steady, TypeInv, TypeOK
    <3>5. CASE OpenFrame(d)
      BY <2>1, <3>1, <3>5 DEF OpenFrame, Steady, TypeInv, TypeOK
    <3>6. CASE d \in Fragile /\ PeerGone(d)
      BY <2>1, <3>1, <3>6 DEF PeerGone, Steady, TypeInv, TypeOK
    <3> QED
      BY <1>3, <3>2, <3>3, <3>4, <3>5, <3>6
  <2> QED
    BY <2>4, <2>5, <2>6, <2>7, <2>8 DEF OrderInv
<1>4. ASSUME NEW d \in Conns, NextWriterFails(d) \/ WriteFails(d) \/ WriteClose(d) \/ PingFails(d)
      PROVE  OrderInv'
  <2>1. /\ UNCHANGED <<send, closed, readPump, target>> /\ PumpReturns(d)
        /\ writePump[d] \in {"running", "received"}
    BY <1>4 DEF NextWriterFails, WriteFails, WriteClose, PingFails, FrameReady, AtSelect
  <2>2. \A c \in Conns :
          /\ c # d => UNCHANGED <<frame[c], writePump[c], sock[c]>>
          /\ c = d => sock'[c] = "closed" /\ writePump'[c] = "done" /\ frame'[c] = <<>>
    BY <2>1 DEF PumpReturns, TypeInv, TypeOK
  <2>3. readPump[d] # "none"
    BY <2>1 DEF OrderInv, Untouched
  <2>4. Untouched' /\ PumpsOpen'
    BY <1>1, <2>1, <2>2, <2>3 DEF OrderInv, Untouched, PumpsOpen
  <2>5. d \notin Fragile => closed[d] /\ frame[d] = <<>> /\ send[d] = <<>>
    <3>1. WriteClose(d) \/ sock[d] # "open"
      BY <1>4 DEF NextWriterFails, WriteFails, PingFails
    <3>2. CASE WriteClose(d)
      BY <3>2 DEF WriteClose, AtSelect
    <3>3. CASE sock[d] # "open"
      <4>1. sock[d] \in {"broken", "closed"}
        BY <2>3, <3>3 DEF OrderInv, Steady, TypeInv, TypeOK
      <4> QED
        BY <2>1, <4>1 DEF OrderInv, Steady
    <3> QED
      BY <3>1, <3>2, <3>3
  <2>6. Steady(d)'
    BY <2>1, <2>2, <2>5 DEF Steady
  <2>7. \A c \in Conns \ {d} : Steady(c)'
    BY <2>1, <2>2, SteadyQuiet DEF OrderInv
  <2>8. \A c \in Conns : OrderAt(c)'
    BY <1>1, <2>1, <2>2, <2>5, OrderQuiet DEF OrderInv, Unbroken
  <2> QED
    BY <2>4, <2>6, <2>7, <2>8 DEF OrderInv
<1>5. ASSUME NEW d \in Conns, TakeMessage(d) \/ DrainOne(d) PROVE OrderInv'
  <2>1. /\ UNCHANGED <<closed, readPump, sock, target>> /\ send[d] # <<>>
        /\ \A c \in Conns : /\ c # d => UNCHANGED <<frame[c], send[c], writePump[c]>>
                            /\ writePump'[c] = "done" => writePump[c] = "done"
    BY <1>5 DEF TakeMessage, DrainOne, TypeInv, TypeOK
  <2>2. readPump[d] # "none"
    BY <2>1 DEF OrderInv, Untouched
  <2>3. Untouched' /\ PumpsOpen'
    BY <1>1, <2>1, <2>2 DEF OrderInv, Untouched, PumpsOpen
  <2>4. OrderAt(d)'
    BY <1>1, <1>5, OrderDrain DEF OrderInv
  <2>5. \A c \in Conns \ {d} : OrderAt(c)'
    BY <1>1, <2>1, OrderQuiet DEF OrderInv, Unbroken
  <2>6. Steady(d)'
    <3>1. d \notin Fragile => writePump[d] # "done" /\ sock[d] # "closed"
      BY <2>1 DEF OrderInv, Steady
    <3> QED
      BY <2>1, <3>1 DEF OrderInv, Steady
  <2>7. \A c \in Conns \ {d} : Steady(c)'
    BY <2>1, SteadyQuiet DEF OrderInv
  <2> QED
    BY <2>3, <2>4, <2>5, <2>6, <2>7 DEF OrderInv
<1> QED
  BY <1>2, <1>3, <1>4, <1>5, BoundsAssumption DEF HubStep

\* A step that sends m to d, or sends nothing, and touches no connection otherwise.
LEMMA OrderSend ==
    ASSUME TypeInv, OrderInv, NEW d \in Conns, NEW m \in Contents, readPump[d] # "none",
           Offer(d, m), RecordQueued(d, m),
           UNCHANGED <<wire, frame, readPump, writePump, sock, closed>>,
           \A g \in Callers : target'[g] \in {target[g], NoConn}
    PROVE  OrderInv'
<1>1. \A c \in Conns \ {d} : UNCHANGED <<send[c], queued[c]>>
  BY DEF Offer, RecordQueued, TypeInv, TypeOK, DeliveryTypeOK
<1>2. Untouched' /\ PumpsOpen'
  BY <1>1, NoConnAssumption DEF OrderInv, Untouched, PumpsOpen
<1>3. OrderAt(d)'
  BY OrderOffer DEF OrderInv
<1>4. \A c \in Conns \ {d} : OrderAt(c)'
  BY <1>1, OrderQuiet DEF OrderInv, Unbroken
<1>5. closed[d] => send'[d] = send[d]
  BY DEF Offer
<1>6. \A c \in Conns : Steady(c)'
  BY <1>1, <1>5, SteadyQuiet DEF OrderInv
<1> QED
  BY <1>2, <1>3, <1>4, <1>6 DEF OrderInv

\* A lookup finds a connection that has been accepted.
LEMMA OrderLookup ==
    ASSUME TypeInv, Accounted, OrderInv, NEW g \in Callers, NEW u \in Users, Lookup(g, u),
           UNCHANGED <<wire, queued>>
    PROVE  OrderInv'
<1>1. UNCHANGED <<send, closed, frame, readPump, writePump, sock>>
  BY DEF Lookup
<1>2. \A h \in Callers : target'[h] \in {target[h], clients[u]}
  BY DEF Lookup, TypeInv, TypeOK
<1>3. \A c \in Conns : readPump[c] = "none" => clients[u] # c
  BY NoConnAssumption DEF Accounted, Mapped
<1>4. Untouched' /\ PumpsOpen'
  BY <1>1, <1>2, <1>3 DEF OrderInv, Untouched, PumpsOpen
<1>5. \A c \in Conns : Steady(c)' /\ OrderAt(c)'
  BY <1>1, SteadyQuiet, OrderQuiet DEF OrderInv, Unbroken
<1> QED
  BY <1>4, <1>5 DEF OrderInv

LEMMA OrderUnchanged ==
    ASSUME TypeInv, OrderInv,
           UNCHANGED <<wire, queued, send, closed, frame, readPump, writePump, sock, target>>
    PROVE  OrderInv'
<1>1. Untouched' /\ PumpsOpen'
  BY DEF OrderInv, Untouched, PumpsOpen
<1>2. \A c \in Conns : Steady(c)' /\ OrderAt(c)'
  BY SteadyQuiet, OrderQuiet DEF OrderInv, Unbroken
<1> QED
  BY <1>1, <1>2 DEF OrderInv

LEMMA OrderServe ==
    ASSUME TypeInv, OrderInv, NEW d \in Conns, Serve(d)
    PROVE  OrderInv'
<1>1. /\ UNCHANGED <<wire, queued, send, closed, frame, target>> /\ readPump[d] = "none"
      /\ \A c \in Conns :
           IF c = d THEN readPump'[c] = "reading" /\ writePump'[c] = "running" /\ sock'[c] = "open"
           ELSE UNCHANGED <<readPump[c], writePump[c], sock[c]>>
  BY DEF Serve, ServeWS, TypeInv, TypeOK
<1>2. Untouched' /\ PumpsOpen'
  BY <1>1 DEF OrderInv, Untouched, PumpsOpen
<1>3. \A c \in Conns \ {d} : Steady(c)' /\ OrderAt(c)'
  BY <1>1, SteadyQuiet, OrderQuiet DEF OrderInv, Unbroken
<1>4. Steady(d)' /\ OrderAt(d)'
  <2>1. wire[d] = <<>> /\ frame[d] = <<>> /\ send[d] = <<>> /\ queued[d] = <<>>
    BY <1>1 DEF OrderInv, Untouched
  <2>2. FlattenSeq(<<>>) = <<>>
    BY FlatDef
  <2>3. Piped(<<>>, <<>>, <<>>) = <<>> /\ IsPrefix(<<>>, <<>>)
    BY DEF Piped, IsPrefix
  <2> QED
    BY <1>1, <2>1, <2>2, <2>3 DEF OrderAt, Steady
<1> QED
  BY <1>2, <1>3, <1>4 DEF OrderInv

LEMMA OrderStep ==
    ASSUME TypeInv, Accounted, OrderInv, [DeliveryNext]_vars
    PROVE  OrderInv'
<1>1. /\ target \in [Callers -> Conns \cup {NoConn}] /\ Conns \subseteq Callers
      /\ \A g \in Callers : target[g] # NoConn => readPump[target[g]] # "none"
  BY CallersAssumption DEF TypeInv, TypeOK, OrderInv, Untouched
<1>2. CASE HubStep /\ UNCHANGED deliveryVars
  BY <1>2, OrderHub
<1>3. ASSUME NEW c \in Conns, Write(c) PROVE OrderInv'
  <2>1. /\ UNCHANGED <<queued, send, closed, readPump, writePump, sock, target>>
        /\ frame[c] # <<>> /\ frame'[c] = <<>>
        /\ \A d \in Conns \ {c} : UNCHANGED <<wire[d], frame[d]>>
    BY <1>3 DEF Write, WriteFrame, FrameReady, TypeInv, TypeOK, DeliveryTypeOK
  <2>2. Untouched' /\ PumpsOpen'
    BY <2>1 DEF OrderInv, Untouched, PumpsOpen
  <2>3. \A d \in Conns \ {c} : Steady(d)' /\ OrderAt(d)'
    BY <2>1, SteadyQuiet, OrderQuiet DEF OrderInv, Unbroken
  <2>4. Steady(c)' /\ OrderAt(c)'
    BY <1>3, <2>1, OrderWrite DEF OrderInv, Steady
  <2> QED
    BY <2>2, <2>3, <2>4 DEF OrderInv
<1>4. ASSUME NEW c \in Conns, ReceiveBad(c) PROVE OrderInv'
  BY <1>1, <1>4, OrderSend DEF ReceiveBad, SendError, MayCall, Contents
<1>5. ASSUME NEW c \in Conns, Handler(c) PROVE OrderInv'
  <2>1. CASE Persist(c) \/ Store(c)
    BY <2>1, OrderUnchanged DEF Persist, Store, hubVars
  <2>2. CASE Route(c)
    <3>1. Recipient(job[c].msg) \in Users
      BY <2>2, JobMsg, RecipientType DEF TypeInv, Route, Idle
    <3> QED
      BY <1>1, <2>2, <3>1, OrderLookup DEF Route
  <2>3. CASE Send(c)
    <3>1. job[c].msg \in Contents
      BY <2>3, JobMsg DEF TypeInv, Send, Idle, Contents
    <3>2. target[c] \in Conns /\ readPump[target[c]] # "none"
      BY <1>1, <2>3 DEF Send, Push
    <3>3. \A g \in Callers : target'[g] \in {target[g], NoConn}
      BY <1>1, <2>3 DEF Send, Push
    <3> QED
      BY <2>3, <3>1, <3>2, <3>3, OrderSend DEF Send, Push
  <2> QED
    BY <1>5, <2>1, <2>2, <2>3 DEF Handler
<1>6. ASSUME NEW c \in Conns, DeliverOffline(c) PROVE OrderInv'
  <2>1. Worker[c] \in Callers /\ UserOf[c] \in Users
    BY WorkerAssumption, UserOfAssumption
  <2>2. CASE Load(c) \/ Clear(c)
    BY <2>2, OrderUnchanged DEF Load, Clear, hubVars
  <2>3. CASE DeliverLookup(c)
    BY <2>1, <2>3, OrderLookup DEF DeliverLookup
  <2>4. CASE DeliverPush(c)
    <3> DEFINE m == worker[c].messages[worker[c].next]
    <3>1. m \in Contents
      BY <2>4 DEF DeliverPush, InLoop, TypeInv, DeliveryTypeOK, Contents
    <3>2. target[Worker[c]] \in Conns /\ readPump[target[Worker[c]]] # "none"
      BY <1>1, <2>1, <2>4 DEF DeliverPush, Push
    <3>3. \A g \in Callers : target'[g] \in {target[g], NoConn}
      BY <1>1, <2>4 DEF DeliverPush, Push
    <3>4. /\ Offer(target[Worker[c]], m) /\ RecordQueued(target[Worker[c]], m)
          /\ UNCHANGED <<wire, frame, readPump, writePump, sock, closed>>
      BY <2>4 DEF DeliverPush, Push
    <3> HIDE DEF m
    <3> QED
      BY <3>1, <3>2, <3>3, <3>4, OrderSend
  <2> QED
    BY <1>6, <2>2, <2>3, <2>4 DEF DeliverOffline
<1>7. CASE \/ \E c \in Conns, m \in Msgs : Receive(c, m)
           \/ \E u \in Users : Expire(u)
           \/ UNCHANGED vars
  BY <1>7, OrderUnchanged DEF Receive, Expire, vars, hubVars, deliveryVars
<1> QED
  BY <1>2, <1>3, <1>4, <1>5, <1>6, <1>7, OrderServe DEF DeliveryNext

LEMMA OrderInvHolds == DeliverySpec => []OrderInv
<1>1. DeliveryInit => OrderInv
  <2> SUFFICES ASSUME DeliveryInit PROVE OrderInv
    OBVIOUS
  <2>1. Untouched /\ PumpsOpen
    BY NoConnAssumption DEF DeliveryInit, Init, Untouched, PumpsOpen
  <2>2. FlattenSeq(<<>>) = <<>> /\ IsPrefix(<<>>, <<>>)
    BY FlatDef DEF IsPrefix
  <2>3. \A c \in Conns : Steady(c) /\ OrderAt(c)
    BY <2>2 DEF DeliveryInit, Init, OrderAt, Steady, Piped
  <2> QED
    BY <2>1, <2>3 DEF OrderInv
<1>2. TypeInv /\ Accounted /\ OrderInv /\ [DeliveryNext]_vars => OrderInv'
  BY OrderStep
<1> QED
  BY <1>1, <1>2, TypeInvHolds, DeliveryAccounted, PTL DEF DeliverySpec

\* What was written to a connection that nothing broke, what its WritePump holds and
\* what is buffered are what its channel accepted, in that order; on one that broke,
\* what was written is a prefix.
THEOREM InOrderHolds == DeliverySpec => []InOrder
<1>1. OrderInv => InOrder
  BY DEF OrderInv, OrderAt, InOrder, Piped
<1> QED
  BY <1>1, OrderInvHolds, PTL

-----------------------------------------------------------------------------
(* LostOnlyWithConnection, from the two.                                    *)

\* What the channel of a connection that nothing broke accepted is on its wire, or with
\* its WritePump, which runs.
LEMMA AcceptedIsSafe ==
    ASSUME TypeInv, OrderInv, NEW c \in Conns, NEW m, Contains(queued[c], m)
    PROVE  SafeWith(m, c)
<1>1. CASE Unbroken(c)
  <2>1. wire[c] \in Seq(Seq(Contents)) /\ frame[c] \in Seq(Contents) /\ send[c] \in Seq(Contents)
    BY ContentsType
  <2>2. Contains(Piped(FlattenSeq(wire[c]), frame[c], send[c]), m)
    BY <1>1 DEF OrderInv, OrderAt
  <2>3. Contains(FlattenSeq(wire[c]), m) \/ Contains(frame[c] \o send[c], m)
    BY <2>1, <2>2, FlattenType, PipedContains
  <2>4. Contains(FlattenSeq(wire[c]), m) => OnWire(m, c)
    BY <2>1, FlattenType DEF OnWire
  <2>5. writePump[c] = "done" => ~Contains(frame[c] \o send[c], m)
    <3> SUFFICES ASSUME writePump[c] = "done" PROVE ~Contains(frame[c] \o send[c], m)
      OBVIOUS
    <3>1. frame[c] = <<>> /\ send[c] = <<>>
      BY <1>1 DEF OrderInv, PumpsOpen, Steady, Unbroken
    <3>2. ~Contains(<<>> \o <<>>, m)
      BY DEF Contains
    <3> QED
      BY <3>1, <3>2
  <2> QED
    BY <2>3, <2>4, <2>5 DEF SafeWith
<1>2. CASE ~Unbroken(c)
  BY <1>2 DEF SafeWith
<1> QED
  BY <1>1, <1>2

\* A handler gives no text up: unless the call to store it failed or a connection of its
\* addressee broke, it is in a handler's hands, has been stored, or is safe with a
\* connection of its addressee, whether or not it was saved.
THEOREM LostOnlyWithConnectionHolds == DeliverySpec => []LostOnlyWithConnection
<1>1. TypeInv /\ OrderInv /\ HandledSomewhere => LostOnlyWithConnection
  BY AcceptedIsSafe DEF HandledSomewhere, LostOnlyWithConnection
<1> QED
  BY <1>1, TypeInvHolds, OrderInvHolds, HandledSomewhereHolds, PTL

\* DeliveredOrKept, which the comment of handleTextMessage promises, holds of a text
\* unless the call to store it failed, if nothing breaks a connection of its addressee:
\* it is in a handler's hands, stored, shown, or with a WritePump that will come to it.
THEOREM DeliveredUnlessBroken ==
    DeliverySpec =>
        [](\A m \in posted :
             /\ IsText(m) /\ m \notin unstored
             /\ \A c \in Conns : UserOf[c] = Recipient(m) => Unbroken(c)
             => \/ m \in stored
                \/ \E c \in Conns : job[c] # Idle /\ job[c].msg = m
                \/ m \in Shown(Recipient(m))
                \/ \E c \in Conns :
                    /\ UserOf[c] = Recipient(m) /\ writePump[c] # "done"
                    /\ Contains(frame[c] \o send[c], m))
<1>1. TypeInv /\ LostOnlyWithConnection =>
        \A m \in posted :
             /\ IsText(m) /\ m \notin unstored
             /\ \A c \in Conns : UserOf[c] = Recipient(m) => Unbroken(c)
             => \/ m \in stored
                \/ \E c \in Conns : job[c] # Idle /\ job[c].msg = m
                \/ m \in Shown(Recipient(m))
                \/ \E c \in Conns :
                    /\ UserOf[c] = Recipient(m) /\ writePump[c] # "done"
                    /\ Contains(frame[c] \o send[c], m)
  <2>1. TypeInv => posted \subseteq Msgs
    BY DEF TypeInv, DeliveryTypeOK
  <2> QED
    BY <2>1 DEF LostOnlyWithConnection, SafeWith, Shown
<1> QED
  BY <1>1, TypeInvHolds, LostOnlyWithConnectionHolds, PTL

-----------------------------------------------------------------------------
(* Frames and panics.                                                       *)

FramesBounded == \A c \in Conns : \A i \in 1 .. Len(wire[c]) : Len(wire[c][i]) \in 1 .. SendCap + 1

\* No empty frame is written, and none with more messages than a full send channel and the
\* one received before it.
THEOREM FramesBoundedHolds == DeliverySpec => []FramesBounded
<1>1. DeliveryInit => FramesBounded
  BY DEF DeliveryInit, FramesBounded
<1>2. TypeInv /\ (\A c \in Conns : FrameFits(c)) /\ FramesBounded /\ [DeliveryNext]_vars
        => FramesBounded'
  <2> SUFFICES ASSUME TypeInv, \A c \in Conns : FrameFits(c), FramesBounded, [DeliveryNext]_vars
               PROVE  FramesBounded'
    OBVIOUS
  <2>1. ASSUME NEW d \in Conns, Write(d) PROVE FramesBounded'
    <3> DEFINE n == Len(wire[d])
    <3>1. /\ wire[d] \in Seq(Seq(Contents)) /\ frame[d] \in Seq(Contents) /\ left[d] \in Nat
          /\ SendCap \in Nat /\ n \in Nat
      BY ContentsType, CapAssumption DEF TypeInv, TypeOK
    <3>2. Len(frame[d]) \in 1 .. SendCap + 1
      BY <2>1, <3>1 DEF Write, WriteFrame, FrameReady, FrameFits
    <3>3. /\ \A c \in Conns \ {d} : wire'[c] = wire[c]
          /\ wire'[d] \in {wire[d], Append(wire[d], frame[d])}
      BY <2>1 DEF Write, TypeInv, DeliveryTypeOK
    <3>4. /\ Len(Append(wire[d], frame[d])) = n + 1
          /\ \A i \in 1 .. n : Append(wire[d], frame[d])[i] = wire[d][i]
          /\ Append(wire[d], frame[d])[n + 1] = frame[d]
      BY <3>1
    <3> DEFINE B == 1 .. SendCap + 1
               w == Append(wire[d], frame[d])
    <3>5. \A i \in 1 .. n : Len(wire[d][i]) \in B
      BY DEF FramesBounded
    <3>6. \A i \in 1 .. Len(w) : Len(w[i]) \in B
      <4> HIDE DEF n, w, B
      <4> SUFFICES ASSUME NEW i \in 1 .. Len(w) PROVE Len(w[i]) \in B
        OBVIOUS
      <4>1. Len(w) = n + 1 /\ w[n + 1] = frame[d] /\ \A k \in 1 .. n : w[k] = wire[d][k]
        BY <3>4 DEF w
      <4>2. CASE i \in 1 .. n
        BY <3>5, <4>1, <4>2
      <4>3. CASE i = n + 1
        BY <3>2, <4>1, <4>3 DEF B
      <4> QED
        BY <3>1, <4>1, <4>2, <4>3
    <3> QED
      BY <3>3, <3>5, <3>6 DEF FramesBounded
  <2>2. wire' = wire \/ \E d \in Conns : Write(d)
    BY DEF DeliveryNext, Serve, ReceiveBad, Handler, Persist, Route, Send, Store, DeliverOffline,
           Load, DeliverLookup, DeliverPush, Clear, Receive, Expire, vars, deliveryVars
  <2> QED
    BY <2>1, <2>2 DEF FramesBounded
<1>3. (\A c \in Conns : FrameInv(c)) => \A c \in Conns : FrameFits(c)
  BY DEF FrameInv
<1> QED
  BY <1>1, <1>2, <1>3, TypeInvHolds, DeliveryRefinesHub, FrameInvHolds, PTL DEF DeliverySpec

\* The channel of c was closed because the connection broke or its user connected again.
Retired(c) ==
    /\ closed[c]
    /\ \/ ~Unbroken(c)
       \/ \E d \in Conns \ {c} : UserOf[d] = UserOf[c] /\ readPump[d] # "none"

RetiredInv ==
    /\ \A c \in Conns : closed[c] => Retired(c)
    /\ SendReturns \/ \E c \in Conns : closed[c]

LEMMA RetiredStep ==
    ASSUME TypeInv, IInv, OrderInv, RetiredInv, [DeliveryNext]_vars
    PROVE  RetiredInv'
<1>0. /\ closed \in [Conns -> BOOLEAN] /\ UserOf \in [Conns -> Users]
      /\ target \in [Callers -> Conns \cup {NoConn}] /\ Conns \subseteq Callers
  BY UserOfAssumption, CallersAssumption DEF IInv, TypeOK
<1>1. \A c \in Conns : readPump'[c] = "none" => readPump[c] = "none"
  <2> SUFFICES ASSUME [Next]_hubVars
               PROVE  \A c \in Conns : readPump'[c] = "none" => readPump[c] = "none"
    BY HubStepOf DEF TypeInv
  <2>1. CASE RunRegister \/ RunUnregister
    BY <2>1 DEF RunRegister, RunUnregister
  <2>2. ASSUME NEW d \in Conns, ServeWS(d) \/ Unregister(d)
        PROVE  \A c \in Conns : readPump'[c] = "none" => readPump[c] = "none"
    BY <2>2 DEF ServeWS, Unregister, IInv, TypeOK
  <2> QED
    BY <2>1, <2>2, QuietStep DEF Next, Run, ReadPump
<1>8. \A c \in Conns : closed[c] /\ ~Unbroken(c) => ~Unbroken(c)'
  <2> SUFFICES ASSUME [Next]_hubVars, NEW c \in Conns, closed[c], sock[c] # "open"
               PROVE  sock'[c] # "open"
    BY HubStepOf DEF TypeInv, Unbroken
  <2>1. ASSUME NEW d \in Conns, ServeWS(d) PROVE sock'[c] # "open"
    <3>1. readPump[d] = "none" /\ sock' = [sock EXCEPT ![d] = "open"]
      BY <2>1 DEF ServeWS
    <3>2. c # d
      BY <3>1 DEF IInv, Accounted
    <3> QED
      BY <3>1, <3>2 DEF IInv, TypeOK
  <2>2. CASE \/ Run \/ UNCHANGED hubVars
             \/ \E g \in Callers, u \in Users : Lookup(g, u)
             \/ \E g \in Callers, m \in Msgs : Push(g, m)
             \/ \E u \in Users, m \in Msgs : Broadcast(u, m)
    BY <2>2 DEF Run, RunRegister, RunUnregister, RunBroadcast, Lookup, Push, Broadcast, hubVars
  <2>3. ASSUME NEW d \in Conns, ReadPump(d) \/ WritePump(d) \/ PeerGone(d)
        PROVE  sock'[c] # "open"
    <3>1. UNCHANGED sock \/ \E v \in {"broken", "closed"} : sock' = [sock EXCEPT ![d] = v]
      BY <2>3 DEF ReadPump, ReadError, SendError, Unregister, CloseConn, WritePump,
                  TakeMessage, OpenFrame, NextWriterFails, DrainOne, WriteFrame, WriteFails,
                  WriteClose, PingFails, PeerGone, PumpReturns
    <3> QED
      BY <3>1 DEF IInv, TypeOK
  <2> QED
    BY <2>1, <2>2, <2>3 DEF Next
<1>2. ASSUME RunRegister PROVE RetiredInv'
  <2>1. PICK d \in Conns :
          /\ d = register[1] /\ register # <<>> /\ readPump[d] # "none" /\ ~Mapped(d)
          /\ closed' = [b \in Conns |-> closed[b] \/ (Mapped(b) /\ UserOf[b] = UserOf[d])]
          /\ crash' = crash
    BY <1>2, RegisterEffect
  <2>2. \A b \in Conns : closed'[b] => Retired(b)'
    BY <1>0, <1>1, <1>8, <2>1 DEF RetiredInv, Retired
  <2> QED
    BY <2>1, <2>2 DEF RetiredInv, SendReturns
<1>3. ASSUME RunUnregister PROVE RetiredInv'
  <2>1. PICK d \in Conns :
          /\ readPump[d] \in {"closing", "done"}
          /\ IF Mapped(d)
             THEN closed' = [b \in Conns |-> closed[b] \/ b = d]
             ELSE UNCHANGED closed
          /\ crash' = crash
    BY <1>3, UnregisterEffect
  <2>2. ~Unbroken(d)' \/ closed[d]
    BY <1>3, <2>1 DEF OrderInv, Steady, Unbroken, RunUnregister
  <2>3. \A b \in Conns : closed'[b] => closed[b] \/ (b = d /\ closed'[d])
    BY <1>0, <2>1
  <2>4. \A b \in Conns : closed'[b] => Retired(b)'
    BY <1>1, <1>8, <2>2, <2>3 DEF RetiredInv, Retired
  <2>5. \A b \in Conns : closed[b] => closed'[b]
    BY <1>0, <2>1
  <2> QED
    BY <2>1, <2>4, <2>5 DEF RetiredInv, SendReturns
<1>4. ASSUME UNCHANGED closed,
             crash' = crash \/ \E c \in Conns : closed[c]
      PROVE  RetiredInv'
  BY <1>1, <1>4, <1>8 DEF RetiredInv, Retired, SendReturns
<1>5. CASE HubStep /\ UNCHANGED deliveryVars
  BY <1>2, <1>3, <1>4, <1>5
     DEF HubStep, LeaveLoop, ReadError, Unregister, CloseConn, TakeMessage, OpenFrame,
         NextWriterFails, DrainOne, WriteFails, WriteClose, PingFails, PeerGone
<1>6. ASSUME NEW c \in Conns, ReceiveBad(c) \/ Send(c) \/ DeliverPush(c) PROVE RetiredInv'
  <2>1. closed' = closed
    BY <1>6 DEF ReceiveBad, SendError, Send, DeliverPush, Push
  <2>2. \E d \in Conns : \E m : Offer(d, m)
    <3>1. Worker[c] \in Callers
      BY WorkerAssumption
    <3> QED
      BY <1>0, <1>6, <3>1 DEF ReceiveBad, SendError, Send, DeliverPush, Push
  <2>3. crash' = crash \/ \E d \in Conns : closed[d]
    BY <2>2 DEF Offer
  <2> QED
    BY <1>4, <2>1, <2>3
<1>7. CASE \/ \E c \in Conns : Serve(c) \/ Write(c) \/ Persist(c) \/ Route(c) \/ Store(c)
                               \/ Load(c) \/ DeliverLookup(c) \/ Clear(c)
           \/ \E c \in Conns, m \in Msgs : Receive(c, m)
           \/ \E u \in Users : Expire(u)
           \/ UNCHANGED vars
  BY <1>4, <1>7 DEF Serve, ServeWS, Write, WriteFrame, Persist, Route, Lookup, Store, Load,
                    DeliverLookup, Clear, Receive, Expire, vars, hubVars
<1> QED
  BY <1>5, <1>6, <1>7 DEF DeliveryNext, Handler, DeliverOffline

\* The server goes down in a send only after it closed a channel, and it closes the channel
\* of a connection only when that connection broke or its user connected again:
\* SendReturns fails in no other way.
THEOREM PanicsExplained ==
    DeliverySpec => [](SendReturns \/ \E c \in Conns : Retired(c))
<1>1. DeliveryInit => RetiredInv
  BY DEF DeliveryInit, Init, RetiredInv, SendReturns
<1>2. TypeInv /\ IInv /\ OrderInv /\ RetiredInv /\ [DeliveryNext]_vars => RetiredInv'
  BY RetiredStep
<1>3. RetiredInv => SendReturns \/ \E c \in Conns : Retired(c)
  BY DEF RetiredInv
<1> QED
  BY <1>1, <1>2, <1>3, TypeInvHolds, OrderInvHolds, DeliveryRefinesHub, IInvHolds, PTL
     DEF DeliverySpec

=============================================================================
