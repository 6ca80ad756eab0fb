----------------------------- MODULE HubProofs -----------------------------
(***************************************************************************)
(* Proofs about Hub, for every number of users, connections and callers    *)
(* and every channel capacity.  The inductive invariant is IInv: the type  *)
(* invariant, Accounted, NoDoubleClose and UnregisterOwn.  Accounted makes *)
(* every close of a channel the first one, which is NoDoubleClose, and     *)
(* every connection that enters the map a fresh one, which is what the     *)
(* refinement of Presence needs; UnregisterOwn is needed for NoEviction.   *)
(***************************************************************************)
EXTENDS Hub, TLAPS

\* Only a connection whose ReadPump has run its deferred hub.Unregister is in
\* the unregister channel.
UnregisterOwn ==
    \A i \in 1 .. Len(unregister) :
        readPump[unregister[i]] \in {"closing", "done"}

IInv == TypeOK /\ Accounted /\ NoDoubleClose /\ UnregisterOwn

-----------------------------------------------------------------------------
(* What a queue holds after a receive and after a send.                     *)

\* Receiving from a channel leaves its other elements in order.
LEMMA TailProperties ==
    ASSUME NEW S, NEW q \in Seq(S), q # <<>>
    PROVE  /\ Head(q) \in S
           /\ Head(q) = q[1]
           /\ Len(q) \in Nat \ {0}
           /\ Tail(q) \in Seq(S)
           /\ Len(Tail(q)) = Len(q) - 1
           /\ \A i \in 1 .. Len(q) - 1 : Tail(q)[i] = q[i + 1]
  OBVIOUS

\* Sending to a channel adds its element behind the others.
LEMMA AppendProperties ==
    ASSUME NEW S, NEW q \in Seq(S), NEW e \in S
    PROVE  /\ Append(q, e) \in Seq(S)
           /\ Len(q) \in Nat
           /\ Len(Append(q, e)) = Len(q) + 1
           /\ \A i \in 1 .. Len(q) : Append(q, e)[i] = q[i]
           /\ Append(q, e)[Len(q) + 1] = e
  OBVIOUS

\* A non-blocking send keeps a buffer within its capacity.
LEMMA TrySendProperties ==
    ASSUME NEW S, NEW q \in Seq(S), NEW e \in S, Len(q) <= SendCap
    PROVE  TrySend(q, e) \in Seq(S) /\ Len(TrySend(q, e)) <= SendCap
  BY AppendProperties, CapAssumption DEF TrySend

-----------------------------------------------------------------------------
(* Type correctness.                                                        *)

\* A send by any goroutine keeps the buffers, the flags and the panic typed.
LEMMA OfferType ==
    ASSUME TypeOK, NEW c \in Conns, NEW m \in Msgs \cup {ErrorMsg}, Offer(c, m)
    PROVE  /\ send' \in [Conns -> Seq(Msgs \cup {ErrorMsg})]
           /\ \A d \in Conns : Len(send'[d]) <= SendCap
           /\ crash' \in {"none", "send", "close"}
<1>1. CASE closed[c]
  BY <1>1 DEF TypeOK, Offer
<1>2. CASE ~closed[c]
  <2> DEFINE b == TrySend(send[c], m)
  <2>1. b \in Seq(Msgs \cup {ErrorMsg}) /\ Len(b) <= SendCap
    BY TrySendProperties DEF TypeOK
  <2>2. send' = [send EXCEPT ![c] = b] /\ crash' = crash
    BY <1>2 DEF Offer
  <2> HIDE DEF b
  <2> QED
    BY <2>1, <2>2 DEF TypeOK
<1> QED
  BY <1>1, <1>2

LEMMA InitType == Init => TypeOK
  BY CapAssumption DEF Init, TypeOK

\* Every step of every goroutine preserves the types and the capacities.
LEMMA StepType == TypeOK /\ [Next]_hubVars => TypeOK'
<1> SUFFICES ASSUME TypeOK, [Next]_hubVars PROVE TypeOK'
  OBVIOUS
<1> USE UserOfAssumption, CallersAssumption
<1>1. CASE RunRegister
  <2>1. register' = Tail(register) /\ register # <<>>
    BY <1>1 DEF RunRegister
  <2>2. /\ Head(register) \in Conns /\ register' \in Seq(Conns)
        /\ Len(register') <= QueueCap
    BY <2>1, TailProperties, CapAssumption DEF TypeOK
  <2>3. clients' = [clients EXCEPT ![UserOf[Head(register)]] = Head(register)]
    BY <1>1 DEF RunRegister
  <2>4. clients' \in [Users -> Conns \cup {NoConn}]
    BY <2>2, <2>3 DEF TypeOK
  <2>5. closed' \in [Conns -> BOOLEAN] /\ crash' \in {"none", "send", "close"}
    BY <1>1 DEF RunRegister, CloseSend, TypeOK
  <2> QED
    BY <1>1, <2>2, <2>4, <2>5 DEF RunRegister, TypeOK
<1>2. CASE RunUnregister
  <2>1. unregister' = Tail(unregister) /\ unregister # <<>>
    BY <1>2 DEF RunUnregister
  <2>2. /\ Head(unregister) \in Conns /\ unregister' \in Seq(Conns)
        /\ Len(unregister') <= QueueCap
    BY <2>1, TailProperties, CapAssumption DEF TypeOK
  <2>3. clients' \in [Users -> Conns \cup {NoConn}]
    BY <1>2, <2>2 DEF RunUnregister, TypeOK
  <2>4. closed' \in [Conns -> BOOLEAN] /\ crash' \in {"none", "send", "close"}
    BY <1>2 DEF RunUnregister, CloseSend, TypeOK
  <2> QED
    BY <1>2, <2>2, <2>3, <2>4 DEF RunUnregister, TypeOK
<1>3. CASE RunBroadcast
  <2>1. broadcast' = Tail(broadcast) /\ broadcast # <<>>
    BY <1>3 DEF RunBroadcast
  <2>2. /\ Head(broadcast) \in Users \X Msgs
        /\ broadcast' \in Seq(Users \X Msgs) /\ Len(broadcast') <= BroadcastCap
    BY <2>1, TailProperties, CapAssumption DEF TypeOK
  <2> DEFINE u == Head(broadcast)[1]
             m == Head(broadcast)[2]
  <2>3. u \in Users /\ m \in Msgs
    BY <2>2
  <2>4. CASE clients[u] = NoConn
    BY <1>3, <2>2, <2>4 DEF RunBroadcast, TypeOK
  <2>5. CASE clients[u] # NoConn
    <3>1. Offer(clients[u], m) /\ clients[u] \in Conns
      BY <1>3, <2>3, <2>5 DEF RunBroadcast, TypeOK
    <3>2. /\ send' \in [Conns -> Seq(Msgs \cup {ErrorMsg})]
          /\ \A d \in Conns : Len(send'[d]) <= SendCap
          /\ crash' \in {"none", "send", "close"}
      BY <2>3, <3>1, OfferType
    <3> QED
      BY <1>3, <2>2, <3>2 DEF RunBroadcast, TypeOK
  <2> QED
    BY <2>4, <2>5
<1>4. ASSUME NEW c \in Conns, ServeWS(c) PROVE TypeOK'
  <2>1. register' \in Seq(Conns) /\ Len(register') <= QueueCap
    BY <1>4, AppendProperties, CapAssumption DEF ServeWS, TypeOK
  <2> QED
    BY <1>4, <2>1 DEF ServeWS, TypeOK
<1>5. ASSUME NEW c \in Conns, ReadPump(c) PROVE TypeOK'
  <2>1. CASE ReadError(c)
    BY <2>1 DEF ReadError, TypeOK
  <2>2. CASE Unregister(c)
    <3>1. unregister' \in Seq(Conns) /\ Len(unregister') <= QueueCap
      BY <2>2, AppendProperties, CapAssumption DEF Unregister, TypeOK
    <3> QED
      BY <2>2, <3>1 DEF Unregister, TypeOK
  <2>3. CASE CloseConn(c)
    BY <2>3 DEF CloseConn, TypeOK
  <2>4. CASE SendError(c)
    <3>1. /\ send' \in [Conns -> Seq(Msgs \cup {ErrorMsg})]
          /\ \A d \in Conns : Len(send'[d]) <= SendCap
          /\ crash' \in {"none", "send", "close"}
      BY <2>4, OfferType DEF SendError
    <3> QED
      BY <2>4, <3>1 DEF SendError, TypeOK
  <2> QED
    BY <1>5, <2>1, <2>2, <2>3, <2>4 DEF ReadPump
<1>6. ASSUME NEW c \in Conns, WritePump(c) PROVE TypeOK'
  <2>1. CASE TakeMessage(c) \/ DrainOne(c)
    <3>1. /\ send[c] # <<>> /\ send' = [send EXCEPT ![c] = Tail(send[c])]
          /\ frame' \in {[frame EXCEPT ![c] = <<Head(send[c])>>],
                         [frame EXCEPT ![c] = Append(frame[c], Head(send[c]))]}
      BY <2>1 DEF TakeMessage, DrainOne
    <3>2. /\ Tail(send[c]) \in Seq(Msgs \cup {ErrorMsg})
          /\ Len(Tail(send[c])) <= SendCap
          /\ Head(send[c]) \in Msgs \cup {ErrorMsg}
      BY <3>1, TailProperties, CapAssumption DEF TypeOK
    <3>3. /\ send' \in [Conns -> Seq(Msgs \cup {ErrorMsg})]
          /\ \A d \in Conns : Len(send'[d]) <= SendCap
      BY <3>1, <3>2 DEF TypeOK
    <3>4. frame' \in [Conns -> Seq(Msgs \cup {ErrorMsg})]
      <4>1. /\ <<Head(send[c])>> \in Seq(Msgs \cup {ErrorMsg})
            /\ Append(frame[c], Head(send[c])) \in Seq(Msgs \cup {ErrorMsg})
        BY <3>2, AppendProperties DEF TypeOK
      <4> QED
        BY <3>1, <4>1 DEF TypeOK
    <3>5. left' \in [Conns -> Nat]
      <4>1. left' = left \/ (left[c] > 0 /\ left' = [left EXCEPT ![c] = left[c] - 1])
        BY <2>1 DEF TakeMessage, DrainOne
      <4>2. left \in [Conns -> Nat]
        BY DEF TypeOK
      <4> QED
        BY <4>1, <4>2
    <3> QED
      BY <2>1, <3>3, <3>4, <3>5 DEF TakeMessage, DrainOne, TypeOK
  <2>2. CASE WriteFrame(c)
    BY <2>2 DEF WriteFrame, TypeOK
  <2>3. CASE WriteFails(c)
    BY <2>3 DEF WriteFails, PumpReturns, TypeOK
  <2>4. CASE OpenFrame(c)
    <3>1. left' \in [Conns -> Nat]
      BY <2>4 DEF OpenFrame, TypeOK
    <3> QED
      BY <2>4, <3>1 DEF OpenFrame, TypeOK
  <2>5. CASE WriteClose(c)
    BY <2>5 DEF WriteClose, PumpReturns, TypeOK
  <2>6. CASE PingFails(c)
    BY <2>6 DEF PingFails, PumpReturns, TypeOK
  <2>7. CASE NextWriterFails(c)
    BY <2>7 DEF NextWriterFails, PumpReturns, TypeOK
  <2> QED
    BY <1>6, <2>1, <2>2, <2>3, <2>4, <2>5, <2>6, <2>7 DEF WritePump
<1>7. ASSUME NEW c \in Conns, PeerGone(c) PROVE TypeOK'
  BY <1>7 DEF PeerGone, TypeOK
<1>8. ASSUME NEW g \in Callers, NEW u \in Users, Lookup(g, u) PROVE TypeOK'
  BY <1>8 DEF Lookup, TypeOK
<1>9. ASSUME NEW g \in Callers, NEW m \in Msgs, Push(g, m) PROVE TypeOK'
  <2>1. target[g] \in Conns /\ Offer(target[g], m)
    BY <1>9 DEF Push, TypeOK
  <2>2. /\ send' \in [Conns -> Seq(Msgs \cup {ErrorMsg})]
        /\ \A d \in Conns : Len(send'[d]) <= SendCap
        /\ crash' \in {"none", "send", "close"}
    BY <2>1, OfferType
  <2> QED
    BY <1>9, <2>2 DEF Push, TypeOK
<1>10. ASSUME NEW u \in Users, NEW m \in Msgs, Broadcast(u, m) PROVE TypeOK'
  <2>1. broadcast' \in Seq(Users \X Msgs) /\ Len(broadcast') <= BroadcastCap
    BY <1>10, AppendProperties, CapAssumption DEF Broadcast, TypeOK
  <2> QED
    BY <1>10, <2>1 DEF Broadcast, TypeOK
<1>11. CASE UNCHANGED hubVars
  BY <1>11 DEF hubVars, TypeOK
<1> QED
  BY <1>1, <1>2, <1>3, <1>4, <1>5, <1>6, <1>7, <1>8, <1>9, <1>10, <1>11
     DEF Next, Run

\* The buffers, queues and pump states of the hub keep their types and their
\* capacities, however many connections are served.
THEOREM TypeCorrect == Spec => []TypeOK
<1>1. Init => TypeOK
  BY InitType
<1>2. TypeOK /\ [Next]_hubVars => TypeOK'
  BY StepType
<1> QED
  BY <1>1, <1>2, PTL DEF Spec

-----------------------------------------------------------------------------
(* The inductive invariant.                                                 *)

\* Accounted speaks of the map, the register queue, the closed flags and of
\* which connections exist: a step that leaves those alone preserves it.
LEMMA AccountedUnchanged ==
    ASSUME Accounted, UNCHANGED <<clients, register, closed>>,
           \A c \in Conns : readPump'[c] = "none" <=> readPump[c] = "none"
    PROVE  Accounted'
  BY DEF Accounted, InQueue, Mapped

\* UnregisterOwn speaks of the unregister queue and of finished ReadPumps.
LEMMA UnregisterOwnUnchanged ==
    ASSUME TypeOK, UnregisterOwn, UNCHANGED unregister,
           \A c \in Conns : readPump[c] \in {"closing", "done"}
                                => readPump'[c] \in {"closing", "done"}
    PROVE  UnregisterOwn'
<1> SUFFICES ASSUME NEW i \in 1 .. Len(unregister)
             PROVE  readPump'[unregister[i]] \in {"closing", "done"}
  BY DEF UnregisterOwn
<1>1. unregister \in Seq(Conns)
  BY DEF TypeOK
<1>2. unregister[i] \in Conns
  BY <1>1
<1>3. readPump[unregister[i]] \in {"closing", "done"}
  BY DEF UnregisterOwn
<1> QED
  BY <1>2, <1>3

\* A send on a channel closes none: the panic it may cause is the other one.
LEMMA OfferNoClose ==
    ASSUME NEW c, NEW m, Offer(c, m), NoDoubleClose
    PROVE  NoDoubleClose'
  BY DEF Offer, NoDoubleClose

\* Taking a connection c from the register queue: it is fresh, the connection
\* it replaces is open, so closing that one does not panic.
LEMMA RegisterEffect ==
    ASSUME IInv, RunRegister
    PROVE  \E c \in Conns :
             /\ c = register[1]
             /\ readPump[c] # "none" /\ ~Mapped(c) /\ ~closed[c]
             /\ register' = Tail(register) /\ register # <<>>
             /\ clients' = [clients EXCEPT ![UserOf[c]] = c]
             /\ closed' = [d \in Conns |-> closed[d] \/ (Mapped(d) /\ UserOf[d] = UserOf[c])]
             /\ crash' = crash
<1> DEFINE c == Head(register)
           old == clients[UserOf[c]]
<1>1. register # <<>> /\ register' = Tail(register) /\ register \in Seq(Conns)
  BY DEF IInv, TypeOK, RunRegister
<1>2. c \in Conns /\ c = register[1] /\ 1 \in 1 .. Len(register)
  BY <1>1, TailProperties
<1>3. InQueue(c)
  BY <1>2 DEF InQueue
<1>4. readPump[c] # "none" /\ ~Mapped(c) /\ ~closed[c]
  BY <1>2, <1>3 DEF IInv, Accounted
<1>5. UserOf[c] \in Users /\ old \in Conns \cup {NoConn}
  BY <1>2, UserOfAssumption DEF IInv, TypeOK
<1>6. \A d \in Conns : d \in {old} \ {NoConn} <=> Mapped(d) /\ UserOf[d] = UserOf[c]
  BY <1>5, NoConnAssumption DEF IInv, Accounted, Mapped
<1>7. \A d \in Conns : Mapped(d) => ~closed[d]
  BY DEF IInv, Accounted
<1>8. \A d \in {old} \ {NoConn} : ~closed[d]
  BY <1>5, <1>6, <1>7
<1>9. /\ CloseSend({old} \ {NoConn})
      /\ clients' = [clients EXCEPT ![UserOf[c]] = c]
  BY DEF RunRegister
<1>10. /\ crash' = crash
       /\ closed' = [d \in Conns |-> closed[d] \/ d \in {old} \ {NoConn}]
  BY <1>8, <1>9 DEF CloseSend
<1>11. closed' = [d \in Conns |-> closed[d] \/ (Mapped(d) /\ UserOf[d] = UserOf[c])]
  BY <1>6, <1>10
<1> QED
  BY <1>1, <1>2, <1>4, <1>9, <1>10, <1>11

\* Taking a connection c from the unregister queue: its ReadPump is over, and
\* if c is still the registered one its channel is open and is closed.
LEMMA UnregisterEffect ==
    ASSUME IInv, RunUnregister
    PROVE  \E c \in Conns :
             /\ readPump[c] \in {"closing", "done"}
             /\ IF Mapped(c)
                THEN /\ clients' = [clients EXCEPT ![UserOf[c]] = NoConn]
                     /\ closed' = [d \in Conns |-> closed[d] \/ d = c]
                ELSE UNCHANGED <<clients, closed>>
             /\ crash' = crash
<1> DEFINE c == Head(unregister)
<1>1. unregister # <<>> /\ unregister \in Seq(Conns)
  BY DEF IInv, TypeOK, RunUnregister
<1>2. c \in Conns /\ c = unregister[1] /\ 1 \in 1 .. Len(unregister)
  BY <1>1, TailProperties
<1>3. readPump[c] \in {"closing", "done"}
  BY <1>2 DEF IInv, UnregisterOwn
<1>4. CASE Mapped(c)
  <2>1. ~closed[c]
    BY <1>2, <1>4 DEF IInv, Accounted
  <2>2. /\ CloseSend({c})
        /\ clients' = [clients EXCEPT ![UserOf[c]] = NoConn]
    BY <1>4 DEF RunUnregister, Holds
  <2>3. closed' = [d \in Conns |-> closed[d] \/ d = c] /\ crash' = crash
    BY <2>1, <2>2 DEF CloseSend
  <2> QED
    BY <1>2, <1>3, <1>4, <2>2, <2>3
<1>5. CASE ~Mapped(c)
  BY <1>2, <1>3, <1>5 DEF RunUnregister, Holds
<1> QED
  BY <1>4, <1>5

LEMMA InitIInv == Init => IInv
<1> SUFFICES ASSUME Init PROVE IInv
  OBVIOUS
<1>1. TypeOK
  BY InitType
<1>2. Accounted
  BY UserOfAssumption, NoConnAssumption DEF Init, Accounted, InQueue, Mapped
<1>3. NoDoubleClose /\ UnregisterOwn
  BY DEF Init, NoDoubleClose, UnregisterOwn
<1> QED
  BY <1>1, <1>2, <1>3 DEF IInv

\* Run takes a registration: c moves from the queue to the map, and the
\* connection it replaces from the map to the closed ones.
LEMMA RegisterAccounted == IInv /\ RunRegister => Accounted'
<1> SUFFICES ASSUME IInv, RunRegister PROVE Accounted'
  OBVIOUS
<1> USE UserOfAssumption, NoConnAssumption
<1>1. PICK c \in Conns :
        /\ c = register[1]
        /\ readPump[c] # "none" /\ ~Mapped(c) /\ ~closed[c]
        /\ register' = Tail(register) /\ register # <<>>
        /\ clients' = [clients EXCEPT ![UserOf[c]] = c]
        /\ closed' = [d \in Conns |-> closed[d] \/ (Mapped(d) /\ UserOf[d] = UserOf[c])]
        /\ crash' = crash
  BY RegisterEffect
<1>2. /\ register \in Seq(Conns) /\ clients \in [Users -> Conns \cup {NoConn}]
      /\ closed \in [Conns -> BOOLEAN] /\ readPump' = readPump
  BY DEF IInv, TypeOK, RunRegister
<1>3. \A i, j \in 1 .. Len(register) : register[i] = register[j] => i = j
  BY DEF IInv, Accounted
<1>4. /\ Len(register) \in Nat \ {0} /\ Len(register') = Len(register) - 1
      /\ \A i \in 1 .. Len(register) - 1 : register'[i] = register[i + 1]
  BY <1>1, <1>2, TailProperties
<1>5. \A i, j \in 1 .. Len(register') : register'[i] = register'[j] => i = j
  BY <1>3, <1>4
<1>6. \A d \in Conns : InQueue(d)' <=> InQueue(d) /\ d # c
  <2> TAKE d \in Conns
  <2>1. ASSUME NEW i \in 1 .. Len(register'), register'[i] = d
        PROVE  InQueue(d) /\ d # c
    BY <1>1, <1>3, <1>4, <2>1 DEF InQueue
  <2>2. ASSUME NEW i \in 1 .. Len(register), register[i] = d, d # c
        PROVE  InQueue(d)'
    <3>1. i - 1 \in 1 .. Len(register') /\ register'[i - 1] = register[i]
      BY <1>1, <1>4, <2>2
    <3> QED
      BY <2>2, <3>1 DEF InQueue
  <2> QED
    BY <2>1, <2>2 DEF InQueue
<1>7. \A d \in Conns :
        Mapped(d)' <=> d = c \/ (Mapped(d) /\ UserOf[d] # UserOf[c])
  BY <1>1, <1>2 DEF Mapped
<1>8. \A d \in Conns :
        closed'[d] <=> closed[d] \/ (Mapped(d) /\ UserOf[d] = UserOf[c])
  BY <1>1
<1>9. \A u \in Users : clients'[u] # NoConn => UserOf[clients'[u]] = u
  BY <1>1, <1>2 DEF IInv, Accounted
<1>10. \A d \in Conns :
        IF readPump[d] = "none"
        THEN ~InQueue(d)' /\ ~Mapped(d)' /\ ~closed'[d]
        ELSE /\ InQueue(d)' \/ Mapped(d)' \/ closed'[d]
             /\ ~(InQueue(d)' /\ Mapped(d)')
             /\ ~(InQueue(d)' /\ closed'[d])
             /\ ~(Mapped(d)' /\ closed'[d])
  BY <1>1, <1>6, <1>7, <1>8 DEF IInv, Accounted
<1> QED
  BY <1>2, <1>5, <1>9, <1>10 DEF Accounted

\* Run takes a request to leave: the connection moves from the map to the
\* closed ones, or nothing moves when it is in the map no longer, or not yet.
LEMMA UnregisterAccounted == IInv /\ RunUnregister => Accounted'
<1> SUFFICES ASSUME IInv, RunUnregister PROVE Accounted'
  OBVIOUS
<1> USE UserOfAssumption, NoConnAssumption
<1>1. PICK c \in Conns :
        /\ readPump[c] \in {"closing", "done"}
        /\ IF Mapped(c)
           THEN /\ clients' = [clients EXCEPT ![UserOf[c]] = NoConn]
                /\ closed' = [d \in Conns |-> closed[d] \/ d = c]
           ELSE UNCHANGED <<clients, closed>>
        /\ crash' = crash
  BY UnregisterEffect
<1>2. /\ clients \in [Users -> Conns \cup {NoConn}]
      /\ closed \in [Conns -> BOOLEAN]
      /\ register' = register /\ readPump' = readPump
  BY DEF IInv, TypeOK, RunUnregister
<1>3. CASE ~Mapped(c)
  BY <1>1, <1>2, <1>3, AccountedUnchanged DEF IInv
<1>4. CASE Mapped(c)
  <2>1. \A d \in Conns : InQueue(d)' <=> InQueue(d)
    BY <1>2 DEF InQueue
  <2>2. \A d \in Conns : Mapped(d)' <=> Mapped(d) /\ d # c
    BY <1>1, <1>2, <1>4 DEF Mapped
  <2>3. \A d \in Conns : closed'[d] <=> closed[d] \/ d = c
    BY <1>1, <1>4
  <2>4. \A u \in Users : clients'[u] # NoConn => UserOf[clients'[u]] = u
    BY <1>1, <1>2, <1>4 DEF IInv, Accounted
  <2>5. \A i, j \in 1 .. Len(register') : register'[i] = register'[j] => i = j
    BY <1>2 DEF IInv, Accounted
  <2>6. \A d \in Conns :
          IF readPump[d] = "none"
          THEN ~InQueue(d)' /\ ~Mapped(d)' /\ ~closed'[d]
          ELSE /\ InQueue(d)' \/ Mapped(d)' \/ closed'[d]
               /\ ~(InQueue(d)' /\ Mapped(d)')
               /\ ~(InQueue(d)' /\ closed'[d])
               /\ ~(Mapped(d)' /\ closed'[d])
    BY <1>1, <1>4, <2>1, <2>2, <2>3 DEF IInv, Accounted
  <2> QED
    BY <1>2, <2>4, <2>5, <2>6 DEF Accounted
<1> QED
  BY <1>3, <1>4

\* The "/ws" handler queues a connection that is nowhere yet.
LEMMA ServeAccounted ==
    ASSUME IInv, NEW c \in Conns, ServeWS(c)
    PROVE  Accounted'
<1>1. /\ register \in Seq(Conns) /\ readPump[c] = "none"
      /\ register' = Append(register, c)
      /\ readPump' = [readPump EXCEPT ![c] = "reading"]
      /\ UNCHANGED <<clients, closed>>
      /\ readPump \in [Conns -> {"none", "reading", "leaving", "closing", "done"}]
  BY DEF IInv, TypeOK, ServeWS
<1>2. /\ Len(register) \in Nat /\ Len(register') = Len(register) + 1
      /\ \A i \in 1 .. Len(register) : register'[i] = register[i]
      /\ register'[Len(register) + 1] = c
  BY <1>1, AppendProperties
<1>3. ~InQueue(c) /\ ~Mapped(c) /\ ~closed[c]
  BY <1>1 DEF IInv, Accounted
<1>4. \A i, j \in 1 .. Len(register) : register[i] = register[j] => i = j
  BY DEF IInv, Accounted
<1>5. \A i, j \in 1 .. Len(register') : register'[i] = register'[j] => i = j
  BY <1>2, <1>3, <1>4 DEF InQueue
<1>6. \A d \in Conns : InQueue(d)' <=> InQueue(d) \/ d = c
  BY <1>2 DEF InQueue
<1>7. \A d \in Conns : (Mapped(d)' <=> Mapped(d)) /\ (closed'[d] <=> closed[d])
  BY <1>1 DEF Mapped
<1>8. \A u \in Users : clients'[u] # NoConn => UserOf[clients'[u]] = u
  BY <1>1 DEF IInv, Accounted
<1>9. \A d \in Conns :
        IF readPump'[d] = "none"
        THEN ~InQueue(d)' /\ ~Mapped(d)' /\ ~closed'[d]
        ELSE /\ InQueue(d)' \/ Mapped(d)' \/ closed'[d]
             /\ ~(InQueue(d)' /\ Mapped(d)')
             /\ ~(InQueue(d)' /\ closed'[d])
             /\ ~(Mapped(d)' /\ closed'[d])
  BY <1>1, <1>3, <1>6, <1>7 DEF IInv, Accounted
<1> QED
  BY <1>5, <1>8, <1>9 DEF Accounted

\* Every other step leaves the hub's bookkeeping alone.
LEMMA QuietStep ==
    ASSUME IInv,
           \/ RunBroadcast
           \/ \E c \in Conns : ReadError(c) \/ CloseConn(c) \/ SendError(c)
           \/ \E c \in Conns : WritePump(c) \/ PeerGone(c)
           \/ \E g \in Callers, u \in Users : Lookup(g, u)
           \/ \E g \in Callers, m \in Msgs : Push(g, m)
           \/ \E u \in Users, m \in Msgs : Broadcast(u, m)
           \/ UNCHANGED hubVars
    PROVE  /\ UNCHANGED <<clients, register, unregister, closed>>
           /\ \A c \in Conns : readPump'[c] = "none" <=> readPump[c] = "none"
           /\ \A c \in Conns : readPump[c] \in {"closing", "done"}
                                => readPump'[c] \in {"closing", "done"}
           /\ NoDoubleClose'
<1>1. /\ readPump \in [Conns -> {"none", "reading", "leaving", "closing", "done"}]
      /\ NoDoubleClose
  BY DEF IInv, TypeOK
<1>2. CASE RunBroadcast
  BY <1>1, <1>2, OfferNoClose DEF RunBroadcast, NoDoubleClose
<1>3. ASSUME NEW c \in Conns, ReadError(c) \/ CloseConn(c)
      PROVE  /\ UNCHANGED <<clients, register, unregister, closed, crash>>
             /\ \E v \in {"leaving", "done"} : readPump' = [readPump EXCEPT ![c] = v]
             /\ readPump[c] \in {"reading", "closing"}
             /\ readPump'[c] = "leaving" => readPump[c] = "reading"
  BY <1>1, <1>3, CallersAssumption DEF ReadError, CloseConn, MayCall
<1>4. ASSUME NEW c \in Conns, SendError(c)
      PROVE  /\ UNCHANGED <<clients, register, unregister, closed, readPump>>
             /\ NoDoubleClose'
  BY <1>1, <1>4, OfferNoClose DEF SendError
<1>5. ASSUME NEW c \in Conns, WritePump(c) \/ PeerGone(c)
      PROVE  UNCHANGED <<clients, register, unregister, closed, crash, readPump>>
  BY <1>5 DEF WritePump, TakeMessage, OpenFrame, DrainOne, WriteFrame, WriteFails,
              NextWriterFails, WriteClose, PingFails, PeerGone
<1>6. ASSUME NEW g \in Callers, NEW m \in Msgs, Push(g, m)
      PROVE  /\ UNCHANGED <<clients, register, unregister, closed, readPump>>
             /\ NoDoubleClose'
  BY <1>1, <1>6, OfferNoClose DEF Push
<1>7. CASE \/ \E g \in Callers, u \in Users : Lookup(g, u)
           \/ \E u \in Users, m \in Msgs : Broadcast(u, m)
           \/ UNCHANGED hubVars
  BY <1>1, <1>7 DEF Lookup, Broadcast, hubVars, NoDoubleClose
<1> QED
  BY <1>1, <1>2, <1>3, <1>4, <1>5, <1>6, <1>7 DEF NoDoubleClose

LEMMA StepIInv == IInv /\ [Next]_hubVars => IInv'
<1> SUFFICES ASSUME IInv, [Next]_hubVars PROVE IInv'
  OBVIOUS
<1>1. TypeOK'
  BY StepType DEF IInv
<1>2. CASE RunRegister
  <2>1. NoDoubleClose'
    BY <1>2, RegisterEffect DEF IInv, NoDoubleClose
  <2>2. UnregisterOwn'
    BY <1>2, UnregisterOwnUnchanged DEF RunRegister, IInv
  <2> QED
    BY <1>1, <1>2, <2>1, <2>2, RegisterAccounted DEF IInv
<1>3. CASE RunUnregister
  <2>1. NoDoubleClose'
    BY <1>3, UnregisterEffect DEF IInv, NoDoubleClose
  <2>2. /\ unregister \in Seq(Conns) /\ unregister # <<>>
        /\ unregister' = Tail(unregister) /\ readPump' = readPump
    BY <1>3 DEF IInv, TypeOK, RunUnregister
  <2>3. /\ Len(unregister) \in Nat \ {0}
        /\ Len(unregister') = Len(unregister) - 1
        /\ \A i \in 1 .. Len(unregister) - 1 : unregister'[i] = unregister[i + 1]
    BY <2>2, TailProperties
  <2>4. \A i \in 1 .. Len(unregister) - 1 :
          readPump[unregister[i + 1]] \in {"closing", "done"}
    BY <2>3 DEF IInv, UnregisterOwn
  <2>5. UnregisterOwn'
    BY <2>2, <2>3, <2>4 DEF UnregisterOwn
  <2> QED
    BY <1>1, <1>3, <2>1, <2>5, UnregisterAccounted DEF IInv
<1>4. ASSUME NEW c \in Conns, ServeWS(c) PROVE IInv'
  <2>1. Accounted'
    BY <1>4, ServeAccounted
  <2>2. /\ NoDoubleClose' /\ unregister' = unregister
        /\ readPump' = [readPump EXCEPT ![c] = "reading"] /\ readPump[c] = "none"
    BY <1>4 DEF IInv, ServeWS, NoDoubleClose
  <2>3. \A d \in Conns : readPump[d] \in {"closing", "done"}
                            => readPump'[d] \in {"closing", "done"}
    BY <2>2 DEF IInv, TypeOK
  <2>4. UnregisterOwn'
    BY <2>2, <2>3, UnregisterOwnUnchanged DEF IInv
  <2> QED
    BY <1>1, <2>1, <2>2, <2>4 DEF IInv
<1>5. ASSUME NEW c \in Conns, Unregister(c) PROVE IInv'
  <2>1. /\ UNCHANGED <<clients, register, closed, crash>>
        /\ readPump[c] = "leaving"
        /\ readPump' = [readPump EXCEPT ![c] = "closing"]
        /\ unregister' = Append(unregister, c)
        /\ unregister \in Seq(Conns)
        /\ readPump \in [Conns -> {"none", "reading", "leaving", "closing", "done"}]
    BY <1>5 DEF IInv, TypeOK, Unregister
  <2>2. \A d \in Conns : readPump'[d] = "none" <=> readPump[d] = "none"
    BY <2>1
  <2>3. Accounted'
    BY <2>1, <2>2, AccountedUnchanged DEF IInv
  <2>4. /\ Len(unregister) \in Nat /\ Len(unregister') = Len(unregister) + 1
        /\ \A i \in 1 .. Len(unregister) : unregister'[i] = unregister[i]
        /\ unregister'[Len(unregister) + 1] = c
    BY <2>1, AppendProperties
  <2>5. \A i \in 1 .. Len(unregister) :
          unregister[i] \in Conns /\ readPump[unregister[i]] \in {"closing", "done"}
    BY <2>1 DEF IInv, UnregisterOwn
  <2>6. \A d \in Conns : readPump[d] \in {"closing", "done"}
                            => readPump'[d] \in {"closing", "done"}
    BY <2>1
  <2>7. ASSUME NEW i \in 1 .. Len(unregister')
        PROVE  readPump'[unregister'[i]] \in {"closing", "done"}
    <3>1. CASE i \in 1 .. Len(unregister)
      BY <2>4, <2>5, <2>6, <3>1
    <3>2. CASE i = Len(unregister) + 1
      BY <2>1, <2>4, <3>2
    <3> QED
      BY <2>4, <3>1, <3>2
  <2> QED
    BY <1>1, <2>1, <2>3, <2>7 DEF IInv, NoDoubleClose, UnregisterOwn
<1>6. CASE \/ RunBroadcast
           \/ \E c \in Conns : ReadError(c) \/ CloseConn(c) \/ SendError(c)
           \/ \E c \in Conns : WritePump(c) \/ PeerGone(c)
           \/ \E g \in Callers, u \in Users : Lookup(g, u)
           \/ \E g \in Callers, m \in Msgs : Push(g, m)
           \/ \E u \in Users, m \in Msgs : Broadcast(u, m)
           \/ UNCHANGED hubVars
  BY <1>1, <1>6, QuietStep, AccountedUnchanged, UnregisterOwnUnchanged DEF IInv
<1> QED
  BY <1>2, <1>3, <1>4, <1>5, <1>6 DEF Next, Run, ReadPump

LEMMA IInvHolds == Spec => []IInv
  BY InitIInv, StepIInv, PTL DEF Spec

-----------------------------------------------------------------------------
(* The theorems.                                                            *)

\* No connection is ever in two of the hub's places, or in none.
THEOREM AccountedHolds == Spec => []Accounted
<1>1. IInv => Accounted
  BY DEF IInv
<1> QED
  BY <1>1, IInvHolds, PTL

\* The event loop never panics on the close of a closed channel.
THEOREM NoDoubleCloseHolds == Spec => []NoDoubleClose
<1>1. IInv => NoDoubleClose
  BY DEF IInv
<1> QED
  BY <1>1, IInvHolds, PTL

\* A connection that is taken out of the map had left, or is being replaced.
THEOREM NoEvictionHolds == Spec => NoEviction
<1> DEFINE Evicted(c) ==
             Mapped(c) /\ ~Mapped(c)' =>
               /\ closed'[c]
               /\ \/ readPump[c] \in {"closing", "done"}
                  \/ InQueue(clients'[UserOf[c]])
<1>1. IInv /\ [Next]_hubVars => [\A c \in Conns : Evicted(c)]_hubVars
  <2> SUFFICES ASSUME IInv, [Next]_hubVars, NEW c \in Conns,
                      Mapped(c), ~Mapped(c)'
               PROVE  /\ closed'[c]
                      /\ \/ readPump[c] \in {"closing", "done"}
                         \/ InQueue(clients'[UserOf[c]])
    BY DEF Evicted
  <2>1. clients' # clients
    BY DEF Mapped
  <2>2. RunRegister \/ RunUnregister
    <3>1. ASSUME NEW d \in Conns, ServeWS(d) \/ Unregister(d)
          PROVE  clients' = clients
      BY <3>1 DEF ServeWS, Unregister
    <3> QED
      BY <2>1, <3>1, QuietStep DEF Next, Run, ReadPump
  <2>3. CASE RunRegister
    <3>1. PICK d \in Conns :
            /\ d = register[1] /\ register # <<>>
            /\ clients' = [clients EXCEPT ![UserOf[d]] = d]
            /\ closed' = [b \in Conns |->
                            closed[b] \/ (Mapped(b) /\ UserOf[b] = UserOf[d])]
      BY <2>3, RegisterEffect
    <3>2. /\ clients \in [Users -> Conns \cup {NoConn}] /\ register \in Seq(Conns)
          /\ UserOf \in [Conns -> Users]
      BY UserOfAssumption DEF IInv, TypeOK
    <3>3. UserOf[c] = UserOf[d] /\ clients'[UserOf[c]] = d
      BY <3>1, <3>2 DEF Mapped
    <3>4. InQueue(d)
      BY <3>1, <3>2, TailProperties DEF InQueue
    <3> QED
      BY <3>1, <3>3, <3>4
  <2>4. CASE RunUnregister
    <3>1. PICK d \in Conns :
            /\ readPump[d] \in {"closing", "done"}
            /\ IF Mapped(d)
               THEN /\ clients' = [clients EXCEPT ![UserOf[d]] = NoConn]
                    /\ closed' = [b \in Conns |-> closed[b] \/ b = d]
               ELSE UNCHANGED <<clients, closed>>
      BY <2>4, UnregisterEffect
    <3>2. /\ clients \in [Users -> Conns \cup {NoConn}]
          /\ UserOf \in [Conns -> Users]
      BY UserOfAssumption DEF IInv, TypeOK
    <3>3. c = d /\ Mapped(d)
      BY <2>1, <3>1, <3>2 DEF Mapped
    <3> QED
      BY <3>1, <3>3
  <2> QED
    BY <2>2, <2>3, <2>4
<1> QED
  BY <1>1, IInvHolds, PTL DEF Spec, NoEviction

\* The hub implements Presence: taking a registration is an arrival of a fresh
\* connection, taking a request to leave is a departure or a stutter.
THEOREM PresenceHolds == Spec => ImplementsPresence
<1> DEFINE retired == {c \in Conns : closed[c]}
<1>1. Init => P!Init
  BY DEF Init, P!Init
<1>2. IInv /\ [Next]_hubVars => [P!Next]_<<clients, retired>>
  <2> SUFFICES ASSUME IInv, [Next]_hubVars
               PROVE  P!Next \/ UNCHANGED <<clients, retired>>
    OBVIOUS
  <2>1. /\ clients \in [Users -> Conns \cup {NoConn}]
        /\ closed \in [Conns -> BOOLEAN]
        /\ UserOf \in [Conns -> Users] /\ NoConn \notin Conns
    BY UserOfAssumption, NoConnAssumption DEF IInv, TypeOK
  <2>2. CASE RunRegister
    <3>1. PICK c \in Conns :
            /\ ~Mapped(c) /\ ~closed[c]
            /\ clients' = [clients EXCEPT ![UserOf[c]] = c]
            /\ closed' = [b \in Conns |->
                            closed[b] \/ (Mapped(b) /\ UserOf[b] = UserOf[c])]
      BY <2>2, RegisterEffect
    <3>2. \A b \in Conns : b \in {clients[UserOf[c]]} \ {NoConn}
                            <=> Mapped(b) /\ UserOf[b] = UserOf[c]
      BY <2>1 DEF IInv, Accounted, Mapped
    <3>3. {clients[UserOf[c]]} \ {NoConn} \subseteq Conns
      BY <2>1
    <3>4. retired' = retired \cup ({clients[UserOf[c]]} \ {NoConn})
      BY <3>1, <3>2, <3>3
    <3>5. P!Arrive(c)
      BY <3>1, <3>4 DEF P!Arrive, Mapped
    <3> QED
      BY <3>5 DEF P!Next
  <2>3. CASE RunUnregister
    <3>1. PICK c \in Conns :
            IF Mapped(c)
            THEN /\ clients' = [clients EXCEPT ![UserOf[c]] = NoConn]
                 /\ closed' = [b \in Conns |-> closed[b] \/ b = c]
            ELSE UNCHANGED <<clients, closed>>
      BY <2>3, UnregisterEffect
    <3>2. CASE Mapped(c)
      <4>1. retired' = retired \cup {c}
        BY <3>1, <3>2
      <4>2. P!Leave(c)
        BY <3>1, <3>2, <4>1 DEF P!Leave, Mapped
      <4> QED
        BY <4>2 DEF P!Next
    <3> QED
      BY <3>1, <3>2
  <2>4. ASSUME NEW c \in Conns, ServeWS(c) \/ Unregister(c)
        PROVE  UNCHANGED <<clients, closed>>
    BY <2>4 DEF ServeWS, Unregister
  <2> QED
    BY <2>2, <2>3, <2>4, QuietStep DEF Next, Run, ReadPump
<1> QED
  BY <1>1, <1>2, IInvHolds, PTL DEF Spec, ImplementsPresence, P!Spec

-----------------------------------------------------------------------------
(* The drain loop of WritePump.                                             *)

\* The messages the drain loop of c is yet to receive are in the channel, and with
\* them the frame holds no more than a full channel and the message before it.
FrameFits(c) == left[c] <= Len(send[c]) /\ Len(frame[c]) + left[c] <= SendCap + 1

\* Only a WritePump that runs is in its drain loop, and only with a frame in hand.
FrameInv(c) ==
    /\ FrameFits(c)
    /\ writePump[c] # "running" \/ frame[c] = <<>> => left[c] = 0
    /\ writePump[c] = "received" => Len(frame[c]) = 1

\* A step that leaves the WritePump of c alone and receives nothing from its channel.
LEMMA FrameQuiet ==
    ASSUME TypeOK, TypeOK', NEW c \in Conns, FrameInv(c),
           UNCHANGED <<frame[c], left[c], writePump[c]>>, Len(send'[c]) >= Len(send[c])
    PROVE  FrameInv(c)'
<1>1. Len(send[c]) \in Nat /\ Len(send'[c]) \in Nat /\ left[c] \in Nat
  BY DEF TypeOK
<1> QED
  BY <1>1 DEF FrameInv, FrameFits

\* A non-blocking send takes nothing out of a channel.
LEMMA OfferGrows ==
    ASSUME TypeOK, NEW d \in Conns, NEW m \in Msgs \cup {ErrorMsg}, Offer(d, m), NEW c \in Conns
    PROVE  Len(send'[c]) >= Len(send[c])
<1>1. send[c] \in Seq(Msgs \cup {ErrorMsg}) /\ Len(send[c]) \in Nat
  BY DEF TypeOK
<1>2. send'[c] = send[c] \/ send'[c] = Append(send[c], m)
  BY DEF Offer, TrySend, TypeOK
<1> QED
  BY <1>1, <1>2, AppendProperties

\* The steps of the WritePump of c.
LEMMA FramePump ==
    ASSUME TypeOK, TypeOK', NEW c \in Conns, FrameInv(c), WritePump(c)
    PROVE  FrameInv(c)'
<1>1. /\ send[c] \in Seq(Msgs \cup {ErrorMsg}) /\ Len(send[c]) \in Nat /\ Len(send[c]) <= SendCap
      /\ frame[c] \in Seq(Msgs \cup {ErrorMsg}) /\ left[c] \in Nat /\ SendCap \in Nat \ {0}
  BY CapAssumption DEF TypeOK
<1>2. CASE TakeMessage(c)
  <2>1. /\ frame'[c] = <<Head(send[c])>> /\ left'[c] = 0 /\ writePump'[c] = "received"
        /\ send'[c] = Tail(send[c]) /\ send[c] # <<>>
    BY <1>2 DEF TakeMessage, AtSelect, FrameInv, TypeOK
  <2>2. Len(frame'[c]) = 1 /\ Len(send'[c]) \in Nat
    BY <1>1, <2>1, TailProperties
  <2> QED
    BY <1>1, <2>1, <2>2 DEF FrameInv, FrameFits
<1>3. CASE OpenFrame(c)
  <2>1. /\ UNCHANGED <<frame[c], send[c]>> /\ writePump'[c] = "running"
        /\ left'[c] = Len(send[c]) /\ Len(frame[c]) = 1
    BY <1>3 DEF OpenFrame, FrameInv, TypeOK
  <2>2. frame[c] # <<>>
    BY <2>1
  <2> QED
    BY <1>1, <2>1, <2>2 DEF FrameInv, FrameFits
<1>4. CASE DrainOne(c)
  <2>1. /\ frame'[c] = Append(frame[c], Head(send[c])) /\ left'[c] = left[c] - 1
        /\ send'[c] = Tail(send[c]) /\ send[c] # <<>> /\ left[c] > 0
        /\ writePump'[c] = "running"
    BY <1>4 DEF DrainOne, FrameInv, TypeOK
  <2>2. Len(send'[c]) = Len(send[c]) - 1 /\ Head(send[c]) \in Msgs \cup {ErrorMsg}
    BY <1>1, <2>1, TailProperties
  <2>3. Len(frame'[c]) = Len(frame[c]) + 1 /\ frame'[c] # <<>> /\ Len(frame[c]) \in Nat
    BY <1>1, <2>1, <2>2, AppendProperties
  <2> QED
    BY <1>1, <2>1, <2>2, <2>3 DEF FrameInv, FrameFits
<1>5. CASE WriteFrame(c)
  <2>1. /\ frame'[c] = <<>> /\ left[c] = 0 /\ UNCHANGED <<send, left, writePump>>
        /\ writePump[c] = "running"
    BY <1>5 DEF WriteFrame, FrameReady, TypeOK
  <2> QED
    BY <1>1, <2>1 DEF FrameInv, FrameFits
<1>6. CASE NextWriterFails(c) \/ WriteFails(c) \/ WriteClose(c) \/ PingFails(c)
  <2>1. left[c] = 0
    BY <1>6 DEF NextWriterFails, WriteFails, WriteClose, PingFails, FrameReady, AtSelect, FrameInv
  <2>2. frame'[c] = <<>> /\ writePump'[c] = "done" /\ UNCHANGED <<send, left>>
    BY <1>6 DEF NextWriterFails, WriteFails, WriteClose, PingFails, PumpReturns, TypeOK
  <2> QED
    BY <1>1, <2>1, <2>2 DEF FrameInv, FrameFits
<1> QED
  BY <1>2, <1>3, <1>4, <1>5, <1>6 DEF WritePump

LEMMA FrameStep ==
    ASSUME TypeOK, TypeOK', \A c \in Conns : FrameInv(c), [Next]_hubVars
    PROVE  \A c \in Conns : FrameInv(c)'
<1> SUFFICES ASSUME NEW c \in Conns PROVE FrameInv(c)'
  OBVIOUS
<1>0. Len(send[c]) \in Nat
  BY DEF TypeOK
<1>1. ASSUME UNCHANGED <<send, frame, left, writePump>> PROVE FrameInv(c)'
  BY <1>0, <1>1, FrameQuiet
<1>2. ASSUME NEW d \in Conns, NEW m \in Msgs \cup {ErrorMsg}, Offer(d, m),
             UNCHANGED <<frame, left, writePump>>
      PROVE  FrameInv(c)'
  BY <1>2, FrameQuiet, OfferGrows
<1>3. ASSUME NEW d \in Conns, WritePump(d) PROVE FrameInv(c)'
  <2>1. CASE c = d
    BY <1>3, <2>1, FramePump
  <2>2. CASE c # d
    <3>1. UNCHANGED <<send[c], frame[c], left[c], writePump[c]>>
      <4>1. CASE TakeMessage(d) \/ OpenFrame(d)
        BY <2>2, <4>1 DEF TakeMessage, OpenFrame, TypeOK
      <4>2. CASE DrainOne(d) \/ WriteFrame(d)
        BY <2>2, <4>2 DEF DrainOne, WriteFrame, TypeOK
      <4>3. CASE NextWriterFails(d) \/ WriteFails(d) \/ WriteClose(d) \/ PingFails(d)
        BY <2>2, <4>3 DEF NextWriterFails, WriteFails, WriteClose, PingFails, PumpReturns, TypeOK
      <4> QED
        BY <1>3, <4>1, <4>2, <4>3 DEF WritePump
    <3> QED
      BY <1>0, <3>1, FrameQuiet
  <2> QED
    BY <2>1, <2>2
<1>4. ASSUME NEW d \in Conns, ServeWS(d) PROVE FrameInv(c)'
  <2>1. /\ UNCHANGED <<send, frame, left>>
        /\ writePump'[c] = IF c = d THEN "running" ELSE writePump[c]
    BY <1>4 DEF ServeWS, TypeOK
  <2> QED
    BY <2>1 DEF FrameInv, FrameFits
<1>5. CASE RunBroadcast
  <2>1. CASE clients[Head(broadcast)[1]] = NoConn
    BY <1>1, <1>5, <2>1 DEF RunBroadcast
  <2>2. CASE clients[Head(broadcast)[1]] # NoConn
    <3>1. Head(broadcast) \in Users \X Msgs
      BY <1>5, TailProperties DEF RunBroadcast, TypeOK
    <3>2. clients[Head(broadcast)[1]] \in Conns /\ Head(broadcast)[2] \in Msgs
      BY <2>2, <3>1 DEF TypeOK
    <3> QED
      BY <1>2, <1>5, <2>2, <3>2 DEF RunBroadcast
  <2> QED
    BY <2>1, <2>2
<1>6. ASSUME NEW d \in Conns, SendError(d) PROVE FrameInv(c)'
  BY <1>2, <1>6 DEF SendError
<1>7. ASSUME NEW g \in Callers, NEW m \in Msgs, Push(g, m) PROVE FrameInv(c)'
  <2>1. target[g] \in Conns
    BY <1>7 DEF Push, TypeOK
  <2> QED
    BY <1>2, <1>7, <2>1 DEF Push
<1>8. CASE \/ RunRegister \/ RunUnregister
           \/ \E d \in Conns : ReadError(d) \/ Unregister(d) \/ CloseConn(d) \/ PeerGone(d)
           \/ \E g \in Callers, u \in Users : Lookup(g, u)
           \/ \E u \in Users, m \in Msgs : Broadcast(u, m)
           \/ UNCHANGED hubVars
  BY <1>1, <1>8 DEF RunRegister, RunUnregister, ReadError, Unregister, CloseConn, PeerGone,
                    Lookup, Broadcast, hubVars
<1> QED
  BY <1>3, <1>4, <1>5, <1>6, <1>7, <1>8 DEF Next, Run, ReadPump

LEMMA FrameInvHolds == Spec => [](\A c \in Conns : FrameInv(c))
<1>1. Init => \A c \in Conns : FrameInv(c)
  <2>1. SendCap \in Nat /\ Len(<<>>) = 0
    BY CapAssumption
  <2> QED
    BY <2>1 DEF Init, FrameInv, FrameFits
<1>2. TypeOK /\ TypeOK' /\ (\A c \in Conns : FrameInv(c)) /\ [Next]_hubVars
        => (\A c \in Conns : FrameInv(c))'
  BY FrameStep
<1> QED
  BY <1>1, <1>2, TypeCorrect, PTL DEF Spec

\* The drain loop, which receives as many messages as len(c.send) said there were, never
\* waits for one: nobody else receives from the channel.  A frame holds no more than the
\* buffer and the message received before it.
THEOREM DrainNeverWaits == Spec => [](\A c \in Conns : FrameFits(c))
<1>1. (\A c \in Conns : FrameInv(c)) => \A c \in Conns : FrameFits(c)
  BY DEF FrameInv
<1> QED
  BY <1>1, FrameInvHolds, PTL

-----------------------------------------------------------------------------
(* Ghosts.                                                                  *)

InUnregister(c) == \E i \in 1 .. Len(unregister) : unregister[i] = c

\* A connection that is in the map though its ReadPump has left and its request to leave
\* has been taken: where OnlyActiveMapped fails.
Ghost(c) == Mapped(c) /\ readPump[c] \in {"closing", "done"} /\ ~InUnregister(c)

\* A connection becomes a ghost only in the step that registers it, which the event loop
\* took after its request to leave, and remains one until its user has a newer connection.
THEOREM GhostsExplained ==
    Spec => [][\A c \in Conns :
                 /\ ~Ghost(c) /\ Ghost(c)' => RunRegister /\ Head(register) = c
                 /\ Ghost(c) /\ ~Ghost(c)' =>
                        /\ RunRegister /\ Head(register) # c
                        /\ UserOf[Head(register)] = UserOf[c]]_hubVars
<1> DEFINE Explained(c) ==
             /\ ~Ghost(c) /\ Ghost(c)' => RunRegister /\ Head(register) = c
             /\ Ghost(c) /\ ~Ghost(c)' =>
                    /\ RunRegister /\ Head(register) # c
                    /\ UserOf[Head(register)] = UserOf[c]
<1>1. IInv /\ [Next]_hubVars => [\A c \in Conns : Explained(c)]_hubVars
  <2> SUFFICES ASSUME IInv, [Next]_hubVars, NEW c \in Conns
               PROVE  Explained(c)
    OBVIOUS
  <2>0. /\ clients \in [Users -> Conns \cup {NoConn}] /\ UserOf \in [Conns -> Users]
        /\ readPump \in [Conns -> {"none", "reading", "leaving", "closing", "done"}]
        /\ register \in Seq(Conns) /\ unregister \in Seq(Conns)
    BY UserOfAssumption DEF IInv, TypeOK
  <2>1. CASE RunRegister
    <3>1. PICK d \in Conns :
            d = register[1] /\ register # <<>> /\ clients' = [clients EXCEPT ![UserOf[d]] = d]
      BY <2>1, RegisterEffect
    <3>2. d = Head(register)
      BY <2>0, <3>1
    <3>3. UNCHANGED <<readPump, unregister>>
      BY <2>1 DEF RunRegister
    <3>4. ~Mapped(c) /\ Mapped(c)' => c = d
      BY <2>0, <3>1 DEF Mapped
    <3>5. Mapped(c) /\ ~Mapped(c)' => c # d /\ UserOf[c] = UserOf[d]
      BY <2>0, <3>1 DEF Mapped
    <3> QED
      BY <2>1, <3>2, <3>3, <3>4, <3>5 DEF Ghost, InUnregister
  <2>2. CASE RunUnregister
    <3>1. unregister # <<>> /\ unregister' = Tail(unregister) /\ readPump' = readPump
      BY <2>2 DEF RunUnregister
    <3> PICK d \in Conns : d = Head(unregister)
      BY <2>0, <3>1, TailProperties
    <3>2. /\ d = unregister[1] /\ Len(unregister) \in Nat \ {0}
          /\ Len(unregister') = Len(unregister) - 1
          /\ \A i \in 1 .. Len(unregister) - 1 : unregister'[i] = unregister[i + 1]
      BY <2>0, <3>1, TailProperties
    <3>3. InUnregister(d)
      BY <3>2 DEF InUnregister
    <3>4. IF Mapped(d) THEN clients' = [clients EXCEPT ![UserOf[d]] = NoConn]
          ELSE clients' = clients
      BY <2>2 DEF RunUnregister, Holds
    <3>5. \A b \in Conns : InUnregister(b)' => InUnregister(b)
      BY <3>2 DEF InUnregister
    <3>6. \A b \in Conns \ {d} : InUnregister(b) => InUnregister(b)'
      <4> SUFFICES ASSUME NEW b \in Conns \ {d}, NEW i \in 1 .. Len(unregister),
                          unregister[i] = b
                   PROVE  InUnregister(b)'
        BY DEF InUnregister
      <4>1. i # 1
        BY <3>2
      <4>2. i - 1 \in 1 .. Len(unregister') /\ unregister'[i - 1] = b
        BY <3>2, <4>1
      <4> QED
        BY <4>2 DEF InUnregister
    <3>6a. UserOf[c] \in Users /\ UserOf[d] \in Users
      BY <2>0, <3>2
    <3>7. c # d => (Mapped(c)' <=> Mapped(c))
      <4>1. CASE Mapped(d)
        <5>1. clients' = [clients EXCEPT ![UserOf[d]] = NoConn]
          BY <3>4, <4>1
        <5> QED
          BY <2>0, <3>6a, <4>1, <5>1, NoConnAssumption DEF Mapped
      <4>2. CASE ~Mapped(d)
        BY <3>4, <4>2 DEF Mapped
      <4> QED
        BY <4>1, <4>2
    <3>8. ~Mapped(d)'
      <4>1. CASE Mapped(d)
        <5>1. clients' = [clients EXCEPT ![UserOf[d]] = NoConn]
          BY <3>4, <4>1
        <5> QED
          BY <2>0, <3>2, <3>6a, <5>1, NoConnAssumption DEF Mapped
      <4>2. CASE ~Mapped(d)
        BY <3>4, <4>2 DEF Mapped
      <4> QED
        BY <4>1, <4>2
    <3>9. CASE c = d
      BY <3>3, <3>8, <3>9 DEF Ghost
    <3>10. CASE c # d
      BY <3>1, <3>5, <3>6, <3>7, <3>10 DEF Ghost
    <3> QED
      BY <3>9, <3>10
  <2>3. ASSUME NEW d \in Conns, Unregister(d) PROVE Explained(c)
    <3>1. /\ clients' = clients /\ unregister' = Append(unregister, d)
          /\ readPump[d] = "leaving" /\ readPump' = [readPump EXCEPT ![d] = "closing"]
      BY <2>3 DEF Unregister
    <3>2. /\ Len(unregister) \in Nat /\ Len(unregister') = Len(unregister) + 1
          /\ \A i \in 1 .. Len(unregister) : unregister'[i] = unregister[i]
          /\ unregister'[Len(unregister) + 1] = d
      BY <2>0, <3>1, AppendProperties
    <3>3. InUnregister(d)'
      BY <3>2 DEF InUnregister
    <3>4. ASSUME c # d PROVE InUnregister(c)' <=> InUnregister(c)
      <4>1. \A i \in 1 .. Len(unregister') : i \in 1 .. Len(unregister) \/ i = Len(unregister) + 1
        BY <3>2
      <4>2. InUnregister(c)' => InUnregister(c)
        BY <3>2, <3>4, <4>1 DEF InUnregister
      <4>3. InUnregister(c) => InUnregister(c)'
        BY <3>2 DEF InUnregister
      <4> QED
        BY <4>2, <4>3
    <3>5. ~Ghost(d) /\ ~Ghost(d)'
      BY <3>1, <3>3 DEF Ghost
    <3> QED
      BY <2>0, <3>1, <3>4, <3>5 DEF Ghost, Mapped
  <2>4. ASSUME NEW d \in Conns, ServeWS(d) PROVE Explained(c)
    <3>1. /\ UNCHANGED <<clients, unregister>> /\ readPump[d] = "none"
          /\ readPump' = [readPump EXCEPT ![d] = "reading"]
      BY <2>4 DEF ServeWS
    <3>2. Ghost(c)' <=> Ghost(c)
      BY <2>0, <3>1 DEF Ghost, Mapped, InUnregister
    <3> QED
      BY <3>2
  <2>5. ASSUME NEW d \in Conns, ReadError(d) PROVE Explained(c)
    <3>1. /\ UNCHANGED <<clients, unregister>> /\ readPump[d] = "reading"
          /\ readPump' = [readPump EXCEPT ![d] = "leaving"]
      BY <2>5 DEF ReadError, MayCall
    <3>2. Ghost(c)' <=> Ghost(c)
      BY <2>0, <3>1 DEF Ghost, Mapped, InUnregister
    <3> QED
      BY <3>2
  <2>6. ASSUME NEW d \in Conns, CloseConn(d) PROVE Explained(c)
    <3>1. /\ UNCHANGED <<clients, unregister>> /\ readPump[d] = "closing"
          /\ readPump' = [readPump EXCEPT ![d] = "done"]
      BY <2>6 DEF CloseConn
    <3>2. Ghost(c)' <=> Ghost(c)
      BY <2>0, <3>1 DEF Ghost, Mapped, InUnregister
    <3> QED
      BY <3>2
  <2>7. ASSUME UNCHANGED <<clients, unregister, readPump>> PROVE Explained(c)
    BY <2>7 DEF Ghost, Mapped, InUnregister
  <2>8. CASE \/ RunBroadcast
             \/ \E d \in Conns : SendError(d) \/ WritePump(d) \/ PeerGone(d)
             \/ \E g \in Callers, u \in Users : Lookup(g, u)
             \/ \E g \in Callers, m \in Msgs : Push(g, m)
             \/ \E u \in Users, m \in Msgs : Broadcast(u, m)
             \/ UNCHANGED hubVars
    BY <2>7, <2>8 DEF RunBroadcast, SendError, WritePump, TakeMessage, OpenFrame,
                      NextWriterFails, DrainOne, WriteFrame, WriteFails, WriteClose, PingFails,
                      PeerGone, Lookup, Push, Broadcast, hubVars
  <2> QED
    BY <2>1, <2>2, <2>3, <2>4, <2>5, <2>6, <2>8 DEF Next, Run, ReadPump
<1> QED
  BY <1>1, IInvHolds, PTL DEF Spec

=============================================================================
