SPECIFICATION DeliverySpec
CONSTANTS
    a = a
    b = b
    a1 = a1
    b1 = b1
    b2 = b2
    Users = {a, b}
    Conns = {a1, b1}
    UserOf <- MCUserOf
    NoConn = NoConn
    Callers <- MCCallers
    Msgs <- MCMsgs
    ErrorMsg = e
    SendCap = 1
    QueueCap = 1
    BroadcastCap = 0
    Texts = {t1, t2}
    Author <- MCAuthor
    Addressee <- MCAddressee
    Worker <- MCWorker
    Faulty = {}
    Fragile = {a1, b1}
    Garbled = {}
    MaxReceived <- MCTwo
INVARIANT SendReturns
CHECK_DEADLOCK FALSE
