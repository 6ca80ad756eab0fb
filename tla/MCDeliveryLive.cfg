SPECIFICATION FairDelivery
CONSTANTS
    a = a
    b = b
    a1 = a1
    b1 = b1
    b2 = b2
    Users = {a, b}
    Conns = {a1, b1, b2}
    UserOf <- MCUserOf
    NoConn = NoConn
    Callers <- MCCallers
    Msgs <- MCMsgs
    ErrorMsg = e
    SendCap = 1
    QueueCap = 1
    BroadcastCap = 0
    Texts = {t1}
    Author <- MCAuthor
    Addressee <- MCAddressee
    Worker <- MCWorker
    Faulty = {"clear", "expire"}
    Fragile = {}
    Garbled = {}
    MaxReceived <- MCOnlyA
PROPERTIES QueuedArrives HandlersReturn
CHECK_DEADLOCK FALSE
