SPECIFICATION DeliverySpec
CONSTANTS
    a = a
    b = b
    a1 = a1
    b1 = b1
    b2 = b2
    Users = {a, b}
    Conns = {a1, b1}
    UserOf <- MCUserOf
    NoConn = NoConn
    Callers <- MCCallers
    Msgs <- MCMsgs
    ErrorMsg = e
    SendCap = 1
    QueueCap = 1
    BroadcastCap = 0
    Texts = {t1}
    Author <- MCAuthor
    Addressee <- MCAddressee
    Worker <- MCWorker
    Faulty = {"save", "update", "store", "load"}
    Fragile = {b1}
    Garbled = {b1}
    MaxReceived <- MCTwoAndOne
INVARIANTS DeliveryTypeOK PersistedFirst LostOnlyWithConnection InOrder
PROPERTIES ReadStays ImplementsConversation
CHECK_DEADLOCK FALSE
