SPECIFICATION FairApp
CONSTANTS
    Users = {u1, u2}
    NoUser = NoUser
    Channels = {c1, c2}
    NoChannel = NoChannel
    Attempts = {x1, x2}
    SignOuts = {o1, o2}
INVARIANTS SessionTypeOK RetryArmed FlagsAgree OneChannel HomeNeedsToken StoredTogether
PROPERTIES Reconnects
CHECK_DEADLOCK FALSE
