CONSTANTS
    q1 = q1
    q2 = q2
    other = other
    Clients = {q1, q2, other}
    Guard <- MCGuard
    TestFirst = {"queuem"}
    NoOne = NoOne
    Inputs <- MCInputs
    Rands = {0, 7, 3000}
    TrivialLimit = 31
    RhoIterations = 1
    Depth = 4
    k1 = k1
    Null = Null
    Accounts = {1, 2}
    Keys = {k1}
    Kinds = {"ip", "phone", "token", "key", "dialogs_hash", "messages_hash", "photo", "peer_photo", "chat", "channel", "user", "dialog", "message", "read", "top"}
    MaxSaves = 2
    MaxFaults = 2
    d1 = d1
    d2 = d2
    Users = {1, 2}
    Centres = {d1, d2}
    Default = d1
    Home <- MCHome
    MaxKeys = 4
    MaxErrors = 2
    MaxStarts = 2
SPECIFICATION StartupSpec
INVARIANTS
    StoreTypeOK KeyIsAgreed
    ProductIsKept FoundArePrime CrashIsBents
     ReadsItsOwn NullIsTorn
    KeyFitsAddress
PROPERTIES
    AskedOnlyWhenNeeded
