CONSTANTS
    t1 = t1
    t2 = t2
    q = q
    Null = Null
    Messages <- MCMessages
    Sizes = {0, 1, 3, 4, 5, 6, 8, 10}
    PartSize = 2
    BigLimit = 4
    Limit = 4
    IntMax = 9
    MaxLost = 2
    Threads = {t1, t2}
    Answers <- MCAnswers
    MaxAnswers = 3
    MaxBusy = 1
    Ctor = 0
    Query = q
    Pages <- MCPages
SPECIFICATION ContentSpec
INVARIANTS
    ReadsWhereWritten PeeledIsWrapped
    UploadIsWhole DownloadIsPrefix
    EveryUpdateIsAnnounced DatabaseIsCurrent
    DialogIsItsPeer EachIsGivenOnce
