\* Every hint against every text; a job of up to four processes, more than either list starts with.
CONSTANTS
    Null = Null
    Calls <- MCCalls
    Hosts <- MCHosts
    Addresses <- MCAddresses
    BufferSizes = {0, 7, 8, 15, 16, 64}
    p1 = p1
    p2 = p2
    p3 = p3
    p4 = p4
    Process = {p1, p2, p3, p4}
    Self = p1
    SyncCapacity = 2
    JobCapacity = 1
    JobLimit = 2
SPECIFICATION FairSpec
INVARIANTS
    NothingLeaks
    ListIsComplete
    TextReadsBack
    AnswerOfTheMoment
PROPERTIES
    QueryEnds
