\* Two threads, three registrations that come and go while exceptions are dispatched.
CONSTANTS
    Thread = {t1, t2}
    Entry = {e1, e2, e3}
    Anchor = Anchor
    None = None
SPECIFICATION FairSpec
INVARIANTS
    RegistrationsSound
    EachCalledOnce
PROPERTIES
    RemovedNotCalled
    FaultsOnlyOnResume
    RemovedIsFreed
