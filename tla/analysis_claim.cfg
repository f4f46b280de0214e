\* Three attempts that outlive their lease, fail and crash.
SPECIFICATION FairSpec
CONSTANTS
    Attempts = {a1, a2, a3}
    None = None
    Lease = 2
INVARIANTS
    ConfirmedInOrder
    ReplacesTheLatest
    VersionsAreAnnounced
PROPERTIES
    LiveClaimIsSafe
    EveryRequestIsServed
CHECK_DEADLOCK FALSE
