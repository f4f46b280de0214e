\* Two servers write the catalogues; two more synchronise permissions while
\* seed:rbac runs; a note is retried; a recommendation is edited by several
\* requests; two attempts analyse a situation; a release changes the schema under
\* the revision that serves.
SPECIFICATION BackOfficeSpec
CONSTANTS
    Boots = {b1, b2}
    roles = roles
    areas = areas
    Lists = {roles, areas}
    Awaited = roles
    Size <- MCSize
    Servers = {s1, s2}
    Jobs = {j1}
    RoleCount = 2
    Permissions = {1, 2, 3}
    Expected <- MCExpected
    u1 = u1
    u2 = u2
    u3 = u3
    u4 = u4
    k1 = k1
    Uploads = {u1, u2, u3, u4}
    Keys = {k1}
    NoKey = NoKey
    KeyOf <- MCKeyOf
    Updates = {p1, p2}
    MaxClock = 2
    Attempts = {a1, a2}
    None = None
    Lease = 1
    Readers = {g1}
    Situations = {n1, n2}
    Owners = {north}
    NoOwner = NoOwner
    Levels = {low, high}
    Unset = Unset
INVARIANTS
    SomebodySeeds
    SomebodyFinishes
    EvidenceIsAnnounced
    RetriesAgree
    CompletionCoherent
    AnswersAreCoherent
    MigratedRowsAreWhole
PROPERTIES
    ExpectedIsNeverRevoked
    SyncConverges
    ImplementsClaim
    EveryServerComesUp
CHECK_DEADLOCK FALSE
