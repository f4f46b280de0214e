\* Every actor against every situation; retries, double clicks, reuse of a key and
\* crashes of a registration.
SPECIFICATION RequestsSpec
CONSTANTS
    None = None
    GeneralCoordination = "general"
    Areas = {"general", "north", "south"}
    People = {"u1", "u2"}
    ana = ana
    beto = beto
    k1 = k1
    c1 = c1
    c2 = c2
    Absent = Absent
    Users = {ana, beto}
    Keys = {k1}
    Contents = {c1, c2}
    Attempts = {r1, r2, r3}
    Submissions <- MCSubmissions
INVARIANTS
    ReadingIsNotWriting
    HintsAreHonoured
    ListsShowWhatIsReadable
    AnswersAreTruthful
    ReuseIsReal
    NeverInProgress
PROPERTIES
    RegistersAtMostOnce
    AttemptsEnd
CHECK_DEADLOCK FALSE
