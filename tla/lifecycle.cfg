\* Two PATCH requests that overlap each other and everything else: a consequence, a
\* closing, a sweep and the test escalation policy.  Units of twelve hours.
SPECIFICATION Spec
CONSTANTS
    None = None
    GeneralCoordination = "general"
    DueWindow <- CoarseDueWindow
    WarningLead <- CoarseWarningLead
    ReminderCooldown = 1
    DayLength = 2
    EscalationStep = 1
    Actors <- MCActors
    Areas <- MCAreas
    Drafts <- LiveDrafts
    PatchBodies <- LiveBodies
    EffectDates = {2}
    PatchRequests = {p1, p2}
    AddRequests = {c1}
    Sweepers = {scheduler}
    EscalationEnabled = TRUE
    MaxTime = 4
INVARIANTS
    ClosingIsWitnessed
    InternalAreasAgree
    AdvanceIsRecorded
    ClosingFreezesHistory
    SeverityHistoryCoherent
PROPERTIES
    KeepsThePromise
SYMMETRY PatchSymmetry
CHECK_DEADLOCK FALSE
