\* A PATCH that overlaps a sweep: the missed deadline is null again.
SPECIFICATION Spec
CONSTANTS
    None = None
    GeneralCoordination = "general"
    DueWindow <- CoarseDueWindow
    WarningLead <- CoarseWarningLead
    ReminderCooldown = 1
    DayLength = 2
    EscalationStep = 2
    Actors <- MCActors
    Areas <- MCAreas
    Drafts <- RacingDrafts
    PatchBodies <- RacingBodies
    EffectDates = {}
    PatchRequests = {p1}
    AddRequests = {}
    Sweepers = {scheduler}
    EscalationEnabled = FALSE
    MaxTime = 4
INVARIANT BreachIsKept
CHECK_DEADLOCK FALSE
