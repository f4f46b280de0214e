\* A PATCH that overlaps a closing: the problem is open again.
SPECIFICATION Spec
CONSTANTS
    None = None
    GeneralCoordination = "general"
    DueWindow <- MCDueWindow
    WarningLead <- MCWarningLead
    ReminderCooldown = 2
    DayLength = 4
    EscalationStep = 2
    Actors <- MCActors
    Areas <- MCAreas
    Drafts <- RacingDrafts
    PatchBodies <- RacingBodies
    EffectDates = {}
    PatchRequests = {p1}
    AddRequests = {}
    Sweepers = {scheduler}
    EscalationEnabled = FALSE
    MaxTime = 4
INVARIANT ClosedStaysClosed
CHECK_DEADLOCK FALSE
