\* Two overlapping sweeps over a HIGH problem (72 h, warning 24 h) that is closed at any
\* time and edited by a PATCH that takes any time.
SPECIFICATION FairSpec
CONSTANTS
    None = None
    GeneralCoordination = "general"
    DueWindow <- MCDueWindow
    WarningLead <- MCWarningLead
    ReminderCooldown = 2
    DayLength = 4
    EscalationStep = 12
    Actors <- MCActors
    Areas <- MCAreas
    Drafts <- SweptDrafts
    PatchBodies <- SweptBodies
    EffectDates = {}
    PatchRequests = {p1}
    AddRequests = {}
    Sweepers = {cron, scheduler}
    EscalationEnabled = FALSE
    MaxTime = 14
INVARIANTS
    BreachIsTruthful
    WarningsAreSpaced
PROPERTIES
    BreachIsDetected
CHECK_DEADLOCK FALSE
