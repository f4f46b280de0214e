\* Every actor against every situation.
SPECIFICATION ScopeSpec
CONSTANTS
    None = None
    GeneralCoordination = "general"
    Areas = {"general", "north", "south"}
    People = {"u1", "u2"}
INVARIANT HintMeansPatch
CHECK_DEADLOCK FALSE
