\* The revision before registers while the migrations are applied one by one.
SPECIFICATION ReleaseSpec
CONSTANTS
    Situations = {n1}
    Owners = {north}
    NoOwner = NoOwner
    Levels = {low, high}
    Unset = Unset
INVARIANT NobodyIsTurnedAway
CHECK_DEADLOCK FALSE
