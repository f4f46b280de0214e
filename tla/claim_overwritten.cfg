\* A PATCH that was loaded under one claim and saved under the next.
SPECIFICATION PatchSpec
CONSTANTS
    Attempts = {a1, a2}
    None = None
    Lease = 1
    Patches = {p1}
INVARIANT FencedUnderPatch
CHECK_DEADLOCK FALSE
