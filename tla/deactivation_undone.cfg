\* A login or an onboarding step of the user, or another PATCH, was loaded before
\* the deactivation and is saved after it.
SPECIFICATION AccountSpec
CONSTANTS
    Admins = {d1, d2}
    Onboardings = {o1}
    Logins = {l1}
    Roles = {r1, r2}
INVARIANT DeactivatedIsRefused
CHECK_DEADLOCK FALSE
