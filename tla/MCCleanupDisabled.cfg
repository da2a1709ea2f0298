\* A self-disabled account whose grace period is over.
SPECIFICATION Spec
CONSTANTS
    g1 = g1
    u1 = u1
    u2 = u2
    Users = {g1, u1, u2}
    Guests = {g1}
    Never = Never
    GracePeriod = 1
    GuestDays = 0
    DisabledDays = 1
    InactiveDays = 1
    MaxClock = 2
    MaxCrashes = 1
PROPERTIES DisabledFound
