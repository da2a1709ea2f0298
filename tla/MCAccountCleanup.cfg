\* A guest and two registered users; the clock ticks once, past every period.
\* The accounts and the clock are used up in the end, but the job is run for ever.
SPECIFICATION FairSpec
CONSTANTS
    g1 = g1
    u1 = u1
    u2 = u2
    Users = {g1, u1, u2}
    Guests = {g1}
    Never = Never
    GracePeriod = 0
    GuestDays = 0
    DisabledDays = 0
    InactiveDays = 0
    MaxClock = 1
    MaxCrashes = 1
INVARIANTS TypeOK
PROPERTIES NoticeRespected StaleGuestsGo SelectedGo
