\* Four events at any moment, over four dates of three months.
SPECIFICATION Spec
CONSTANTS
    Schedulers = {s1, s2}
    Bills = {b1}
    Schedules <- MCSchedules
    Members = {m1}
    Documents = {d1, d2}
    Days <- MCDays
    FirstDay <- MCFirstDay
    TierChoices <- MCTierChoices
    Malformed = Malformed
    MaxEvents = 4
    None = None
INVARIANTS
    TypeOK
    BilledOnSchedule
    RemindedOnce
    ObjectsMatchRows
PROPERTIES
    CatchesUp
