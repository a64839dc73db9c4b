\* A document on an expense is never swept.
SPECIFICATION Spec
CONSTANTS
    Schedulers = {s1}
    Bills = {}
    Schedules <- MCSchedules
    Members = {}
    Documents = {d1}
    Days <- MCDays
    FirstDay <- MCFirstDay
    TierChoices <- MCTierChoices
    Malformed = Malformed
    MaxEvents = 4
    None = None
PROPERTIES
    OrphansSwept
