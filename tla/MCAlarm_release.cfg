\* Alarms are released while others are set.
SPECIFICATION Spec
CONSTANTS
    NAlarms = 2
    Wrap = 4
    Releases = "any"
    DistinctTimes = TRUE
INVARIANT QueueIsActive
