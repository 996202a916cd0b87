\* Alarms on different ticks, released only when alone.
SPECIFICATION Spec
CONSTANTS
    NAlarms = 3
    Wrap = 4
    Releases = "only"
    DistinctTimes = TRUE
INVARIANTS
    AlarmsInStep
    FiresOnTime
    ElapsedExact
PROPERTIES
    AlarmsEnd
