\* Two alarms may end on the same tick.
SPECIFICATION Spec
CONSTANTS
    NAlarms = 2
    Wrap = 4
    Releases = "none"
    DistinctTimes = FALSE
INVARIANT CountIsActive
