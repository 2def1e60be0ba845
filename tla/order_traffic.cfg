SPECIFICATION Spec
CONSTANTS
    Orders = {o1, o2, o3}
    Demos = {d1}
    Simulators = {s1}
    Target = 2
CHECK_DEADLOCK FALSE
INVARIANT BaselineFills
PROPERTY
    StraysOnlyByStale
