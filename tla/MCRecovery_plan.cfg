SPECIFICATION Spec
CONSTANTS
    f1 = f1
    f2 = f2
    p1 = p1
    p2 = p2
    Failures = {f1, f2}
    Plans = {p1, p2}
    Cohort <- MCCohort
    Anonymous <- MCAnonymous
    Replicas = {r1, r2}
    Counts = {1}
    None = None
    MaxControls = 2
    MaxFaults = 1
CHECK_DEADLOCK FALSE
INVARIANTS SendingSound
PROPERTIES ReportSound
