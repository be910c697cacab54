SPECIFICATION FairSpec
CONSTANTS
    None = None
    Replicas = {"p", "q"}
    MaxIncidents = 2
    MaxAlerts = 2
    Sla <- TheSla
    Events <- TheEvents
    AtOnce = 2
    MaxTime = 4
    MaxSteps = 3
INVARIANTS ClocksAgree ToldOnce AlertsFiled
PROPERTY LateIsRecorded
CHECK_DEADLOCK FALSE
