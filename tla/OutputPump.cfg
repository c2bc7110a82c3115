CONSTANTS
    MaxOutputs = 2
    MaxPending = 2
    MaxJobs = 3
    MaxOwed = 2
    MaxStops = 1
    MaxFails = 1
SPECIFICATION FairPumpSpec
INVARIANTS PumpTypeOK NoLostWakeup OwnReplyOnce
PROPERTY WorkIsServed
CHECK_DEADLOCK FALSE
